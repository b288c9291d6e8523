-------------------------- MODULE CursorListProofs --------------------------
(***************************************************************************)
(* Lemmas about the list operators of CursorList: what each of them does   *)
(* to the set of nodes and to the nodes a cursor has still ahead of it.    *)
(***************************************************************************)
EXTENDS CursorList, SequenceTheorems, WellFoundedInduction, TLAPS

\* Position finds the only occurrence of a node.
LEMMA PositionOf ==
    ASSUME NEW S, NEW q \in Seq(S), IsInjective(q), NEW i \in DOMAIN q
    PROVE  Position(q, q[i]) = i
<1> DEFINE I == {k \in 1 .. Len(q) : q[k] = q[i]}
<1>1. I = {i}
  BY DEF IsInjective
<1>2. Position(q, q[i]) = Min(I)
  BY <1>1 DEF Position, SelectInSeq
<1>3. Min({i}) = i
  BY DEF Min
<1> QED BY <1>1, <1>2, <1>3

\* The successor of the i-th node is the (i+1)-st one, if there is one.
LEMMA SuccessorOf ==
    ASSUME NEW S, NEW q \in Seq(S), IsInjective(q), NEW i \in DOMAIN q
    PROVE  Successor(q, q[i]) = IF i < Len(q) THEN q[i + 1] ELSE NULL
<1>1. Position(q, q[i]) = i
  BY PositionOf
<1>2. i \in 1 .. Len(q)
  OBVIOUS
<1> QED BY <1>1, <1>2 DEF Successor

\* Nothing is ahead of the NULL cursor, and only nodes of the list are ahead.
LEMMA AheadBounds ==
    ASSUME NEW S, NEW q \in Seq(S), NULL \notin S, NEW it
    PROVE  /\ Ahead(q, it) \subseteq ToSet(q)
           /\ Ahead(q, NULL) = {}
           /\ ToSet(q) \subseteq S
  BY DEF Ahead, ToSet

\* From the head everything is ahead.
LEMMA AheadOfFirst ==
    ASSUME NEW S, NEW q \in Seq(S), NULL \notin S
    PROVE  /\ First(q) \in ToSet(q) \cup {NULL}
           /\ Ahead(q, First(q)) = ToSet(q)
<1>1. CASE q = <<>>
  BY <1>1 DEF First, Ahead, ToSet
<1>2. CASE q # <<>>
  <2>1. 1 \in DOMAIN q /\ \A j \in DOMAIN q : 1 <= j
    BY <1>2
  <2> QED BY <1>2, <2>1 DEF First, Ahead, ToSet
<1> QED BY <1>1, <1>2

\* Moving the cursor on leaves exactly the node it pointed at behind.
LEMMA AheadOfSuccessor ==
    ASSUME NEW S, NEW q \in Seq(S), IsInjective(q), NULL \notin S,
           NEW x \in ToSet(q)
    PROVE  /\ Successor(q, x) \in ToSet(q) \cup {NULL}
           /\ Successor(q, x) # x
           /\ Ahead(q, Successor(q, x)) = Ahead(q, x) \ {x}
<1>1. PICK p \in DOMAIN q : q[p] = x
  BY DEF ToSet
<1>2. Successor(q, x) = IF p < Len(q) THEN q[p + 1] ELSE NULL
  BY <1>1, SuccessorOf
<1>3. p \in 1 .. Len(q) /\ DOMAIN q = 1 .. Len(q)
  OBVIOUS
<1>4. \A i \in DOMAIN q : q[i] = x => i = p
  BY <1>1 DEF IsInjective
<1>5. CASE p < Len(q)
  <2>1. p + 1 \in DOMAIN q /\ Successor(q, x) = q[p + 1]
    BY <1>2, <1>3, <1>5
  <2>2. \A i \in DOMAIN q : q[i] = q[p + 1] => i = p + 1
    BY <2>1 DEF IsInjective
  <2>3. \A j \in DOMAIN q : p + 1 <= j <=> (p <= j /\ j # p)
    BY <1>3
  <2>4. Ahead(q, x) = {y \in ToSet(q) : \E j \in DOMAIN q : p <= j /\ q[j] = y}
    BY <1>1, <1>4 DEF Ahead
  <2>5. Ahead(q, q[p + 1]) = {y \in ToSet(q) : \E j \in DOMAIN q : p + 1 <= j /\ q[j] = y}
    BY <2>1, <2>2 DEF Ahead
  <2> QED BY <1>1, <1>4, <2>1, <2>2, <2>3, <2>4, <2>5 DEF ToSet
<1>6. CASE ~(p < Len(q))
  <2>1. Successor(q, x) = NULL /\ p = Len(q)
    BY <1>2, <1>3, <1>6
  <2>2. Ahead(q, x) \subseteq {x}
    BY <1>1, <1>3, <1>4, <2>1 DEF Ahead
  <2>3. x \in S
    BY DEF ToSet
  <2> QED BY <2>1, <2>2, <2>3, AheadBounds
<1> QED BY <1>5, <1>6

\* Appending a new node keeps the list duplicate-free and loses nothing.
LEMMA AppendNode ==
    ASSUME NEW S, NEW q \in Seq(S), NEW x \in S
    PROVE  /\ Append(q, x) \in Seq(S)
           /\ ToSet(Append(q, x)) = ToSet(q) \cup {x}
           /\ \A it : Ahead(q, it) \subseteq Ahead(Append(q, x), it)
           /\ IsInjective(q) /\ x \notin ToSet(q) => IsInjective(Append(q, x))
<1> DEFINE r == Append(q, x)
<1>1. /\ r \in Seq(S)
      /\ Len(r) = Len(q) + 1
      /\ \A i \in 1 .. Len(q) : r[i] = q[i]
      /\ r[Len(q) + 1] = x
  BY AppendProperties
<1>2. DOMAIN q = 1 .. Len(q) /\ DOMAIN r = 1 .. (Len(q) + 1) /\ Len(q) \in Nat
  BY <1>1
<1> HIDE DEF r
<1>3. ToSet(r) = ToSet(q) \cup {x}
  BY <1>1, <1>2 DEF ToSet
<1>4. ASSUME NEW it PROVE Ahead(q, it) \subseteq Ahead(r, it)
  BY <1>1, <1>2, <1>3 DEF Ahead
<1>5. IsInjective(q) /\ x \notin ToSet(q) => IsInjective(r)
  BY <1>1, <1>2 DEF IsInjective, ToSet
<1> QED BY <1>1, <1>3, <1>4, <1>5 DEF r

\* Removing the p-th element closes the gap.
LEMMA RemovePosition ==
    ASSUME NEW S, NEW q \in Seq(S), NEW p \in DOMAIN q
    PROVE  /\ RemoveAt(q, p) \in Seq(S)
           /\ Len(RemoveAt(q, p)) = Len(q) - 1
           /\ \A i \in 1 .. (Len(q) - 1) :
                 RemoveAt(q, p)[i] = IF i < p THEN q[i] ELSE q[i + 1]
<1>1. p \in 1 .. Len(q) /\ Len(q) \in Nat
  OBVIOUS
<1>2. RemoveAt(q, p) = SubSeq(q, 1, p - 1) \o SubSeq(q, p + 1, Len(q))
  BY DEF RemoveAt
<1> DEFINE a == SubSeq(q, 1, p - 1)
           b == SubSeq(q, p + 1, Len(q))
<1>3. /\ a \in Seq(S) /\ Len(a) = p - 1
      /\ \A i \in 1 .. (p - 1) : a[i] = q[i]
  <2>1. \A i \in 1 .. (p - 1) : q[i] \in S
    BY <1>1
  <2>2. 1 \in Int /\ p - 1 \in Int
    BY <1>1
  <2> HIDE DEF a
  <2>3. /\ a \in Seq(S) /\ Len(a) = IF 1 <= p - 1 THEN p - 1 - 1 + 1 ELSE 0
        /\ \A i \in 1 .. (p - 1) - 1 + 1 : a[i] = q[1 + i - 1]
    BY <2>1, <2>2, SubSeqProperties DEF a
  <2> QED BY <2>3, <1>1
<1>4. /\ b \in Seq(S) /\ Len(b) = Len(q) - p
      /\ \A i \in 1 .. (Len(q) - p) : b[i] = q[p + i]
  <2>1. \A i \in (p + 1) .. Len(q) : q[i] \in S
    BY <1>1
  <2>2. p + 1 \in Int /\ Len(q) \in Int
    BY <1>1
  <2> HIDE DEF b
  <2>3. /\ b \in Seq(S)
        /\ Len(b) = IF p + 1 <= Len(q) THEN Len(q) - (p + 1) + 1 ELSE 0
        /\ \A i \in 1 .. Len(q) - (p + 1) + 1 : b[i] = q[(p + 1) + i - 1]
    BY <2>1, <2>2, SubSeqProperties DEF b
  <2> QED BY <2>3, <1>1
<1> HIDE DEF a, b
<1>5. /\ a \o b \in Seq(S)
      /\ Len(a \o b) = Len(a) + Len(b)
      /\ \A i \in 1 .. Len(a) + Len(b) :
            (a \o b)[i] = IF i <= Len(a) THEN a[i] ELSE b[i - Len(a)]
  BY <1>3, <1>4, ConcatProperties
<1>6. Len(a \o b) = Len(q) - 1
  BY <1>1, <1>3, <1>4, <1>5
<1>7. ASSUME NEW i \in 1 .. (Len(q) - 1)
      PROVE  (a \o b)[i] = IF i < p THEN q[i] ELSE q[i + 1]
  <2>1. CASE i < p
    BY <1>1, <1>3, <1>4, <1>5, <2>1
  <2>2. CASE ~(i < p)
    <3>1. (a \o b)[i] = b[i - (p - 1)]
      <4>1. i \in 1 .. Len(a) + Len(b) /\ ~(i <= Len(a)) /\ Len(a) = p - 1
        BY <1>1, <1>3, <1>4, <2>2
      <4>2. (a \o b)[i] = IF i <= Len(a) THEN a[i] ELSE b[i - Len(a)]
        BY <4>1, <1>5
      <4> QED BY <4>1, <4>2
    <3>2. i - (p - 1) \in 1 .. (Len(q) - p) /\ p + (i - (p - 1)) = i + 1
      BY <1>1, <2>2
    <3> QED BY <3>1, <3>2, <1>4, <2>2
  <2> QED BY <2>1, <2>2
<1> QED BY <1>2, <1>5, <1>6, <1>7 DEF a, b

\* Erasing the p-th node of a list removes the p-th element.
LEMMA ErasePosition ==
    ASSUME NEW S, NEW q \in Seq(S), IsInjective(q), NEW p \in DOMAIN q
    PROVE  /\ Erase(q, q[p]) \in Seq(S)
           /\ Len(Erase(q, q[p])) = Len(q) - 1
           /\ \A i \in 1 .. (Len(q) - 1) :
                 Erase(q, q[p])[i] = IF i < p THEN q[i] ELSE q[i + 1]
<1>1. Position(q, q[p]) = p /\ p \in 1 .. Len(q)
  BY PositionOf
<1>2. Erase(q, q[p]) = RemoveAt(q, p)
  BY <1>1 DEF Erase, RemoveFirst, Position
<1> QED BY <1>2, RemovePosition

\* Erasing a node removes it and, when the cursor is fixed first, leaves the
\* cursor in the list and everything else it had ahead still ahead of it.
LEMMA EraseNode ==
    ASSUME NEW S, NEW q \in Seq(S), IsInjective(q), NULL \notin S,
           NEW x \in ToSet(q), NEW it \in ToSet(q) \cup {NULL}
    PROVE  /\ Erase(q, x) \in Seq(S)
           /\ IsInjective(Erase(q, x))
           /\ ToSet(Erase(q, x)) = ToSet(q) \ {x}
           /\ SkipErased(q, it, x) \in ToSet(Erase(q, x)) \cup {NULL}
           /\ Ahead(Erase(q, x), SkipErased(q, it, x)) = Ahead(q, it) \ {x}
<1>1. PICK p \in DOMAIN q : q[p] = x
  BY DEF ToSet
<1> DEFINE r == Erase(q, x)
<1>2. /\ r \in Seq(S)
      /\ Len(r) = Len(q) - 1
      /\ \A i \in 1 .. (Len(q) - 1) : r[i] = IF i < p THEN q[i] ELSE q[i + 1]
  BY <1>1, ErasePosition
<1> HIDE DEF r
<1>3. /\ DOMAIN q = 1 .. Len(q) /\ DOMAIN r = 1 .. (Len(q) - 1)
      /\ Len(q) \in Nat /\ p \in 1 .. Len(q)
  BY <1>1, <1>2
<1>4. \A i \in DOMAIN q : q[i] = x => i = p
  BY <1>1 DEF IsInjective
<1> DEFINE up(i) == IF i < p THEN i ELSE i + 1
<1>5. \A i \in DOMAIN r : up(i) \in DOMAIN q /\ up(i) # p /\ r[i] = q[up(i)]
  BY <1>2, <1>3
<1>6. \A k \in DOMAIN q : k # p => \E i \in DOMAIN r : up(i) = k
  <2>1. ASSUME NEW k \in DOMAIN q, k < p
        PROVE  k \in DOMAIN r /\ up(k) = k
    BY <1>3, <2>1
  <2>2. ASSUME NEW k \in DOMAIN q, k > p
        PROVE  k - 1 \in DOMAIN r /\ up(k - 1) = k
    BY <1>3, <2>2
  <2> QED BY <2>1, <2>2, <1>3
<1>7. \A i, j \in DOMAIN r : (i <= j <=> up(i) <= up(j)) /\ (up(i) = up(j) => i = j)
  BY <1>3
<1> HIDE DEF up
<1>8. IsInjective(r)
  BY <1>5, <1>7 DEF IsInjective
<1>9. ToSet(r) = ToSet(q) \ {x}
  <2>1. ToSet(r) \subseteq ToSet(q) \ {x}
    BY <1>4, <1>5 DEF ToSet
  <2>2. ToSet(q) \ {x} \subseteq ToSet(r)
    BY <1>1, <1>5, <1>6 DEF ToSet
  <2> QED BY <2>1, <2>2
<1>10. ASSUME NEW y \in ToSet(q), y # x
       PROVE  Ahead(r, y) = Ahead(q, y) \ {x}
  <2>1. ASSUME NEW z \in Ahead(r, y)
        PROVE  z \in Ahead(q, y) \ {x}
    <3>1. PICK i, j \in DOMAIN r : i <= j /\ r[i] = y /\ r[j] = z
      BY <2>1 DEF Ahead
    <3>2. up(i) <= up(j) /\ q[up(i)] = y /\ q[up(j)] = z
      BY <3>1, <1>5, <1>7
    <3>3. z \in ToSet(q) \ {x}
      BY <2>1, <1>9 DEF Ahead
    <3> QED BY <3>2, <3>3, <1>5 DEF Ahead
  <2>2. ASSUME NEW z \in Ahead(q, y) \ {x}
        PROVE  z \in Ahead(r, y)
    <3>1. PICK k, l \in DOMAIN q : k <= l /\ q[k] = y /\ q[l] = z
      BY <2>2 DEF Ahead
    <3>2. k # p /\ l # p
      BY <3>1, <1>1, <1>10, <2>2
    <3>3. PICK i, j \in DOMAIN r : up(i) = k /\ up(j) = l
      BY <3>2, <1>6
    <3>4. i <= j /\ r[i] = y /\ r[j] = z
      BY <3>1, <3>3, <1>5, <1>7
    <3> QED BY <3>4 DEF Ahead, ToSet
  <2> QED BY <2>1, <2>2
<1>11. x \in S /\ x # NULL /\ ToSet(q) \subseteq S
  BY AheadBounds
<1>12. CASE it = x
  <2>1. SkipErased(q, it, x) = Successor(q, x)
    BY <1>12 DEF SkipErased
  <2>2. /\ Successor(q, x) \in ToSet(q) \cup {NULL}
        /\ Successor(q, x) # x
        /\ Ahead(q, Successor(q, x)) = Ahead(q, x) \ {x}
    BY AheadOfSuccessor
  <2>3. CASE Successor(q, x) = NULL
    <3>1. Ahead(r, NULL) = {} /\ Ahead(q, NULL) = {}
      BY <1>2, AheadBounds
    <3> QED BY <1>2, <1>8, <1>9, <1>12, <2>1, <2>2, <2>3, <3>1 DEF r
  <2>4. CASE Successor(q, x) # NULL
    <3>1. Ahead(r, Successor(q, x)) = Ahead(q, x) \ {x}
      BY <1>10, <2>2, <2>4
    <3> QED BY <1>2, <1>8, <1>9, <1>12, <2>1, <2>2, <2>4, <3>1 DEF r
  <2> QED BY <2>3, <2>4
<1>13. CASE it # x
  <2>1. SkipErased(q, it, x) = it
    BY <1>13 DEF SkipErased
  <2>2. CASE it = NULL
    <3>1. Ahead(r, NULL) = {} /\ Ahead(q, NULL) = {}
      BY <1>2, AheadBounds
    <3> QED BY <1>2, <1>8, <1>9, <2>1, <2>2, <3>1 DEF r
  <2>3. CASE it # NULL
    <3>1. Ahead(r, it) = Ahead(q, it) \ {x}
      BY <1>10, <1>13, <2>3
    <3> QED BY <1>2, <1>8, <1>9, <1>13, <2>1, <2>3, <3>1 DEF r
  <2> QED BY <2>2, <2>3
<1> QED BY <1>12, <1>13

\* A sequence is its first element and the rest.
LEMMA HeadAndTail ==
    ASSUME NEW S, NEW q \in Seq(S), q # <<>>
    PROVE  /\ Head(q) \in S /\ Tail(q) \in Seq(S)
           /\ ToSet(q) = {Head(q)} \cup ToSet(Tail(q))
<1> DEFINE r == Tail(q)
<1>1. /\ Len(q) \in Nat /\ Len(q) >= 1 /\ Head(q) = q[1] /\ r \in Seq(S)
      /\ Len(r) = Len(q) - 1 /\ \A i \in 1 .. Len(r) : r[i] = q[i + 1]
  OBVIOUS
<1>2. DOMAIN q = 1 .. Len(q) /\ DOMAIN r = 1 .. Len(r)
  BY <1>1
<1> HIDE DEF r
<1>3. ASSUME NEW x \in ToSet(q), x # Head(q) PROVE x \in ToSet(r)
  <2>1. PICK i \in 1 .. Len(q) : q[i] = x
    BY <1>2 DEF ToSet
  <2>2. i - 1 \in 1 .. Len(r) /\ (i - 1) + 1 = i
    BY <1>1, <1>3, <2>1
  <2>3. r[i - 1] = x
    BY <1>1, <2>1, <2>2
  <2> QED BY <1>2, <2>2, <2>3 DEF ToSet
<1>4. ASSUME NEW x \in ToSet(r) PROVE x \in ToSet(q)
  <2>1. PICK i \in 1 .. Len(r) : r[i] = x
    BY <1>2 DEF ToSet
  <2>2. i + 1 \in 1 .. Len(q) /\ q[i + 1] = x
    BY <1>1, <2>1
  <2> QED BY <1>2, <2>2 DEF ToSet
<1>5. Head(q) \in ToSet(q) /\ Head(q) \in S
  BY <1>1, <1>2 DEF ToSet
<1> QED BY <1>1, <1>3, <1>4, <1>5 DEF r

\* Removing one occurrence of x leaves everyone else where he was.
LEMMA RemoveOne ==
    ASSUME NEW S, NEW q \in Seq(S), NEW p \in DOMAIN q
    PROVE  /\ ToSet(RemoveAt(q, p)) \subseteq ToSet(q)
           /\ ToSet(q) \ {q[p]} \subseteq ToSet(RemoveAt(q, p))
<1> DEFINE r == RemoveAt(q, p)
<1>1. /\ r \in Seq(S) /\ Len(r) = Len(q) - 1
      /\ \A i \in 1 .. (Len(q) - 1) : r[i] = IF i < p THEN q[i] ELSE q[i + 1]
  BY RemovePosition
<1>2. /\ DOMAIN q = 1 .. Len(q) /\ DOMAIN r = 1 .. Len(r)
      /\ Len(q) \in Nat /\ p \in 1 .. Len(q)
  BY <1>1
<1> HIDE DEF r
<1>3. ASSUME NEW x \in ToSet(r) PROVE x \in ToSet(q)
  <2>1. PICK i \in 1 .. Len(r) : r[i] = x
    BY <1>2 DEF ToSet
  <2>2. i \in 1 .. Len(q) /\ i + 1 \in 1 .. Len(q)
    BY <1>1, <1>2, <2>1
  <2> QED BY <1>1, <1>2, <2>1, <2>2 DEF ToSet
<1>4. ASSUME NEW x \in ToSet(q), x # q[p] PROVE x \in ToSet(r)
  <2>1. PICK i \in 1 .. Len(q) : q[i] = x
    BY <1>2 DEF ToSet
  <2>2. CASE i < p
    <3>1. i \in 1 .. Len(r) /\ r[i] = x
      BY <1>1, <1>2, <2>1, <2>2
    <3> QED BY <1>2, <3>1 DEF ToSet
  <2>3. CASE ~(i < p)
    <3>1. /\ i - 1 \in 1 .. Len(r) /\ i - 1 \in 1 .. (Len(q) - 1)
          /\ ~(i - 1 < p) /\ (i - 1) + 1 = i
      BY <1>1, <1>2, <1>4, <2>1, <2>3
    <3>2. r[i - 1] = x
      BY <1>1, <2>1, <3>1
    <3> QED BY <1>2, <3>1, <3>2 DEF ToSet
  <2> QED BY <2>2, <2>3
<1> QED BY <1>3, <1>4 DEF r

\* A non-empty set of natural numbers has a least element.
LEMMA LeastNatural ==
    ASSUME NEW T \in SUBSET Nat, T # {}
    PROVE  \E x \in T : \A y \in T : x <= y
<1> DEFINE R == OpToRel(<, Nat)
<1>1. IsWellFoundedOn(R, Nat)
  BY NatLessThanWellFounded
<1>2. \A x, y \in Nat : y < x => <<y, x>> \in R
  BY DEF OpToRel
<1> HIDE DEF R
<1>3. PICK x \in T : \A y \in T : ~ (<<y, x>> \in R)
  BY <1>1, WFMin
<1>4. \A y \in T : ~ (y < x)
  BY <1>2, <1>3
<1>5. \A y \in T : x <= y
  BY <1>4
<1> QED BY <1>5

\* The position of an element that is there, in a sequence with duplicates.
LEMMA PositionFound ==
    ASSUME NEW S, NEW q \in Seq(S), NEW x \in ToSet(q)
    PROVE  Position(q, x) \in DOMAIN q /\ q[Position(q, x)] = x
<1> DEFINE I == {k \in 1 .. Len(q) : q[k] = x}
<1>1. I # {} /\ I \in SUBSET Nat
  BY DEF ToSet
<1>2. Position(q, x) = Min(I)
  BY <1>1 DEF Position, SelectInSeq
<1>3. \A k \in I : k \in DOMAIN q /\ q[k] = x
  OBVIOUS
<1> HIDE DEF I
<1>4. Min(I) \in I
  BY <1>1, LeastNatural DEF Min
<1> QED BY <1>2, <1>3, <1>4

\* Erasing from any sequence leaves a sequence of its elements, and everyone
\* else where he was.
LEMMA EraseAny ==
    ASSUME NEW S, NEW q \in Seq(S), NEW x
    PROVE  /\ Erase(q, x) \in Seq(S)
           /\ ToSet(Erase(q, x)) \subseteq ToSet(q)
           /\ ToSet(q) \ {x} \subseteq ToSet(Erase(q, x))
<1>1. CASE x \notin ToSet(q)
  <2>1. ~\E i \in 1 .. Len(q) : q[i] = x
    BY <1>1 DEF ToSet
  <2>2. Erase(q, x) = q
    BY <2>1 DEF Erase, RemoveFirst
  <2> QED BY <2>2
<1>2. CASE x \in ToSet(q)
  <2> DEFINE p == Position(q, x)
  <2>1. p \in DOMAIN q /\ q[p] = x
    BY <1>2, PositionFound
  <2>2. Erase(q, x) = RemoveAt(q, p)
    BY <2>1 DEF Erase, RemoveFirst, Position
  <2> HIDE DEF p
  <2> QED BY <2>1, <2>2, RemovePosition, RemoveOne
<1> QED BY <1>1, <1>2

\* Induction up to a bound, over a set of numbers.
LEMMA CountUp ==
    ASSUME NEW n \in Nat, NEW T, 0 \in T,
           \A k \in 0 .. (n - 1) : k \in T => k + 1 \in T
    PROVE  0 .. n \subseteq T
<1> DEFINE Missing == {k \in 0 .. n : k \notin T}
<1>1. SUFFICES ASSUME Missing # {} PROVE FALSE
  OBVIOUS
<1>2. Missing \in SUBSET Nat
  OBVIOUS
<1>3. PICK k \in Missing : \A j \in Missing : k <= j
  BY <1>1, <1>2, LeastNatural
<1>4. k \in 1 .. n /\ k \notin T
  BY <1>3
<1>5. k - 1 \in T
  BY <1>3, <1>4
<1>6. k - 1 \in 0 .. (n - 1) /\ (k - 1) + 1 = k
  BY <1>4
<1> QED BY <1>4, <1>5, <1>6

\* A non-empty set of positions has a greatest element.
LEMMA GreatestPosition ==
    ASSUME NEW n \in Nat, NEW T \in SUBSET (1 .. n), T # {}
    PROVE  \E x \in T : \A y \in T : x >= y
<1> DEFINE D == {n - y : y \in T}
<1>1. D \in SUBSET Nat /\ D # {}
  <2>1. \A y \in T : n - y \in Nat
    OBVIOUS
  <2>2. PICK y \in T : TRUE
    OBVIOUS
  <2>3. n - y \in D
    BY <2>2
  <2> QED BY <2>1, <2>3
<1>2. PICK d \in D : \A e \in D : d <= e
  BY <1>1, LeastNatural
<1>3. PICK x \in T : d = n - x
  BY <1>2
<1>4. \A y \in T : n - x <= n - y
  BY <1>2, <1>3
<1> QED BY <1>4

\* The last node x of a sequence with duplicates.
LastPosition(q, x) == SelectLastInSeq(q, LAMBDA y : y = x)

\* Removing the last x shortens the sequence and leaves everyone else there.
LEMMA RemoveLast ==
    ASSUME NEW S, NEW q \in Seq(S), NEW x \in ToSet(q),
           NEW r, r = RemoveAt(q, LastPosition(q, x))
    PROVE  /\ r \in Seq(S) /\ Len(r) = Len(q) - 1
           /\ ToSet(r) \subseteq ToSet(q)
           /\ ToSet(q) \ {x} \subseteq ToSet(r)
<1> DEFINE I == {k \in 1 .. Len(q) : q[k] = x}
           p == LastPosition(q, x)
<1>1. I # {} /\ I \in SUBSET (1 .. Len(q)) /\ Len(q) \in Nat
  BY DEF ToSet
<1>2. p = Max(I)
  BY <1>1 DEF LastPosition, SelectLastInSeq
<1>3. \A k \in I : k \in DOMAIN q /\ q[k] = x
  OBVIOUS
<1> HIDE DEF I, p
<1>4. Max(I) \in I
  BY <1>1, GreatestPosition DEF Max
<1>5. p \in DOMAIN q /\ q[p] = x /\ r = RemoveAt(q, p)
  BY <1>2, <1>3, <1>4 DEF p
<1> QED BY <1>5, RemovePosition, RemoveOne
=============================================================================
