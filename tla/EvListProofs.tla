---------------------------- MODULE EvListProofs ----------------------------
(***************************************************************************)
(* The lists of utils/list.c spell their sequences, for any set of nodes   *)
(* and any number of lists.                                                *)
(*                                                                         *)
(* LinksSpellOrder is inductive once no node occurs twice, in one list or  *)
(* in two (Distinct).  Each insertion links a node in front of the k-th    *)
(* one of a list, each erasure unlinks the k-th one: LinkKeeps and         *)
(* UnlinkKeeps show for every k what the code distinguishes cases for.     *)
(***************************************************************************)
EXTENDS EvList, SequenceTheorems, TLAPS

Pointer == Node \cup {NULL}

Links == [head : [List -> Pointer], tail : [List -> Pointer], size : [List -> Nat],
          after : [Node -> Pointer], before : [Node -> Pointer]]

Typed == links \in Links /\ order \in [List -> Seq(Node)]

Distinct ==
    \A l, m \in List : \A i \in DOMAIN order[l], j \in DOMAIN order[m] :
        order[l][i] = order[m][j] => l = m /\ i = j

IInv == Typed /\ Distinct /\ LinksSpellOrder
-----------------------------------------------------------------------------
(***************************************************************************)
(* Sequences with one element more or less.                                *)
(***************************************************************************)

\* r is q with n put in front of its k-th element.
Inserted(q, r, k, n) ==
    /\ r \in Seq(Node) /\ Len(r) = Len(q) + 1
    /\ \A i \in 1 .. (Len(q) + 1) :
          r[i] = IF i < k THEN q[i] ELSE IF i = k THEN n ELSE q[i - 1]

\* r is q without its k-th element.
Removed(q, r, k) ==
    /\ r \in Seq(Node) /\ Len(r) = Len(q) - 1
    /\ \A i \in 1 .. (Len(q) - 1) : r[i] = IF i < k THEN q[i] ELSE q[i + 1]

\* A part of a sequence of nodes.
LEMMA PartOf ==
    ASSUME NEW q \in Seq(Node), NEW i \in 1 .. (Len(q) + 1), NEW j \in (i - 1) .. Len(q)
    PROVE  /\ SubSeq(q, i, j) \in Seq(Node)
           /\ Len(SubSeq(q, i, j)) = j - i + 1
           /\ \A k \in 1 .. (j - i + 1) : SubSeq(q, i, j)[k] = q[i + k - 1]
<1>1. Len(q) \in Nat /\ i \in Int /\ j \in Int
  OBVIOUS
<1>2. \A k \in i .. j : q[k] \in Node
  BY <1>1
<1> DEFINE p == SubSeq(q, i, j)
<1> HIDE DEF p
<1>3. /\ p \in Seq(Node)
      /\ Len(p) = IF i <= j THEN j - i + 1 ELSE 0
      /\ \A k \in 1 .. j - i + 1 : p[k] = q[i + k - 1]
  BY <1>1, <1>2, SubSeqProperties DEF p
<1> QED BY <1>1, <1>3 DEF p

\* PutAt puts its node where it says.
LEMMA PutAtInserts ==
    ASSUME NEW q \in Seq(Node), NEW k \in 1 .. (Len(q) + 1), NEW n \in Node
    PROVE  Inserted(q, PutAt(q, k, n), k, n)
<1> DEFINE a == SubSeq(q, 1, k - 1)
           b == SubSeq(q, k, Len(q))
           c == a \o <<n>>
<1>1. Len(q) \in Nat /\ k \in Nat \ {0}
  OBVIOUS
<1>2. a \in Seq(Node) /\ Len(a) = k - 1 /\ \A i \in 1 .. (k - 1) : a[i] = q[i]
  BY <1>1, PartOf
<1>3. b \in Seq(Node) /\ Len(b) = Len(q) - k + 1 /\ \A i \in 1 .. (Len(q) - k + 1) : b[i] = q[k + i - 1]
  BY <1>1, PartOf
<1> HIDE DEF a, b
<1>4. c \in Seq(Node) /\ Len(c) = k /\ \A i \in 1 .. k : c[i] = IF i < k THEN a[i] ELSE n
  BY <1>1, <1>2
<1> HIDE DEF c
<1> DEFINE d == c \o b
<1>5. /\ d \in Seq(Node)
      /\ Len(d) = Len(q) + 1
      /\ \A i \in 1 .. (Len(q) + 1) : d[i] = IF i <= k THEN c[i] ELSE b[i - k]
  BY <1>1, <1>3, <1>4, ConcatProperties
<1>6. PutAt(q, k, n) = d
  BY DEF PutAt, a, b, c
<1> HIDE DEF d
<1>7. ASSUME NEW i \in 1 .. (Len(q) + 1)
      PROVE  d[i] = IF i < k THEN q[i] ELSE IF i = k THEN n ELSE q[i - 1]
  <2>1. CASE i <= k
    <3>1. i \in 1 .. k /\ d[i] = c[i]
      BY <1>1, <1>5, <2>1
    <3>2. CASE i < k
      <4>1. i \in 1 .. (k - 1)
        BY <1>1, <3>2
      <4>2. a[i] = q[i] /\ c[i] = a[i]
        BY <1>1, <1>2, <1>4, <3>1, <3>2, <4>1
      <4> QED BY <3>1, <3>2, <4>2
    <3>3. CASE i = k
      BY <1>4, <3>1, <3>3
    <3> QED BY <1>1, <2>1, <3>2, <3>3
  <2>2. CASE i > k
    <3>1. i - k \in 1 .. (Len(q) - k + 1) /\ k + (i - k) - 1 = i - 1
      BY <1>1, <2>2
    <3>2. d[i] = b[i - k]
      BY <1>1, <1>5, <2>2
    <3>3. b[i - k] = q[i - 1]
      BY <1>3, <3>1
    <3>4. ~(i < k) /\ i # k
      BY <1>1, <2>2
    <3> QED BY <1>1, <3>2, <3>3, <3>4
  <2> QED BY <1>1, <2>1, <2>2
<1> QED BY <1>5, <1>6, <1>7 DEF Inserted

\* Without leaves out the element it says.
LEMMA WithoutRemoves ==
    ASSUME NEW q \in Seq(Node), NEW k \in DOMAIN q
    PROVE  Removed(q, Without(q, k), k)
<1> DEFINE a == SubSeq(q, 1, k - 1)
           b == SubSeq(q, k + 1, Len(q))
<1>1. Len(q) \in Nat /\ k \in 1 .. Len(q)
  OBVIOUS
<1>2. a \in Seq(Node) /\ Len(a) = k - 1 /\ \A i \in 1 .. (k - 1) : a[i] = q[i]
  BY <1>1, PartOf
<1>3. b \in Seq(Node) /\ Len(b) = Len(q) - k /\ \A i \in 1 .. (Len(q) - k) : b[i] = q[k + i]
  BY <1>1, PartOf
<1> HIDE DEF a, b
<1> DEFINE c == a \o b
<1>4. /\ c \in Seq(Node)
      /\ Len(c) = Len(a) + Len(b)
      /\ \A i \in 1 .. (Len(a) + Len(b)) : c[i] = IF i <= Len(a) THEN a[i] ELSE b[i - Len(a)]
  BY <1>2, <1>3, ConcatProperties
<1>5. Without(q, k) = c
  BY DEF Without, a, b
<1> HIDE DEF c
<1>6. Len(a) + Len(b) = Len(q) - 1
  BY <1>1, <1>2, <1>3
<1>7. ASSUME NEW i \in 1 .. (Len(q) - 1)
      PROVE  c[i] = IF i < k THEN q[i] ELSE q[i + 1]
  <2>1. c[i] = IF i <= k - 1 THEN a[i] ELSE b[i - (k - 1)]
    BY <1>2, <1>4, <1>6
  <2>2. CASE i < k
    <3>1. i \in 1 .. (k - 1) /\ i <= k - 1
      BY <1>1, <2>2
    <3> QED BY <1>2, <2>1, <2>2, <3>1
  <2>3. CASE ~(i < k)
    <3>1. i - (k - 1) \in 1 .. (Len(q) - k) /\ ~(i <= k - 1) /\ k + (i - (k - 1)) = i + 1
      BY <1>1, <2>3
    <3> QED BY <1>3, <2>1, <2>3, <3>1
  <2> QED BY <2>2, <2>3
<1>8. Len(c) = Len(q) - 1
  BY <1>4, <1>6
<1>9. Removed(q, c, k)
  BY <1>4, <1>7, <1>8 DEF Removed
<1> QED BY <1>5, <1>9
-----------------------------------------------------------------------------
(***************************************************************************)
(* The two changes of the links that all calls but migrate come to.        *)
(***************************************************************************)

\* n is linked in front of the k-th node of list l.
LinkedAt(l, k, n) ==
    LET q == order[l] IN
    /\ links' \in Links
    /\ links'.head = [links.head EXCEPT ![l] = IF k = 1 THEN n ELSE @]
    /\ links'.tail = [links.tail EXCEPT ![l] = IF k = Len(q) + 1 THEN n ELSE @]
    /\ links'.size = [links.size EXCEPT ![l] = @ + 1]
    /\ \A x \in Node :
          /\ links'.after[x] = IF x = n THEN IF k = Len(q) + 1 THEN NULL ELSE q[k]
                               ELSE IF k > 1 /\ x = q[k - 1] THEN n ELSE links.after[x]
          /\ links'.before[x] = IF x = n THEN IF k = 1 THEN NULL ELSE q[k - 1]
                                ELSE IF k <= Len(q) /\ x = q[k] THEN n ELSE links.before[x]

\* The k-th node of list l is unlinked.
UnlinkedAt(l, k) ==
    LET q == order[l] IN
    /\ links' \in Links
    /\ links'.head = [links.head EXCEPT ![l] = IF k > 1 THEN @
                                               ELSE IF Len(q) = 1 THEN NULL ELSE q[2]]
    /\ links'.tail = [links.tail EXCEPT ![l] = IF k < Len(q) THEN @
                                               ELSE IF k = 1 THEN NULL ELSE q[k - 1]]
    /\ links'.size = [links.size EXCEPT ![l] = @ - 1]
    /\ \A x \in Node :
          /\ links'.after[x] = IF x = q[k] THEN NULL
                               ELSE IF k > 1 /\ x = q[k - 1]
                               THEN IF k = Len(q) THEN NULL ELSE q[k + 1]
                               ELSE links.after[x]
          /\ links'.before[x] = IF x = q[k] THEN NULL
                                ELSE IF k < Len(q) /\ x = q[k + 1]
                                THEN IF k = 1 THEN NULL ELSE q[k - 1]
                                ELSE links.before[x]

\* What IInv says of one list, in the terms the steps below use.
LEMMA ListFacts ==
    ASSUME IInv, NEW l \in List
    PROVE  /\ order[l] \in Seq(Node) /\ Len(order[l]) \in Nat
           /\ DOMAIN order[l] = 1 .. Len(order[l])
           /\ \A i \in DOMAIN order[l] : order[l][i] \in Node
           /\ \A i, j \in DOMAIN order[l] : order[l][i] = order[l][j] => i = j
           /\ Spells(links, l, order[l])
  BY DEF IInv, Typed, Distinct, LinksSpellOrder

\* A list whose fields and whose nodes keep their links spells what it did.
LEMMA SameSpelling ==
    ASSUME NEW l \in List, NEW q, Spells(links, l, q),
           links'.head[l] = links.head[l], links'.tail[l] = links.tail[l],
           links'.size[l] = links.size[l],
           \A i \in DOMAIN q : /\ links'.after[q[i]] = links.after[q[i]]
                               /\ links'.before[q[i]] = links.before[q[i]]
    PROVE  Spells(links', l, q)
  BY DEF Spells

\* A list may get another sequence if its links follow it, the nodes in no list
\* before and after keep theirs, and those that are dropped have none.
LEMMA OneListChanges ==
    ASSUME IInv, NEW l \in List, NEW r \in Seq(Node), links' \in Links,
           order' = [order EXCEPT ![l] = r],
           \A i, j \in 1 .. Len(r) : r[i] = r[j] => i = j,
           \A i \in 1 .. Len(r) : Free(r[i]) \/ In(l, r[i]),
           Spells(links', l, r),
           \A m \in List \ {l} : /\ links'.head[m] = links.head[m]
                                /\ links'.tail[m] = links.tail[m]
                                /\ links'.size[m] = links.size[m],
           \A x \in Node : (\A i \in 1 .. Len(r) : r[i] # x) =>
               \/ ~In(l, x) /\ links'.after[x] = links.after[x] /\ links'.before[x] = links.before[x]
               \/ In(l, x) /\ links'.after[x] = NULL /\ links'.before[x] = NULL
    PROVE  IInv'
<1>1. /\ order' \in [List -> Seq(Node)]
      /\ order'[l] = r /\ DOMAIN r = 1 .. Len(r)
      /\ \A m \in List \ {l} : order'[m] = order[m]
  BY DEF IInv, Typed
<1>2. Typed'
  BY <1>1 DEF Typed
<1>3. \A m \in List \ {l} : \A i \in DOMAIN order[m] :
          /\ order[m][i] \in Node /\ ~In(l, order[m][i])
          /\ \A j \in 1 .. Len(r) : r[j] # order[m][i]
  <2> SUFFICES ASSUME NEW m \in List \ {l}, NEW i \in DOMAIN order[m]
               PROVE  /\ order[m][i] \in Node /\ ~In(l, order[m][i])
                      /\ \A j \in 1 .. Len(r) : r[j] # order[m][i]
    OBVIOUS
  <2>1. order[m][i] \in Node
    BY ListFacts
  <2>2. ~In(l, order[m][i])
    BY DEF In, IInv, Distinct
  <2>3. ~Free(order[m][i])
    BY DEF In, Free
  <2> QED BY <2>1, <2>2, <2>3
<1>4. Distinct'
  <2> SUFFICES ASSUME NEW m1 \in List, NEW m2 \in List,
                      NEW i \in DOMAIN order'[m1], NEW j \in DOMAIN order'[m2],
                      order'[m1][i] = order'[m2][j]
               PROVE  m1 = m2 /\ i = j
    BY DEF Distinct
  <2>1. CASE m1 = l /\ m2 = l
    BY <1>1, <2>1
  <2>2. CASE m1 = l /\ m2 # l
    BY <1>1, <1>3, <2>2
  <2>3. CASE m1 # l /\ m2 = l
    BY <1>1, <1>3, <2>3
  <2>4. CASE m1 # l /\ m2 # l
    BY <1>1, <2>4 DEF IInv, Distinct
  <2> QED BY <2>1, <2>2, <2>3, <2>4
<1>5. ASSUME NEW m \in List \ {l} PROVE Spells(links', m, order[m])
  <2>1. Spells(links, m, order[m])
    BY ListFacts
  <2>2. \A i \in DOMAIN order[m] : /\ links'.after[order[m][i]] = links.after[order[m][i]]
                                   /\ links'.before[order[m][i]] = links.before[order[m][i]]
    BY <1>3
  <2>3. /\ links'.head[m] = links.head[m] /\ links'.tail[m] = links.tail[m]
        /\ links'.size[m] = links.size[m]
    OBVIOUS
  <2> QED BY <2>1, <2>2, <2>3, SameSpelling
<1>6. ASSUME NEW x \in Node, Free(x)'
      PROVE  links'.after[x] = NULL /\ links'.before[x] = NULL
  <2>1. \A i \in 1 .. Len(r) : r[i] # x
    BY <1>1, <1>6 DEF Free, In
  <2>2. CASE In(l, x)
    BY <2>1, <2>2
  <2>3. CASE ~In(l, x)
    <3>1. Free(x)
      BY <1>1, <1>6, <2>3 DEF Free, In
    <3> QED BY <2>1, <2>3, <3>1 DEF IInv, LinksSpellOrder
  <2> QED BY <2>2, <2>3
<1>7. LinksSpellOrder'
  BY <1>1, <1>5, <1>6 DEF LinksSpellOrder
<1> QED BY <1>2, <1>4, <1>7 DEF IInv

\* Linking a node that is in no list keeps the invariant.
LEMMA LinkKeeps ==
    ASSUME IInv, NEW l \in List, NEW n \in Node, Free(n),
           NEW k \in 1 .. (Len(order[l]) + 1),
           NEW r, Inserted(order[l], r, k, n),
           order' = [order EXCEPT ![l] = r], LinkedAt(l, k, n)
    PROVE  IInv'
<1> DEFINE q == order[l]
<1>1. /\ q \in Seq(Node) /\ Len(q) \in Nat /\ DOMAIN q = 1 .. Len(q)
      /\ \A i \in 1 .. Len(q) : q[i] \in Node /\ q[i] # n
      /\ \A i, j \in 1 .. Len(q) : q[i] = q[j] => i = j
  BY ListFacts DEF Free, In
<1>2. /\ r \in Seq(Node) /\ Len(r) = Len(q) + 1 /\ DOMAIN r = 1 .. (Len(q) + 1)
      /\ \A i \in 1 .. (Len(q) + 1) :
            r[i] = IF i < k THEN q[i] ELSE IF i = k THEN n ELSE q[i - 1]
  BY <1>1 DEF Inserted
<1> DEFINE old(i) == IF i < k THEN i ELSE i - 1
<1>3. /\ r[k] = n /\ k \in 1 .. Len(r)
      /\ \A i \in 1 .. Len(r) : i # k => old(i) \in 1 .. Len(q) /\ r[i] = q[old(i)]
      /\ \A i, j \in 1 .. Len(r) : i # k /\ j # k /\ old(i) = old(j) => i = j
  <2>1. Len(q) \in Nat /\ k \in 1 .. (Len(q) + 1)
    BY <1>1
  <2> QED BY <1>2, <2>1
<1> HIDE DEF old
<1>4. \A i \in 1 .. Len(r) : Free(r[i]) \/ In(l, r[i])
  BY <1>1, <1>3 DEF In
<1>5. \A i, j \in 1 .. Len(r) : r[i] = r[j] => i = j
  <2> SUFFICES ASSUME NEW i \in 1 .. Len(r), NEW j \in 1 .. Len(r), r[i] = r[j]
               PROVE  i = j
    OBVIOUS
  <2>1. CASE i = k \/ j = k
    BY <1>1, <1>3, <2>1
  <2>2. CASE i # k /\ j # k
    BY <1>1, <1>3, <2>2
  <2> QED BY <2>1, <2>2
<1>6. Spells(links', l, r)
  <2>1. Spells(links, l, q) /\ links \in Links
    BY ListFacts DEF IInv, Typed
  <2>2. links'.size[l] = Len(r)
    BY <1>1, <1>2, <2>1 DEF LinkedAt, Links, Spells
  <2>3. links'.head[l] = r[1]
    BY <1>1, <1>2, <2>1 DEF LinkedAt, Links, Spells
  <2>4. links'.tail[l] = r[Len(r)]
    BY <1>1, <1>2, <2>1 DEF LinkedAt, Links, Spells
  <2>5. \A i \in 1 .. Len(r) : links'.after[r[i]] = IF i = Len(r) THEN NULL ELSE r[i + 1]
    <3> TAKE i \in 1 .. Len(r)
    <3>1. \A j \in 1 .. Len(q) : links.after[q[j]] = IF j = Len(q) THEN NULL ELSE q[j + 1]
      BY <1>1, <2>1 DEF Spells
    <3>2. CASE i < k
      <4>1. i \in 1 .. Len(q) /\ r[i] = q[i] /\ q[i] \in Node /\ q[i] # n
        BY <1>1, <1>2, <3>2
      <4>2. links'.after[q[i]] = IF i = k - 1 THEN n ELSE links.after[q[i]]
        BY <1>1, <3>2, <4>1 DEF LinkedAt
      <4> QED BY <1>1, <1>2, <3>1, <3>2, <4>1, <4>2
    <3>3. CASE i = k
      <4>1. links'.after[n] = IF k = Len(q) + 1 THEN NULL ELSE q[k]
        BY DEF LinkedAt
      <4>2. k # Len(r) => r[k + 1] = q[k]
        BY <1>1, <1>2
      <4> QED BY <1>2, <1>3, <3>3, <4>1, <4>2
    <3>4. CASE i > k
      <4>1. /\ i - 1 \in 1 .. Len(q) /\ r[i] = q[i - 1]
            /\ q[i - 1] \in Node /\ q[i - 1] # n
        BY <1>1, <1>2, <3>4
      <4>2. k > 1 => q[i - 1] # q[k - 1]
        BY <1>1, <3>4, <4>1
      <4>3. links'.after[q[i - 1]] = links.after[q[i - 1]]
        BY <4>1, <4>2 DEF LinkedAt
      <4>4. links'.after[r[i]] = IF i - 1 = Len(q) THEN NULL ELSE q[i]
        <5>1. (i - 1) + 1 = i
          BY <1>1, <1>2
        <5>2. links'.after[r[i]] = links.after[q[i - 1]]
          BY <4>1, <4>3
        <5> QED BY <3>1, <4>1, <5>1, <5>2
      <4>5. i # Len(r) => r[i + 1] = q[i]
        BY <1>1, <1>2, <3>4
      <4> QED BY <1>1, <1>2, <4>4, <4>5
    <3> QED BY <1>1, <3>2, <3>3, <3>4
  <2>6. \A i \in 1 .. Len(r) : links'.before[r[i]] = IF i = 1 THEN NULL ELSE r[i - 1]
    <3> TAKE i \in 1 .. Len(r)
    <3>1. \A j \in 1 .. Len(q) : links.before[q[j]] = IF j = 1 THEN NULL ELSE q[j - 1]
      BY <1>1, <2>1 DEF Spells
    <3>2. CASE i < k
      <4>1. i \in 1 .. Len(q) /\ r[i] = q[i] /\ q[i] \in Node /\ q[i] # n
        BY <1>1, <1>2, <3>2
      <4>2. k <= Len(q) => q[i] # q[k]
        BY <1>1, <3>2, <4>1
      <4>3. links'.before[q[i]] = links.before[q[i]]
        BY <4>1, <4>2 DEF LinkedAt
      <4> QED BY <1>1, <1>2, <3>1, <3>2, <4>1, <4>3
    <3>3. CASE i = k
      <4>1. links'.before[n] = IF k = 1 THEN NULL ELSE q[k - 1]
        BY DEF LinkedAt
      <4>2. k # 1 => r[k - 1] = q[k - 1]
        <5>1. k # 1 => k - 1 \in 1 .. (Len(q) + 1) /\ k - 1 < k
          BY <1>1
        <5> QED BY <1>2, <5>1
      <4> QED BY <1>3, <3>3, <4>1, <4>2
    <3>4. CASE i > k
      <4>1. /\ i - 1 \in 1 .. Len(q) /\ r[i] = q[i - 1]
            /\ q[i - 1] \in Node /\ q[i - 1] # n
        BY <1>1, <1>2, <3>4
      <4>2. links'.before[q[i - 1]] = IF i - 1 = k THEN n ELSE links.before[q[i - 1]]
        BY <1>1, <3>4, <4>1 DEF LinkedAt
      <4>3. i # 1 /\ i - 1 \in 1 .. (Len(q) + 1) /\ ~(i - 1 < k)
        BY <1>1, <1>2, <3>4
      <4>4. CASE i - 1 = k
        BY <1>3, <4>1, <4>2, <4>3, <4>4
      <4>5. CASE i - 1 # k
        <5>1. i - 1 # 1
          BY <1>1, <4>3, <4>5
        <5>2. links'.before[r[i]] = q[(i - 1) - 1]
          BY <3>1, <4>1, <4>2, <4>5, <5>1
        <5>3. r[i - 1] = q[(i - 1) - 1]
          BY <1>2, <4>3, <4>5
        <5> QED BY <4>3, <5>2, <5>3
      <4> QED BY <4>4, <4>5
    <3> QED BY <1>1, <3>2, <3>3, <3>4
  <2> QED BY <1>1, <1>2, <2>2, <2>3, <2>4, <2>5, <2>6 DEF Spells
<1>7. \A x \in Node : (\A i \in 1 .. Len(r) : r[i] # x) =>
          ~In(l, x) /\ links'.after[x] = links.after[x] /\ links'.before[x] = links.before[x]
  <2> SUFFICES ASSUME NEW x \in Node, \A i \in 1 .. Len(r) : r[i] # x
               PROVE  /\ ~In(l, x)
                      /\ links'.after[x] = links.after[x] /\ links'.before[x] = links.before[x]
    OBVIOUS
  <2>1. x # n
    BY <1>3
  <2>2. \A i \in 1 .. Len(q) : x # q[i]
    <3> TAKE i \in 1 .. Len(q)
    <3>1. (IF i < k THEN i ELSE i + 1) \in 1 .. Len(r) /\ r[IF i < k THEN i ELSE i + 1] = q[i]
      BY <1>1, <1>2
    <3> QED BY <3>1
  <2>3. k > 1 => k - 1 \in 1 .. Len(q)
    BY <1>1
  <2>4. k <= Len(q) => k \in 1 .. Len(q)
    BY <1>1
  <2> QED BY <1>1, <2>1, <2>2, <2>3, <2>4 DEF LinkedAt, In
<1>8. links \in Links
  BY DEF IInv, Typed
<1>9. \A m \in List \ {l} : /\ links'.head[m] = links.head[m]
                            /\ links'.tail[m] = links.tail[m]
                            /\ links'.size[m] = links.size[m]
  BY <1>8 DEF LinkedAt, Links
<1>10. links' \in Links
  BY DEF LinkedAt
<1>11. \A x \in Node : (\A i \in 1 .. Len(r) : r[i] # x) =>
           \/ ~In(l, x) /\ links'.after[x] = links.after[x] /\ links'.before[x] = links.before[x]
           \/ In(l, x) /\ links'.after[x] = NULL /\ links'.before[x] = NULL
  BY <1>7
<1>12. r \in Seq(Node)
  BY <1>2
<1> QED BY <1>4, <1>5, <1>6, <1>9, <1>10, <1>11, <1>12, OneListChanges

\* Unlinking a node of a list keeps the invariant.
LEMMA UnlinkKeeps ==
    ASSUME IInv, NEW l \in List, NEW k \in DOMAIN order[l],
           NEW r, Removed(order[l], r, k),
           order' = [order EXCEPT ![l] = r], UnlinkedAt(l, k)
    PROVE  IInv'
<1> DEFINE q == order[l]
<1>1. /\ q \in Seq(Node) /\ Len(q) \in Nat /\ DOMAIN q = 1 .. Len(q)
      /\ k \in 1 .. Len(q)
      /\ \A i \in 1 .. Len(q) : q[i] \in Node
      /\ \A i, j \in 1 .. Len(q) : q[i] = q[j] => i = j
  BY ListFacts
<1>2. /\ r \in Seq(Node) /\ Len(r) = Len(q) - 1 /\ DOMAIN r = 1 .. (Len(q) - 1)
      /\ \A i \in 1 .. (Len(q) - 1) : r[i] = IF i < k THEN q[i] ELSE q[i + 1]
  BY <1>1 DEF Removed
<1> DEFINE old(i) == IF i < k THEN i ELSE i + 1
<1>3. /\ \A i \in 1 .. Len(r) : old(i) \in 1 .. Len(q) /\ old(i) # k /\ r[i] = q[old(i)]
      /\ \A i, j \in 1 .. Len(r) : old(i) = old(j) => i = j
      /\ \A j \in 1 .. Len(q) : j # k => \E i \in 1 .. Len(r) : r[i] = q[j]
  <2>1. Len(q) \in Nat /\ k \in 1 .. Len(q)
    BY <1>1
  <2>2. ASSUME NEW j \in 1 .. Len(q), j # k PROVE \E i \in 1 .. Len(r) : r[i] = q[j]
    <3>1. CASE j < k
      <4>1. j \in 1 .. Len(r) /\ r[j] = q[j]
        BY <1>2, <2>1, <3>1
      <4> QED BY <4>1
    <3>2. CASE j > k
      <4>1. j - 1 \in 1 .. Len(r) /\ ~(j - 1 < k) /\ (j - 1) + 1 = j
        BY <1>2, <2>1, <3>2
      <4>2. r[j - 1] = q[j]
        BY <1>2, <4>1
      <4> QED BY <4>1, <4>2
    <3> QED BY <2>1, <2>2, <3>1, <3>2
  <2> QED BY <1>2, <2>1, <2>2
<1> HIDE DEF old
<1>4. \A i \in 1 .. Len(r) : In(l, r[i])
  BY <1>1, <1>3 DEF In
<1>5. \A i, j \in 1 .. Len(r) : r[i] = r[j] => i = j
  BY <1>1, <1>3
<1>6. Spells(links', l, r)
  <2>1. Spells(links, l, q) /\ links \in Links
    BY ListFacts DEF IInv, Typed
  <2>2. links'.size[l] = Len(r)
    BY <1>1, <1>2, <2>1 DEF UnlinkedAt, Links, Spells
  <2>3. (r = <<>> <=> Len(q) = 1) /\ (Len(q) = 1 \/ Len(q) > 1)
    <3>1. Len(<<>>) = 0 /\ (r # <<>> => Len(r) \in Nat \ {0})
      BY <1>2, EmptySeq
    <3>2. Len(q) = 1 \/ Len(q) > 1
      <4>1. Len(q) \in Nat /\ k \in Nat /\ 1 <= k /\ k <= Len(q)
        BY <1>1
      <4>2. \A m, j \in Nat : 1 <= j /\ j <= m => m = 1 \/ m > 1
        OBVIOUS
      <4> QED BY <4>1, <4>2
    <3>3. Len(r) = 0 <=> Len(q) = 1
      BY <1>1, <1>2
    <3>4. r = <<>> <=> Len(r) = 0
      BY <3>1
    <3> QED BY <3>2, <3>3, <3>4
  <2>4. links'.head[l] = IF r = <<>> THEN NULL ELSE r[1]
    <3>1. links'.head[l] = IF k > 1 THEN q[1] ELSE IF Len(q) = 1 THEN NULL ELSE q[2]
      BY <1>1, <2>1 DEF UnlinkedAt, Links, Spells
    <3>2. Len(q) # 1 => r[1] = IF k > 1 THEN q[1] ELSE q[2]
      <4>1. Len(q) # 1 => 1 \in 1 .. (Len(q) - 1)
        BY <1>1, <2>3
      <4> QED BY <1>1, <1>2, <4>1
    <3> QED BY <1>1, <2>3, <3>1, <3>2
  <2>5. links'.tail[l] = IF r = <<>> THEN NULL ELSE r[Len(r)]
    <3>1. links'.tail[l] = IF k < Len(q) THEN q[Len(q)] ELSE IF k = 1 THEN NULL ELSE q[k - 1]
      BY <1>1, <2>1 DEF UnlinkedAt, Links, Spells
    <3>2. Len(q) # 1 => r[Len(r)] = IF k < Len(q) THEN q[Len(q)] ELSE q[k - 1]
      <4>1. Len(q) # 1 => Len(r) \in 1 .. (Len(q) - 1)
        BY <1>1, <1>2, <2>3
      <4>2. CASE k < Len(q)
        <5>1. ~(Len(r) < k) /\ Len(r) + 1 = Len(q)
          BY <1>1, <1>2, <4>2
        <5> QED BY <1>2, <4>1, <4>2, <5>1
      <4>3. CASE ~(k < Len(q))
        <5>1. Len(r) < k /\ Len(r) = k - 1
          BY <1>1, <1>2, <4>3
        <5> QED BY <1>2, <4>1, <4>3, <5>1
      <4> QED BY <4>2, <4>3
    <3> QED BY <1>1, <2>3, <3>1, <3>2
  <2>6. ASSUME NEW i \in 1 .. Len(r), i < k
        PROVE  /\ links'.after[r[i]] = IF i = Len(r) THEN NULL ELSE r[i + 1]
               /\ links'.before[r[i]] = IF i = 1 THEN NULL ELSE r[i - 1]
    <3>1. /\ i \in 1 .. Len(q) /\ r[i] = q[i] /\ q[i] \in Node /\ q[i] # q[k]
          /\ k < Len(q) => q[i] # q[k + 1]
      BY <1>1, <1>2, <2>6
    <3>2. links'.after[q[i]] = IF i = k - 1 THEN IF k = Len(q) THEN NULL ELSE q[k + 1]
                               ELSE links.after[q[i]]
      BY <1>1, <2>6, <3>1 DEF UnlinkedAt
    <3>3. links'.before[q[i]] = links.before[q[i]]
      BY <3>1 DEF UnlinkedAt
    <3>4. /\ links.after[q[i]] = IF i = Len(q) THEN NULL ELSE q[i + 1]
          /\ links.before[q[i]] = IF i = 1 THEN NULL ELSE q[i - 1]
      BY <1>1, <2>1, <3>1 DEF Spells
    <3>5. i # 1 => r[i - 1] = q[i - 1]
      BY <1>1, <1>2, <2>6
    <3>6. i # Len(r) => r[i + 1] = IF i = k - 1 THEN q[k + 1] ELSE q[i + 1]
      <4>1. i # Len(r) => i + 1 \in 1 .. (Len(q) - 1)
        BY <1>1, <1>2
      <4>2. CASE i = k - 1
        <5>1. i + 1 = k /\ ~(k < k)
          BY <1>1, <4>2
        <5> QED BY <1>2, <4>1, <4>2, <5>1
      <4>3. CASE i # k - 1
        <5>1. i + 1 < k
          BY <1>1, <1>2, <2>6, <4>3
        <5> QED BY <1>2, <4>1, <4>3, <5>1
      <4> QED BY <4>2, <4>3
    <3>7. i # Len(q) /\ (i = Len(r) <=> i = k - 1 /\ k = Len(q))
      BY <1>1, <1>2, <2>6
    <3> QED BY <3>1, <3>2, <3>3, <3>4, <3>5, <3>6, <3>7
  <2>7. ASSUME NEW i \in 1 .. Len(r), ~(i < k)
        PROVE  /\ links'.after[r[i]] = IF i = Len(r) THEN NULL ELSE r[i + 1]
               /\ links'.before[r[i]] = IF i = 1 THEN NULL ELSE r[i - 1]
    <3>1. /\ i + 1 \in 1 .. Len(q) /\ r[i] = q[i + 1] /\ q[i + 1] \in Node
          /\ q[i + 1] # q[k]
          /\ k > 1 => q[i + 1] # q[k - 1]
          /\ i = k => k < Len(q)
          /\ i # k /\ k < Len(q) => q[i + 1] # q[k + 1]
      BY <1>1, <1>2, <2>7
    <3>2. links'.after[q[i + 1]] = links.after[q[i + 1]]
      BY <3>1 DEF UnlinkedAt
    <3>3. links'.before[q[i + 1]] = IF i = k THEN IF k = 1 THEN NULL ELSE q[k - 1]
                                    ELSE links.before[q[i + 1]]
      BY <3>1 DEF UnlinkedAt
    <3>4. /\ links.after[q[i + 1]] = IF i + 1 = Len(q) THEN NULL ELSE q[(i + 1) + 1]
          /\ links.before[q[i + 1]] = IF i + 1 = 1 THEN NULL ELSE q[(i + 1) - 1]
      BY <1>1, <2>1, <3>1 DEF Spells
    <3>5. i # Len(r) => r[i + 1] = q[(i + 1) + 1]
      BY <1>1, <1>2, <2>7
    <3>6. i # 1 => r[i - 1] = IF i = k THEN q[k - 1] ELSE q[i]
      BY <1>1, <1>2, <2>7
    <3>7. i + 1 # 1 /\ (i + 1) - 1 = i /\ (i = Len(r) <=> i + 1 = Len(q)) /\ (i = 1 => k = 1)
      BY <1>1, <1>2, <2>7
    <3> QED BY <3>1, <3>2, <3>3, <3>4, <3>5, <3>6, <3>7
  <2> QED BY <1>2, <2>2, <2>4, <2>5, <2>6, <2>7 DEF Spells
<1>7. \A x \in Node : (\A i \in 1 .. Len(r) : r[i] # x) =>
          \/ ~In(l, x) /\ links'.after[x] = links.after[x] /\ links'.before[x] = links.before[x]
          \/ In(l, x) /\ links'.after[x] = NULL /\ links'.before[x] = NULL
  <2> SUFFICES ASSUME NEW x \in Node, \A i \in 1 .. Len(r) : r[i] # x
               PROVE  \/ ~In(l, x) /\ links'.after[x] = links.after[x] /\ links'.before[x] = links.before[x]
                      \/ In(l, x) /\ links'.after[x] = NULL /\ links'.before[x] = NULL
    OBVIOUS
  <2>1. CASE In(l, x)
    <3>1. x = q[k]
      BY <1>1, <1>3, <2>1 DEF In
    <3> QED BY <2>1, <3>1 DEF UnlinkedAt
  <2>2. CASE ~In(l, x)
    <3>1. \A i \in 1 .. Len(q) : x # q[i]
      BY <1>1, <2>2 DEF In
    <3>2. (k > 1 => k - 1 \in 1 .. Len(q)) /\ (k < Len(q) => k + 1 \in 1 .. Len(q))
      BY <1>1
    <3> QED BY <1>1, <2>2, <3>1, <3>2 DEF UnlinkedAt
  <2> QED BY <2>1, <2>2
<1>8. links \in Links
  BY DEF IInv, Typed
<1>9. \A m \in List \ {l} : /\ links'.head[m] = links.head[m]
                            /\ links'.tail[m] = links.tail[m]
                            /\ links'.size[m] = links.size[m]
  BY <1>8 DEF UnlinkedAt, Links
<1>10. links' \in Links
  BY DEF UnlinkedAt
<1>11. r \in Seq(Node)
  BY <1>2
<1> QED BY <1>4, <1>5, <1>6, <1>7, <1>9, <1>10, <1>11, OneListChanges
-----------------------------------------------------------------------------
(***************************************************************************)
(* What each function of utils/list.c does to the links.                   *)
(***************************************************************************)

\* A record with the right fields is in Links.
LEMMA MakeLinks ==
    ASSUME NEW t,
           t = [head |-> t.head, tail |-> t.tail, size |-> t.size,
                after |-> t.after, before |-> t.before],
           t.head \in [List -> Pointer], t.tail \in [List -> Pointer],
           t.size \in [List -> Nat],
           t.after \in [Node -> Pointer], t.before \in [Node -> Pointer]
    PROVE  t \in Links
  BY DEF Links

\* The types of the fields.
LEMMA FieldTypes ==
    ASSUME IInv
    PROVE  /\ links.head \in [List -> Pointer] /\ links.tail \in [List -> Pointer]
           /\ links.size \in [List -> Nat]
           /\ links.after \in [Node -> Pointer] /\ links.before \in [Node -> Pointer]
           /\ links = [head |-> links.head, tail |-> links.tail, size |-> links.size,
                       after |-> links.after, before |-> links.before]
           /\ Node \subseteq Pointer /\ NULL \in Pointer
  BY DEF IInv, Typed, Links, Pointer

\* The ends of a list, as its functions see them.
LEMMA EndsOf ==
    ASSUME IInv, NEW l \in List
    PROVE  LET q == order[l] IN
           /\ q = <<>> <=> Len(q) = 0
           /\ q = <<>> <=> links.head[l] = NULL
           /\ q # <<>> => /\ 1 \in DOMAIN q /\ links.head[l] = q[1]
                          /\ Len(q) \in DOMAIN q /\ links.tail[l] = q[Len(q)]
           /\ q = <<>> => links.tail[l] = NULL
           /\ \A i \in DOMAIN q : /\ q[i] # NULL /\ q[i] \in Node /\ q # <<>>
                                  /\ links.head[l] = q[i] <=> i = 1
                                  /\ links.tail[l] = q[i] <=> i = Len(q)
                                  /\ links.after[q[i]] = IF i = Len(q) THEN NULL ELSE q[i + 1]
                                  /\ links.before[q[i]] = IF i = 1 THEN NULL ELSE q[i - 1]
<1> DEFINE q == order[l]
<1>1. /\ q \in Seq(Node) /\ Len(q) \in Nat /\ DOMAIN q = 1 .. Len(q)
      /\ \A i \in DOMAIN q : q[i] \in Node
      /\ \A i, j \in DOMAIN q : q[i] = q[j] => i = j
      /\ Spells(links, l, q)
  BY ListFacts
<1> HIDE DEF q
<1>2. q = <<>> <=> Len(q) = 0
  BY <1>1, EmptySeq
<1>3. \A i \in DOMAIN q : q[i] # NULL /\ q[i] \in Node
  BY <1>1, NodeAssumption
<1>4. q # <<>> => 1 \in DOMAIN q /\ Len(q) \in DOMAIN q
  BY <1>1, <1>2
<1>5. /\ links.head[l] = IF q = <<>> THEN NULL ELSE q[1]
      /\ links.tail[l] = IF q = <<>> THEN NULL ELSE q[Len(q)]
      /\ \A i \in DOMAIN q :
            /\ links.after[q[i]] = IF i = Len(q) THEN NULL ELSE q[i + 1]
            /\ links.before[q[i]] = IF i = 1 THEN NULL ELSE q[i - 1]
  BY <1>1 DEF Spells
<1>6. q = <<>> <=> links.head[l] = NULL
  BY <1>3, <1>4, <1>5
<1>7. \A i \in DOMAIN q : q # <<>>
  BY <1>1, <1>2
<1>8. \A i \in DOMAIN q : (links.head[l] = q[i] <=> i = 1) /\ (links.tail[l] = q[i] <=> i = Len(q))
  BY <1>1, <1>4, <1>5, <1>7
<1> QED BY <1>2, <1>3, <1>4, <1>5, <1>6, <1>7, <1>8 DEF q

\* ev_list_push_back
LEMMA PushBackLinks ==
    ASSUME IInv, NEW l \in List, NEW n \in Node, Free(n),
           links' = PushBack(links, l, n)
    PROVE  LinkedAt(l, Len(order[l]) + 1, n)
<1> DEFINE q == order[l]
<1>1. Len(q) \in Nat /\ links \in Links
  BY ListFacts DEF IInv, Typed
<1>2. CASE q = <<>>
  <2>1. Len(q) = 0 /\ links' = SetOnce(links, l, n) /\ links.size[l] = 0
    BY <1>2, EndsOf, ListFacts DEF PushBack, Spells
  <2>2. /\ links'.head = [links.head EXCEPT ![l] = n]
        /\ links'.tail = [links.tail EXCEPT ![l] = n]
        /\ links'.size = [links.size EXCEPT ![l] = 1]
        /\ links'.after = [links.after EXCEPT ![n] = NULL]
        /\ links'.before = [links.before EXCEPT ![n] = NULL]
        /\ links' = [head |-> links'.head, tail |-> links'.tail, size |-> links'.size,
                     after |-> links'.after, before |-> links'.before]
    BY <2>1, FieldTypes DEF SetOnce
  <2>3. links' \in Links
    <3>1. /\ links'.head \in [List -> Pointer] /\ links'.tail \in [List -> Pointer]
          /\ links'.size \in [List -> Nat]
          /\ links'.after \in [Node -> Pointer] /\ links'.before \in [Node -> Pointer]
      BY <2>2, FieldTypes
    <3> QED BY <2>2, <3>1, MakeLinks
  <2> QED BY <1>1, <2>1, <2>2, <2>3, FieldTypes DEF LinkedAt
<1>3. CASE q # <<>>
  <2>1. /\ Len(q) \in DOMAIN q /\ links.tail[l] = q[Len(q)] /\ q[Len(q)] \in Node
        /\ links.head[l] # NULL /\ q[Len(q)] # n /\ Len(q) > 0
    BY <1>1, <1>3, EndsOf DEF Free, In
  <2>2. /\ links'.head = links.head
        /\ links'.tail = [links.tail EXCEPT ![l] = n]
        /\ links'.size = [links.size EXCEPT ![l] = links.size[l] + 1]
        /\ links'.after = [links.after EXCEPT ![n] = NULL, ![q[Len(q)]] = n]
        /\ links'.before = [links.before EXCEPT ![n] = q[Len(q)]]
        /\ links' = [head |-> links'.head, tail |-> links'.tail, size |-> links'.size,
                     after |-> links'.after, before |-> links'.before]
    BY <2>1, FieldTypes DEF PushBack
  <2>3. links' \in Links
    <3>1. links'.head \in [List -> Pointer] /\ links'.tail \in [List -> Pointer]
      BY <2>2, FieldTypes
    <3>2. links'.size \in [List -> Nat]
      BY <2>2, FieldTypes
    <3>3. links'.after \in [Node -> Pointer]
      BY <2>2, FieldTypes
    <3>4. links'.before \in [Node -> Pointer]
      BY <2>1, <2>2, FieldTypes
    <3> QED BY <2>2, <3>1, <3>2, <3>3, <3>4, MakeLinks
  <2> QED BY <1>1, <2>1, <2>2, <2>3, FieldTypes DEF LinkedAt
<1> QED BY <1>2, <1>3

\* ev_list_push_front
LEMMA PushFrontLinks ==
    ASSUME IInv, NEW l \in List, NEW n \in Node, Free(n),
           links' = PushFront(links, l, n)
    PROVE  LinkedAt(l, 1, n)
<1> DEFINE q == order[l]
<1>1. Len(q) \in Nat
  BY ListFacts
<1>2. CASE q = <<>>
  <2>1. links' = PushBack(links, l, n) /\ Len(q) = 0
    BY <1>2, EndsOf DEF PushFront, PushBack
  <2> QED BY <2>1, PushBackLinks
<1>3. CASE q # <<>>
  <2>1. /\ 1 \in DOMAIN q /\ links.head[l] = q[1] /\ q[1] \in Node
        /\ links.head[l] # NULL /\ q[1] # n /\ 1 # Len(q) + 1 /\ 1 <= Len(q)
    BY <1>1, <1>3, EndsOf, ListFacts DEF Free, In
  <2>2. /\ links'.tail = links.tail
        /\ links'.head = [links.head EXCEPT ![l] = n]
        /\ links'.size = [links.size EXCEPT ![l] = links.size[l] + 1]
        /\ links'.before = [links.before EXCEPT ![n] = NULL, ![q[1]] = n]
        /\ links'.after = [links.after EXCEPT ![n] = q[1]]
        /\ links' = [head |-> links'.head, tail |-> links'.tail, size |-> links'.size,
                     after |-> links'.after, before |-> links'.before]
    BY <2>1, FieldTypes DEF PushFront
  <2>3. links' \in Links
    <3>1. links'.head \in [List -> Pointer] /\ links'.tail \in [List -> Pointer]
      BY <2>1, <2>2, FieldTypes
    <3>2. links'.size \in [List -> Nat]
      BY <2>1, <2>2, FieldTypes
    <3>3. links'.after \in [Node -> Pointer]
      BY <2>1, <2>2, FieldTypes
    <3>4. links'.before \in [Node -> Pointer]
      BY <2>1, <2>2, FieldTypes
    <3> QED BY <2>2, <3>1, <3>2, <3>3, <3>4, MakeLinks
  <2> QED BY <1>1, <2>1, <2>2, <2>3, FieldTypes DEF LinkedAt
<1> QED BY <1>2, <1>3

\* ev_list_insert_before
LEMMA InsertBeforeLinks ==
    ASSUME IInv, NEW l \in List, NEW n \in Node, Free(n), NEW i \in DOMAIN order[l],
           links' = InsertBefore(links, l, order[l][i], n)
    PROVE  LinkedAt(l, i, n)
<1> DEFINE q == order[l]
<1>1. Len(q) \in Nat /\ i \in 1 .. Len(q)
  BY ListFacts
<1>2. CASE i = 1
  <2>1. links' = PushFront(links, l, n)
    BY <1>2, EndsOf DEF InsertBefore
  <2> QED BY <1>2, <2>1, PushFrontLinks
<1>3. CASE i # 1
  <2>1. /\ links.head[l] # q[i] /\ q[i] \in Node /\ q[i] # n
        /\ links.before[q[i]] = q[i - 1] /\ i - 1 \in DOMAIN q
        /\ q[i - 1] \in Node /\ q[i - 1] # n
        /\ i > 1 /\ i # Len(q) + 1 /\ i <= Len(q)
    <3>1. i - 1 \in DOMAIN q /\ i > 1 /\ i # Len(q) + 1 /\ i <= Len(q)
      BY <1>1, <1>3, ListFacts
    <3>2. \A j \in DOMAIN q : q[j] # n
      BY DEF Free, In
    <3> QED BY <1>1, <1>3, <3>1, <3>2, EndsOf
  <2>2. /\ links'.tail = links.tail
        /\ links'.head = links.head
        /\ links'.size = [links.size EXCEPT ![l] = links.size[l] + 1]
        /\ links'.before = [links.before EXCEPT ![n] = q[i - 1], ![q[i]] = n]
        /\ links'.after = [links.after EXCEPT ![n] = q[i], ![q[i - 1]] = n]
        /\ links' = [head |-> links'.head, tail |-> links'.tail, size |-> links'.size,
                     after |-> links'.after, before |-> links'.before]
    BY <2>1, FieldTypes DEF InsertBefore
  <2>3. links' \in Links
    <3>1. links'.head \in [List -> Pointer] /\ links'.tail \in [List -> Pointer]
      BY <2>1, <2>2, FieldTypes
    <3>2. links'.size \in [List -> Nat]
      BY <2>1, <2>2, FieldTypes
    <3>3. links'.after \in [Node -> Pointer]
      BY <2>1, <2>2, FieldTypes
    <3>4. links'.before \in [Node -> Pointer]
      BY <2>1, <2>2, FieldTypes
    <3> QED BY <2>2, <3>1, <3>2, <3>3, <3>4, MakeLinks
  <2> QED BY <1>1, <1>3, <2>1, <2>2, <2>3, FieldTypes DEF LinkedAt
<1> QED BY <1>2, <1>3

\* ev_list_insert_after
LEMMA InsertAfterLinks ==
    ASSUME IInv, NEW l \in List, NEW n \in Node, Free(n), NEW i \in DOMAIN order[l],
           links' = InsertAfter(links, l, order[l][i], n)
    PROVE  LinkedAt(l, i + 1, n)
<1> DEFINE q == order[l]
<1>1. Len(q) \in Nat /\ i \in 1 .. Len(q)
  BY ListFacts
<1>2. CASE i = Len(q)
  <2>1. links' = PushBack(links, l, n)
    BY <1>2, EndsOf DEF InsertAfter
  <2> QED BY <1>2, <2>1, PushBackLinks
<1>3. CASE i # Len(q)
  <2>1. /\ links.tail[l] # q[i] /\ q[i] \in Node /\ q[i] # n
        /\ links.after[q[i]] = q[i + 1] /\ i + 1 \in DOMAIN q
        /\ q[i + 1] \in Node /\ q[i + 1] # n
        /\ i + 1 > 1 /\ i + 1 # 1 /\ i + 1 # Len(q) + 1 /\ i + 1 <= Len(q) /\ (i + 1) - 1 = i
    <3>1. i + 1 \in DOMAIN q
      BY <1>1, <1>3, ListFacts
    <3>2. i + 1 > 1 /\ i + 1 # 1 /\ i + 1 # Len(q) + 1 /\ i + 1 <= Len(q) /\ (i + 1) - 1 = i
      BY <1>1, <1>3
    <3>3. \A j \in DOMAIN q : q[j] # n
      BY DEF Free, In
    <3> QED BY <1>1, <1>3, <3>1, <3>2, <3>3, EndsOf
  <2>2. /\ links'.tail = links.tail
        /\ links'.head = links.head
        /\ links'.size = [links.size EXCEPT ![l] = links.size[l] + 1]
        /\ links'.after = [links.after EXCEPT ![n] = q[i + 1], ![q[i]] = n]
        /\ links'.before = [links.before EXCEPT ![n] = q[i], ![q[i + 1]] = n]
        /\ links' = [head |-> links'.head, tail |-> links'.tail, size |-> links'.size,
                     after |-> links'.after, before |-> links'.before]
    BY <2>1, FieldTypes DEF InsertAfter
  <2>3. links' \in Links
    <3>1. links'.head \in [List -> Pointer] /\ links'.tail \in [List -> Pointer]
      BY <2>1, <2>2, FieldTypes
    <3>2. links'.size \in [List -> Nat]
      BY <2>1, <2>2, FieldTypes
    <3>3. links'.after \in [Node -> Pointer]
      BY <2>1, <2>2, FieldTypes
    <3>4. links'.before \in [Node -> Pointer]
      BY <2>1, <2>2, FieldTypes
    <3> QED BY <2>2, <3>1, <3>2, <3>3, <3>4, MakeLinks
  <2> QED BY <1>1, <1>3, <2>1, <2>2, <2>3, FieldTypes DEF LinkedAt
<1> QED BY <1>2, <1>3

\* ev_list_erase
LEMMA EraseUnlinks ==
    ASSUME IInv, NEW l \in List, NEW k \in DOMAIN order[l],
           links' = EraseLink(links, l, order[l][k])
    PROVE  UnlinkedAt(l, k)
<1> DEFINE q == order[l]
<1>1. /\ Len(q) \in Nat /\ k \in 1 .. Len(q) /\ DOMAIN q = 1 .. Len(q)
      /\ q[k] \in Node /\ links.size[l] = Len(q) /\ links.size[l] - 1 \in Nat
      /\ \A i, j \in DOMAIN q : q[i] = q[j] => i = j
  <2>1. /\ Len(q) \in Nat /\ k \in 1 .. Len(q) /\ DOMAIN q = 1 .. Len(q)
        /\ links.size[l] = Len(q)
    BY ListFacts DEF Spells
  <2>2. Len(q) - 1 \in Nat
    BY <2>1
  <2> QED BY <2>1, <2>2, ListFacts
<1>2. /\ (k = 1 <=> ~(k > 1)) /\ (k = Len(q) <=> ~(k < Len(q))) /\ k - 1 # k + 1
      /\ (k # 1 => k - 1 \in 1 .. Len(q) /\ k - 1 # k)
      /\ (k # Len(q) => k + 1 \in 1 .. Len(q) /\ k + 1 # k)
      /\ (k = 1 /\ k # Len(q) => k + 1 = 2 /\ Len(q) # 1)
  <2>1. \A m \in Nat : \A j \in 1 .. m :
            /\ (j = 1 <=> ~(j > 1)) /\ (j = m <=> ~(j < m)) /\ j - 1 # j + 1
            /\ (j # 1 => j - 1 \in 1 .. m /\ j - 1 # j)
            /\ (j # m => j + 1 \in 1 .. m /\ j + 1 # j)
            /\ (j = 1 /\ j # m => j + 1 = 2 /\ m # 1)
    OBVIOUS
  <2> QED BY <1>1, <2>1
<1>3. (links.head[l] = q[k] <=> k = 1) /\ (links.tail[l] = q[k] <=> k = Len(q))
  BY EndsOf
<1>4. CASE k = 1 /\ k = Len(q)
  <2>1. ~(k > 1) /\ ~(k < Len(q)) /\ NULL \in Pointer
    BY <1>2, <1>4, FieldTypes
  <2>2. /\ links'.head = [links.head EXCEPT ![l] = NULL]
        /\ links'.tail = [links.tail EXCEPT ![l] = NULL]
        /\ links'.size = [links.size EXCEPT ![l] = links.size[l] - 1]
        /\ links'.after = [links.after EXCEPT ![q[k]] = NULL]
        /\ links'.before = [links.before EXCEPT ![q[k]] = NULL]

        /\ links' = [head |-> links'.head, tail |-> links'.tail, size |-> links'.size,
                     after |-> links'.after, before |-> links'.before]
    BY <1>3, <1>4, <2>1, FieldTypes DEF EraseLink, Unchain
  <2>3. links' \in Links
    <3>1. links'.head \in [List -> Pointer] /\ links'.tail \in [List -> Pointer]
      BY <2>1, <2>2, FieldTypes
    <3>2. links'.size \in [List -> Nat]
      BY <1>1, <2>2, FieldTypes
    <3>3. links'.after \in [Node -> Pointer]
      BY <2>1, <2>2, FieldTypes
    <3>4. links'.before \in [Node -> Pointer]
      BY <2>1, <2>2, FieldTypes
    <3> QED BY <2>2, <3>1, <3>2, <3>3, <3>4, MakeLinks
  <2> QED BY <1>1, <1>3, <1>4, <2>1, <2>2, <2>3, FieldTypes DEF UnlinkedAt
<1>5. CASE k = 1 /\ k # Len(q)
  <2>1. /\ links.after[q[k]] = q[k + 1] /\ q[k + 1] \in Node /\ q[k + 1] # q[k]
        /\ ~(k > 1) /\ k < Len(q) /\ Len(q) # 1 /\ q[2] = q[k + 1]
    <3>1. k + 1 \in DOMAIN q /\ k + 1 # k /\ ~(k > 1) /\ k < Len(q) /\ Len(q) # 1 /\ k + 1 = 2
      BY <1>2, <1>1, <1>5
    <3> QED BY <1>1, <1>5, <3>1, EndsOf
  <2>2. /\ links'.head = [links.head EXCEPT ![l] = q[k + 1]]
        /\ links'.tail = links.tail
        /\ links'.size = [links.size EXCEPT ![l] = links.size[l] - 1]
        /\ links'.after = [links.after EXCEPT ![q[k]] = NULL]
        /\ links'.before = [links.before EXCEPT ![q[k + 1]] = NULL, ![q[k]] = NULL]

        /\ links' = [head |-> links'.head, tail |-> links'.tail, size |-> links'.size,
                     after |-> links'.after, before |-> links'.before]
    BY <1>3, <1>5, <2>1, FieldTypes DEF EraseLink, Unchain
  <2>3. links' \in Links
    <3>1. links'.head \in [List -> Pointer] /\ links'.tail \in [List -> Pointer]
      BY <2>1, <2>2, FieldTypes
    <3>2. links'.size \in [List -> Nat]
      BY <1>1, <2>2, FieldTypes
    <3>3. links'.after \in [Node -> Pointer]
      BY <2>1, <2>2, FieldTypes
    <3>4. links'.before \in [Node -> Pointer]
      BY <2>1, <2>2, FieldTypes
    <3> QED BY <2>2, <3>1, <3>2, <3>3, <3>4, MakeLinks
  <2> QED BY <1>1, <1>3, <1>5, <2>1, <2>2, <2>3, FieldTypes DEF UnlinkedAt
<1>6. CASE k # 1 /\ k = Len(q)
  <2>1. /\ links.before[q[k]] = q[k - 1] /\ q[k - 1] \in Node /\ q[k - 1] # q[k]
        /\ k > 1 /\ ~(k < Len(q))
    <3>1. k - 1 \in DOMAIN q /\ k - 1 # k /\ k > 1 /\ ~(k < Len(q))
      BY <1>2, <1>1, <1>6
    <3> QED BY <1>1, <1>6, <3>1, EndsOf
  <2>2. /\ links'.head = links.head
        /\ links'.tail = [links.tail EXCEPT ![l] = q[k - 1]]
        /\ links'.size = [links.size EXCEPT ![l] = links.size[l] - 1]
        /\ links'.after = [links.after EXCEPT ![q[k - 1]] = NULL, ![q[k]] = NULL]
        /\ links'.before = [links.before EXCEPT ![q[k]] = NULL]

        /\ links' = [head |-> links'.head, tail |-> links'.tail, size |-> links'.size,
                     after |-> links'.after, before |-> links'.before]
    BY <1>3, <1>6, <2>1, FieldTypes DEF EraseLink, Unchain
  <2>3. links' \in Links
    <3>1. links'.head \in [List -> Pointer] /\ links'.tail \in [List -> Pointer]
      BY <2>1, <2>2, FieldTypes
    <3>2. links'.size \in [List -> Nat]
      BY <1>1, <2>2, FieldTypes
    <3>3. links'.after \in [Node -> Pointer]
      BY <2>1, <2>2, FieldTypes
    <3>4. links'.before \in [Node -> Pointer]
      BY <2>1, <2>2, FieldTypes
    <3> QED BY <2>2, <3>1, <3>2, <3>3, <3>4, MakeLinks
  <2> QED BY <1>1, <1>3, <1>6, <2>1, <2>2, <2>3, FieldTypes DEF UnlinkedAt
<1>7. CASE k # 1 /\ k # Len(q)
  <2>1. /\ links.after[q[k]] = q[k + 1] /\ q[k + 1] \in Node /\ q[k + 1] # q[k]
        /\ links.before[q[k]] = q[k - 1] /\ q[k - 1] \in Node /\ q[k - 1] # q[k]
        /\ k > 1 /\ k < Len(q) /\ q[k - 1] # q[k + 1]
    <3>1. /\ k - 1 \in DOMAIN q /\ k - 1 # k /\ k + 1 \in DOMAIN q /\ k + 1 # k
          /\ k > 1 /\ k < Len(q) /\ k - 1 # k + 1
      BY <1>2, <1>1, <1>7
    <3> QED BY <1>1, <1>7, <3>1, EndsOf
  <2>2. /\ links'.head = links.head
        /\ links'.tail = links.tail
        /\ links'.size = [links.size EXCEPT ![l] = links.size[l] - 1]
        /\ links'.after = [links.after EXCEPT ![q[k - 1]] = q[k + 1], ![q[k]] = NULL]
        /\ links'.before = [links.before EXCEPT ![q[k + 1]] = q[k - 1], ![q[k]] = NULL]

        /\ links' = [head |-> links'.head, tail |-> links'.tail, size |-> links'.size,
                     after |-> links'.after, before |-> links'.before]
    BY <1>3, <1>7, <2>1, FieldTypes DEF EraseLink, Unchain
  <2>3. links' \in Links
    <3>1. links'.head \in [List -> Pointer] /\ links'.tail \in [List -> Pointer]
      BY <2>1, <2>2, FieldTypes
    <3>2. links'.size \in [List -> Nat]
      BY <1>1, <2>2, FieldTypes
    <3>3. links'.after \in [Node -> Pointer]
      BY <2>1, <2>2, FieldTypes
    <3>4. links'.before \in [Node -> Pointer]
      BY <2>1, <2>2, FieldTypes
    <3> QED BY <2>2, <3>1, <3>2, <3>3, <3>4, MakeLinks
  <2> QED BY <1>1, <1>3, <1>7, <2>1, <2>2, <2>3, FieldTypes DEF UnlinkedAt
<1> QED BY <1>4, <1>5, <1>6, <1>7

\* r is p with q behind it: where its elements come from, and go to.
Concatenated(p, q, r) ==
    /\ r \in Seq(Node) /\ Len(r) = Len(p) + Len(q) /\ DOMAIN r = 1 .. Len(r)
    /\ \A i \in 1 .. Len(p) : i \in 1 .. Len(r) /\ r[i] = p[i]
    /\ \A j \in 1 .. Len(q) : Len(p) + j \in 1 .. Len(r) /\ r[Len(p) + j] = q[j]
    /\ \A i \in 1 .. Len(r) : \/ i \in 1 .. Len(p)
                              \/ \E j \in 1 .. Len(q) : i = Len(p) + j

\* What \o does, in those words.
LEMMA Joined ==
    ASSUME NEW p \in Seq(Node), NEW q \in Seq(Node), NEW r, r = p \o q
    PROVE  Concatenated(p, q, r)
<1>1. Len(p) \in Nat /\ Len(q) \in Nat
  OBVIOUS
<1>2. /\ r \in Seq(Node) /\ Len(r) = Len(p) + Len(q)
      /\ \A i \in 1 .. (Len(p) + Len(q)) : r[i] = IF i <= Len(p) THEN p[i] ELSE q[i - Len(p)]
  BY ConcatProperties
<1>3. DOMAIN r = 1 .. Len(r)
  BY <1>2
<1>4. ASSUME NEW i \in 1 .. Len(p) PROVE i \in 1 .. Len(r) /\ r[i] = p[i]
  <2>1. i \in 1 .. (Len(p) + Len(q)) /\ i <= Len(p)
    BY <1>1
  <2> QED BY <1>2, <2>1
<1>5. ASSUME NEW j \in 1 .. Len(q) PROVE Len(p) + j \in 1 .. Len(r) /\ r[Len(p) + j] = q[j]
  <2>1. /\ Len(p) + j \in 1 .. (Len(p) + Len(q)) /\ ~(Len(p) + j <= Len(p))
        /\ (Len(p) + j) - Len(p) = j
    BY <1>1
  <2> QED BY <1>2, <2>1
<1>6. ASSUME NEW i \in 1 .. Len(r), i \notin 1 .. Len(p)
      PROVE  \E j \in 1 .. Len(q) : i = Len(p) + j
  <2>1. i - Len(p) \in 1 .. Len(q) /\ i = Len(p) + (i - Len(p))
    BY <1>1, <1>2, <1>6
  <2> QED BY <2>1
<1> QED BY <1>2, <1>3, <1>4, <1>5, <1>6 DEF Concatenated

\* The links of p and of q, each chained, and the last of p to the first of q.
Bridged(p, q, after, before) ==
    /\ \A i \in 1 .. Len(p) :
          /\ after[p[i]] = IF i = Len(p) THEN q[1] ELSE p[i + 1]
          /\ before[p[i]] = IF i = 1 THEN NULL ELSE p[i - 1]
    /\ \A j \in 1 .. Len(q) :
          /\ after[q[j]] = IF j = Len(q) THEN NULL ELSE q[j + 1]
          /\ before[q[j]] = IF j > 1 THEN q[j - 1]
                            ELSE IF p = <<>> THEN NULL ELSE p[Len(p)]

\* The links of a concatenation, if its two parts are chained to each other.
LEMMA ChainJoined ==
    ASSUME NEW p \in Seq(Node), NEW q \in Seq(Node), q # <<>>,
           NEW r, Concatenated(p, q, r), NEW after, NEW before,
           Bridged(p, q, after, before)
    PROVE  /\ r # <<>> /\ r[Len(r)] = q[Len(q)]
           /\ r[1] = IF p = <<>> THEN q[1] ELSE p[1]
           /\ \A i \in 1 .. Len(r) :
                 /\ after[r[i]] = IF i = Len(r) THEN NULL ELSE r[i + 1]
                 /\ before[r[i]] = IF i = 1 THEN NULL ELSE r[i - 1]
<1>b. /\ \A i \in 1 .. Len(p) :
             /\ after[p[i]] = IF i = Len(p) THEN q[1] ELSE p[i + 1]
             /\ before[p[i]] = IF i = 1 THEN NULL ELSE p[i - 1]
      /\ \A j \in 1 .. Len(q) :
             /\ after[q[j]] = IF j = Len(q) THEN NULL ELSE q[j + 1]
             /\ before[q[j]] = IF j > 1 THEN q[j - 1]
                               ELSE IF p = <<>> THEN NULL ELSE p[Len(p)]
  BY DEF Bridged
<1>1. /\ Len(p) \in Nat /\ Len(q) \in Nat /\ Len(q) >= 1
      /\ (p = <<>> <=> Len(p) = 0)
  BY EmptySeq
<1>2. /\ r \in Seq(Node) /\ Len(r) = Len(p) + Len(q)
      /\ \A i \in 1 .. Len(p) : i \in 1 .. Len(r) /\ r[i] = p[i]
      /\ \A j \in 1 .. Len(q) : Len(p) + j \in 1 .. Len(r) /\ r[Len(p) + j] = q[j]
      /\ \A i \in 1 .. Len(r) : i \in 1 .. Len(p) \/ \E j \in 1 .. Len(q) : i = Len(p) + j
  BY DEF Concatenated
<1>3. 1 \in 1 .. Len(q) /\ Len(q) \in 1 .. Len(q)
  BY <1>1
<1>4. r[Len(r)] = q[Len(q)]
  BY <1>2, <1>3
<1>5. Len(r) > 0 /\ r # <<>>
  <2>1. Len(r) > 0
    BY <1>1, <1>2
  <2> QED BY <2>1, EmptySeq
<1>6. r[1] = IF p = <<>> THEN q[1] ELSE p[1]
  <2>1. CASE p = <<>>
    <3>1. Len(p) + 1 = 1
      BY <1>1, <2>1
    <3> QED BY <1>2, <1>3, <2>1, <3>1
  <2>2. CASE p # <<>>
    <3>1. 1 \in 1 .. Len(p)
      BY <1>1, <2>2
    <3> QED BY <1>2, <2>2, <3>1
  <2> QED BY <2>1, <2>2
<1>7. ASSUME NEW i \in 1 .. Len(p)
      PROVE  /\ after[r[i]] = IF i = Len(r) THEN NULL ELSE r[i + 1]
             /\ before[r[i]] = IF i = 1 THEN NULL ELSE r[i - 1]
  <2>1. i # Len(r) /\ r[i] = p[i]
    BY <1>1, <1>2
  <2>2. i # 1 => r[i - 1] = p[i - 1]
    <3>1. i # 1 => i - 1 \in 1 .. Len(p)
      BY <1>1
    <3> QED BY <1>2, <3>1
  <2>3. i # Len(p) => r[i + 1] = p[i + 1]
    <3>1. i # Len(p) => i + 1 \in 1 .. Len(p)
      BY <1>1
    <3> QED BY <1>2, <3>1
  <2>4. r[Len(p) + 1] = q[1]
    BY <1>2, <1>3
  <2> QED BY <1>b, <2>1, <2>2, <2>3, <2>4
<1>8. ASSUME NEW j \in 1 .. Len(q), NEW i \in 1 .. Len(r), i = Len(p) + j
      PROVE  /\ after[r[i]] = IF i = Len(r) THEN NULL ELSE r[i + 1]
             /\ before[r[i]] = IF i = 1 THEN NULL ELSE r[i - 1]
  <2>0. r[i] = q[j]
    BY <1>2, <1>8
  <2>1. r[i] = q[j] /\ (i = Len(r) <=> j = Len(q))
    <3>1. j \in Nat /\ Len(r) = Len(p) + Len(q) /\ i = Len(p) + j
      BY <1>2, <1>8
    <3>2. \A a, b, c \in Nat : a + c = a + b <=> c = b
      OBVIOUS
    <3> QED BY <1>1, <2>0, <3>1, <3>2
  <2>2. j # Len(q) => r[i + 1] = q[j + 1]
    <3>1. j # Len(q) => j + 1 \in 1 .. Len(q) /\ Len(p) + (j + 1) = i + 1
      BY <1>1, <1>8
    <3> QED BY <1>2, <3>1
  <2>3. CASE j > 1
    <3>1. j - 1 \in 1 .. Len(q) /\ Len(p) + (j - 1) = i - 1 /\ i # 1
      BY <1>1, <1>8, <2>3
    <3>2. r[i - 1] = q[j - 1]
      BY <1>2, <3>1
    <3> QED BY <1>b, <2>1, <2>2, <2>3, <3>1, <3>2
  <2>4. CASE ~(j > 1) /\ p = <<>>
    <3>1. i = 1
      BY <1>1, <1>8, <2>4
    <3> QED BY <1>b, <2>1, <2>2, <2>4, <3>1
  <2>5. CASE ~(j > 1) /\ p # <<>>
    <3>1. i # 1 /\ i - 1 = Len(p) /\ Len(p) \in 1 .. Len(p)
      BY <1>1, <1>8, <2>5
    <3>2. r[i - 1] = p[Len(p)]
      BY <1>2, <3>1
    <3> QED BY <1>b, <2>1, <2>2, <2>5, <3>1, <3>2
  <2> QED BY <2>3, <2>4, <2>5
<1> QED BY <1>2, <1>4, <1>5, <1>6, <1>7, <1>8

\* What ev_list_migrate works on: src is not empty.
Migrating(dst, src, p, q, r) ==
    /\ dst # src /\ p = order[dst] /\ q = order[src] /\ q # <<>>
    /\ Concatenated(p, q, r)
    /\ order' = [order EXCEPT ![dst] = r, ![src] = <<>>]
    /\ links' = Migrate(links, dst, src)

\* The nodes of src are behind those of dst afterwards.
LEMMA MigrateJoins ==
    ASSUME IInv, NEW dst \in List, NEW src \in List, NEW p, NEW q, NEW r,
           Migrating(dst, src, p, q, r)
    PROVE  IInv'
<1>1. /\ p \in Seq(Node) /\ Len(p) \in Nat /\ DOMAIN p = 1 .. Len(p)
      /\ q \in Seq(Node) /\ Len(q) \in Nat /\ DOMAIN q = 1 .. Len(q)
      /\ \A i \in 1 .. Len(p) : p[i] \in Node
      /\ \A i \in 1 .. Len(q) : q[i] \in Node
      /\ \A i, j \in 1 .. Len(p) : p[i] = p[j] => i = j
      /\ \A i, j \in 1 .. Len(q) : q[i] = q[j] => i = j
      /\ Spells(links, dst, p) /\ Spells(links, src, q)
      /\ dst # src /\ q # <<>> /\ p = order[dst] /\ q = order[src]
  BY ListFacts DEF Migrating
<1>t. p \in Seq(Node) /\ q \in Seq(Node) /\ Len(p) + Len(q) \in Nat
  <2>1. p \in Seq(Node) /\ q \in Seq(Node)
    BY <1>1
  <2>2. Len(p) \in Nat /\ Len(q) \in Nat
    BY <2>1, LenProperties
  <2> QED BY <2>1, <2>2
<1>2. /\ \A i \in 1 .. Len(p), j \in 1 .. Len(q) : p[i] # q[j]
      /\ \A m \in List \ {dst, src} : \A k \in DOMAIN order[m] :
            /\ order[m][k] \in Node
            /\ \A i \in 1 .. Len(p) : order[m][k] # p[i]
            /\ \A j \in 1 .. Len(q) : order[m][k] # q[j]
  BY <1>1, ListFacts DEF IInv, Distinct
<1>3. /\ r \in Seq(Node) /\ Len(r) = Len(p) + Len(q) /\ DOMAIN r = 1 .. Len(r)
      /\ \A i \in 1 .. Len(p) : i \in 1 .. Len(r) /\ r[i] = p[i]
      /\ \A j \in 1 .. Len(q) : Len(p) + j \in 1 .. Len(r) /\ r[Len(p) + j] = q[j]
      /\ \A i \in 1 .. Len(r) : \/ i \in 1 .. Len(p)
                                \/ \E j \in 1 .. Len(q) : i = Len(p) + j
  BY DEF Migrating, Concatenated
<1>4. /\ order' \in [List -> Seq(Node)]
      /\ order'[dst] = r /\ order'[src] = <<>>
      /\ \A m \in List \ {dst, src} : order'[m] = order[m]
      /\ links' = Migrate(links, dst, src)
  <2>1. <<>> \in Seq(Node)
    BY EmptySeq
  <2> QED BY <1>1, <1>3, <2>1 DEF IInv, Typed, Migrating
<1>5. /\ 1 \in DOMAIN q /\ Len(q) \in DOMAIN q /\ Len(q) > 0
      /\ links.head[src] = q[1] /\ links.tail[src] = q[Len(q)]
      /\ q[1] \in Node /\ q[Len(q)] \in Node /\ q[1] # NULL
      /\ links.size[src] = Len(q) /\ links.size[dst] = Len(p)
  BY <1>1, EndsOf, ListFacts DEF Spells
<1>6. p # <<>> => /\ Len(p) \in DOMAIN p /\ Len(p) > 0
                  /\ links.tail[dst] = p[Len(p)] /\ p[Len(p)] \in Node /\ p[Len(p)] # NULL
                  /\ links.head[dst] = p[1]
  BY <1>1, EndsOf
<1>7. p = <<>> => Len(p) = 0 /\ links.tail[dst] = NULL
  BY <1>1, EndsOf
<1>8. /\ links'.head = IF p = <<>> THEN [links.head EXCEPT ![dst] = q[1], ![src] = NULL]
                       ELSE [links.head EXCEPT ![src] = NULL]
      /\ links'.tail = [links.tail EXCEPT ![dst] = q[Len(q)], ![src] = NULL]
      /\ links'.size = [links.size EXCEPT ![dst] = Len(p) + Len(q), ![src] = 0]
      /\ links'.after = IF p = <<>> THEN links.after ELSE [links.after EXCEPT ![p[Len(p)]] = q[1]]
      /\ links'.before = IF p = <<>> THEN links.before ELSE [links.before EXCEPT ![q[1]] = p[Len(p)]]
      /\ links' = [head |-> links'.head, tail |-> links'.tail, size |-> links'.size,
                   after |-> links'.after, before |-> links'.before]
  <2>1. CASE p = <<>>
    <3>1. Len(p) + Len(q) = Len(q)
      BY <1>1, <1>7, <2>1
    <3> QED BY <1>1, <1>4, <1>5, <1>7, <2>1, <3>1, FieldTypes DEF Migrate
  <2>2. CASE p # <<>>
    BY <1>1, <1>4, <1>5, <1>6, <2>2, FieldTypes DEF Migrate
  <2> QED BY <2>1, <2>2
<1>9. Typed'
  <2>0. q[1] \in Pointer /\ q[Len(q)] \in Pointer /\ (p # <<>> => p[Len(p)] \in Pointer)
    BY <1>5, <1>6, FieldTypes
  <2>1. links'.head \in [List -> Pointer]
    <3>1. CASE p = <<>>
      <4>1. links'.head = [links.head EXCEPT ![dst] = q[1], ![src] = NULL]
        BY <1>8, <3>1
      <4> QED BY <2>0, <4>1, FieldTypes
    <3>2. CASE p # <<>>
      <4>1. links'.head = [links.head EXCEPT ![src] = NULL]
        BY <1>8, <3>2
      <4> QED BY <4>1, FieldTypes
    <3> QED BY <3>1, <3>2
  <2>2. links'.tail \in [List -> Pointer] /\ links'.size \in [List -> Nat]
    <3>1. Len(p) + Len(q) \in Nat
      BY <1>t
    <3>2. /\ links'.tail = [links.tail EXCEPT ![dst] = q[Len(q)], ![src] = NULL]
          /\ links'.size = [links.size EXCEPT ![dst] = Len(p) + Len(q), ![src] = 0]
      BY <1>8
    <3>3. links'.tail \in [List -> Pointer]
      BY <2>0, <3>2, FieldTypes
    <3>4. links'.size \in [List -> Nat]
      BY <3>1, <3>2, FieldTypes
    <3> QED BY <3>3, <3>4
  <2>3. links'.after \in [Node -> Pointer] /\ links'.before \in [Node -> Pointer]
    <3>1. CASE p = <<>>
      BY <1>8, <3>1, FieldTypes
    <3>2. CASE p # <<>>
      <4>1. /\ links'.after = [links.after EXCEPT ![p[Len(p)]] = q[1]]
            /\ links'.before = [links.before EXCEPT ![q[1]] = p[Len(p)]]
        BY <1>8, <3>2
      <4> QED BY <2>0, <3>2, <4>1, FieldTypes
    <3> QED BY <3>1, <3>2
  <2> QED BY <1>4, <1>8, <2>1, <2>2, <2>3, MakeLinks DEF Typed
<1>10. Distinct'
  <2> SUFFICES ASSUME NEW m1 \in List, NEW m2 \in List,
                      NEW i \in DOMAIN order'[m1], NEW j \in DOMAIN order'[m2],
                      order'[m1][i] = order'[m2][j]
               PROVE  m1 = m2 /\ i = j
    BY DEF Distinct
  <2>1. m1 # src /\ m2 # src
    BY <1>4
  <2>2. CASE m1 = dst /\ m2 = dst
    <3>1. i \in 1 .. Len(r) /\ j \in 1 .. Len(r) /\ r[i] = r[j]
      BY <1>3, <1>4, <2>2
    <3>2. CASE i \in 1 .. Len(p) /\ j \in 1 .. Len(p)
      <4>1. r[i] = p[i] /\ r[j] = p[j]
        BY <1>3, <3>2
      <4>2. i = j
        BY <1>1, <3>1, <3>2, <4>1
      <4> QED BY <2>2, <4>2
    <3>3. CASE i \in 1 .. Len(p) /\ j \notin 1 .. Len(p)
      BY <1>2, <1>3, <3>1, <3>3
    <3>4. CASE i \notin 1 .. Len(p) /\ j \in 1 .. Len(p)
      BY <1>2, <1>3, <3>1, <3>4
    <3>5. CASE i \notin 1 .. Len(p) /\ j \notin 1 .. Len(p)
      <4>1. PICK k1 \in 1 .. Len(q) : i = Len(p) + k1
        BY <1>3, <3>1, <3>5
      <4>2. PICK k2 \in 1 .. Len(q) : j = Len(p) + k2
        BY <1>3, <3>1, <3>5
      <4>3. q[k1] = q[k2]
        BY <1>3, <3>1, <4>1, <4>2
      <4>4. k1 = k2
        BY <1>1, <4>3
      <4> QED BY <2>2, <4>1, <4>2, <4>4
    <3> QED BY <3>2, <3>3, <3>4, <3>5
  <2>3. CASE m1 = dst /\ m2 # dst
    <3>1. i \in 1 .. Len(r) /\ r[i] = order[m2][j] /\ j \in DOMAIN order[m2]
      BY <1>3, <1>4, <2>1, <2>3
    <3>2. (\E k \in 1 .. Len(p) : r[i] = p[k]) \/ (\E k \in 1 .. Len(q) : r[i] = q[k])
      BY <1>3, <3>1
    <3> QED BY <1>2, <2>1, <2>3, <3>1, <3>2
  <2>4. CASE m1 # dst /\ m2 = dst
    <3>1. j \in 1 .. Len(r) /\ r[j] = order[m1][i] /\ i \in DOMAIN order[m1]
      BY <1>3, <1>4, <2>1, <2>4
    <3>2. (\E k \in 1 .. Len(p) : r[j] = p[k]) \/ (\E k \in 1 .. Len(q) : r[j] = q[k])
      BY <1>3, <3>1
    <3> QED BY <1>2, <2>1, <2>4, <3>1, <3>2
  <2>5. CASE m1 # dst /\ m2 # dst
    BY <1>4, <2>1, <2>5 DEF IInv, Distinct
  <2> QED BY <2>2, <2>3, <2>4, <2>5
<1>11. Spells(links', dst, r)
  <2>1. /\ \A i \in 1 .. Len(p) : /\ links.after[p[i]] = IF i = Len(p) THEN NULL ELSE p[i + 1]
                                  /\ links.before[p[i]] = IF i = 1 THEN NULL ELSE p[i - 1]
        /\ \A j \in 1 .. Len(q) : /\ links.after[q[j]] = IF j = Len(q) THEN NULL ELSE q[j + 1]
                                  /\ links.before[q[j]] = IF j = 1 THEN NULL ELSE q[j - 1]
    BY <1>1 DEF Spells
  <2>2. \A i \in 1 .. Len(p) :
           /\ links'.after[p[i]] = IF i = Len(p) THEN q[1] ELSE links.after[p[i]]
           /\ links'.before[p[i]] = links.before[p[i]]
    <3> TAKE i \in 1 .. Len(p)
    <3>1. p # <<>> /\ p[i] \in Node /\ p[i] # q[1] /\ (p[i] = p[Len(p)] <=> i = Len(p))
      BY <1>1, <1>2, <1>5, <1>6, <1>7
    <3>2. /\ links'.after = [links.after EXCEPT ![p[Len(p)]] = q[1]]
          /\ links'.before = [links.before EXCEPT ![q[1]] = p[Len(p)]]
      BY <1>8, <3>1
    <3> QED BY <3>1, <3>2, FieldTypes
  <2>3. \A j \in 1 .. Len(q) :
           /\ links'.after[q[j]] = links.after[q[j]]
           /\ links'.before[q[j]] = IF j = 1 THEN IF p = <<>> THEN NULL ELSE p[Len(p)]
                                    ELSE links.before[q[j]]
    <3> TAKE j \in 1 .. Len(q)
    <3>1. q[j] \in Node /\ (q[j] = q[1] <=> j = 1) /\ (p # <<>> => q[j] # p[Len(p)])
      BY <1>1, <1>2, <1>5, <1>6
    <3>2. CASE p = <<>>
      <4>1. links'.after = links.after /\ links'.before = links.before
        BY <1>8, <3>2
      <4> QED BY <2>1, <3>2, <4>1
    <3>3. CASE p # <<>>
      <4>1. /\ links'.after = [links.after EXCEPT ![p[Len(p)]] = q[1]]
            /\ links'.before = [links.before EXCEPT ![q[1]] = p[Len(p)]]
        BY <1>8, <3>3
      <4> QED BY <3>1, <3>3, <4>1, FieldTypes
    <3> QED BY <3>2, <3>3
  <2>4. links'.size[dst] = Len(r)
    BY <1>1, <1>3, <1>8, FieldTypes
  <2>5. links'.tail[dst] = q[Len(q)]
    BY <1>1, <1>8, FieldTypes
  <2>6. links'.head[dst] = IF p = <<>> THEN q[1] ELSE p[1]
    <3>1. CASE p = <<>>
      BY <1>1, <1>8, <3>1, FieldTypes
    <3>2. CASE p # <<>>
      BY <1>1, <1>6, <1>8, <3>2, FieldTypes
    <3> QED BY <3>1, <3>2
  <2>7. \A i \in 1 .. Len(p) :
           /\ links'.after[p[i]] = IF i = Len(p) THEN q[1] ELSE p[i + 1]
           /\ links'.before[p[i]] = IF i = 1 THEN NULL ELSE p[i - 1]
    BY <2>1, <2>2
  <2>8. \A j \in 1 .. Len(q) :
           /\ links'.after[q[j]] = IF j = Len(q) THEN NULL ELSE q[j + 1]
           /\ links'.before[q[j]] = IF j > 1 THEN q[j - 1]
                                    ELSE IF p = <<>> THEN NULL ELSE p[Len(p)]
    <3> TAKE j \in 1 .. Len(q)
    <3>1. j > 1 <=> j # 1
      OBVIOUS
    <3> QED BY <2>1, <2>3, <3>1
  <2>9. /\ r # <<>> /\ r[Len(r)] = q[Len(q)]
        /\ r[1] = IF p = <<>> THEN q[1] ELSE p[1]
        /\ \A i \in 1 .. Len(r) :
              /\ links'.after[r[i]] = IF i = Len(r) THEN NULL ELSE r[i + 1]
              /\ links'.before[r[i]] = IF i = 1 THEN NULL ELSE r[i - 1]
    <3>1. q # <<>> /\ Concatenated(p, q, r)
      BY DEF Migrating
    <3>2. Bridged(p, q, links'.after, links'.before)
      BY <2>7, <2>8 DEF Bridged
    <3> QED BY <1>t, <3>1, <3>2, ChainJoined
  <2> QED BY <1>3, <2>4, <2>5, <2>6, <2>9 DEF Spells
<1>12. Spells(links', src, <<>>)
  <2>1. links'.head[src] = NULL
    <3>1. CASE p = <<>>
      BY <1>1, <1>8, <3>1, FieldTypes
    <3>2. CASE p # <<>>
      BY <1>1, <1>8, <3>2, FieldTypes
    <3> QED BY <3>1, <3>2
  <2>2. links'.tail[src] = NULL /\ links'.size[src] = 0
    BY <1>1, <1>8, FieldTypes
  <2> QED BY <2>1, <2>2 DEF Spells
<1>13. ASSUME NEW m \in List \ {dst, src} PROVE Spells(links', m, order[m])
  <2>1. Spells(links, m, order[m])
    BY ListFacts
  <2>2. links'.head[m] = links.head[m]
    <3>1. CASE p = <<>>
      BY <1>8, <3>1, FieldTypes
    <3>2. CASE p # <<>>
      BY <1>8, <3>2, FieldTypes
    <3> QED BY <3>1, <3>2
  <2>3. links'.tail[m] = links.tail[m] /\ links'.size[m] = links.size[m]
    BY <1>8, FieldTypes
  <2>4. \A i \in DOMAIN order[m] : /\ order[m][i] \in Node /\ order[m][i] # q[1]
                                   /\ p # <<>> => order[m][i] # p[Len(p)]
    BY <1>1, <1>2, <1>5, <1>6
  <2>5. \A i \in DOMAIN order[m] : /\ links'.after[order[m][i]] = links.after[order[m][i]]
                                   /\ links'.before[order[m][i]] = links.before[order[m][i]]
    <3>1. CASE p = <<>>
      BY <1>8, <3>1
    <3>2. CASE p # <<>>
      BY <1>8, <2>4, <3>2, FieldTypes
    <3> QED BY <3>1, <3>2
  <2> QED BY <2>1, <2>2, <2>3, <2>5, SameSpelling
<1>14. ASSUME NEW x \in Node, Free(x)'
       PROVE  links'.after[x] = NULL /\ links'.before[x] = NULL
  <2>1. \A i \in 1 .. Len(r) : r[i] # x
    BY <1>3, <1>4, <1>14 DEF Free, In
  <2>2. Free(x)
    <3>1. (\A i \in 1 .. Len(p) : p[i] # x) /\ (\A j \in 1 .. Len(q) : q[j] # x)
      BY <1>3, <2>1
    <3> QED BY <1>1, <1>4, <1>14, <3>1 DEF Free, In
  <2>3. x # q[1] /\ (p # <<>> => x # p[Len(p)])
    BY <1>1, <1>5, <1>6, <2>2 DEF Free, In
  <2>4. links'.after[x] = links.after[x] /\ links'.before[x] = links.before[x]
    <3>1. CASE p = <<>>
      BY <1>8, <3>1
    <3>2. CASE p # <<>>
      BY <1>8, <2>3, <3>2, FieldTypes
    <3> QED BY <3>1, <3>2
  <2> QED BY <2>2, <2>4 DEF IInv, LinksSpellOrder
<1>15. LinksSpellOrder'
  BY <1>4, <1>11, <1>12, <1>13, <1>14 DEF LinksSpellOrder
<1> QED BY <1>9, <1>10, <1>15 DEF IInv

\* ev_list_migrate, of an empty list too.
LEMMA MigrateKeeps ==
    ASSUME IInv, NEW dst \in List, NEW src \in List, CallMigrate(dst, src)
    PROVE  IInv'
<1>1. order[dst] \in Seq(Node) /\ order[src] \in Seq(Node)
  BY ListFacts
<1>2. CASE order[src] = <<>>
  <2>1. links' = links
    BY <1>2, EndsOf DEF CallMigrate, Migrate
  <2>2. order[dst] \o order[src] = order[dst]
    BY <1>1, <1>2, ConcatEmptySeq
  <2>3. order' = [order EXCEPT ![dst] = order[dst], ![src] = order[src]]
    BY <1>2, <2>2 DEF CallMigrate
  <2>4. order' = order
    BY <2>3 DEF IInv, Typed
  <2> QED BY <2>1, <2>4 DEF IInv, Typed, Distinct, LinksSpellOrder, Free, In
<1>3. CASE order[src] # <<>>
  <2>1. Concatenated(order[dst], order[src], order[dst] \o order[src])
    BY <1>1, Joined
  <2>2. Migrating(dst, src, order[dst], order[src], order[dst] \o order[src])
    BY <1>3, <2>1 DEF CallMigrate, Migrating
  <2> QED BY <2>2, MigrateJoins
<1> QED BY <1>2, <1>3
-----------------------------------------------------------------------------
(***************************************************************************)
(* Every call keeps IInv.                                                  *)
(***************************************************************************)

\* Append and <<n>> \o q put a node behind the last one and before the first.
LEMMA EndsInsert ==
    ASSUME NEW q \in Seq(Node), NEW n \in Node
    PROVE  Inserted(q, Append(q, n), Len(q) + 1, n) /\ Inserted(q, <<n>> \o q, 1, n)
<1>1. Len(q) \in Nat
  BY LenProperties
<1>2. Inserted(q, Append(q, n), Len(q) + 1, n)
  <2> DEFINE r == Append(q, n)
  <2>1. /\ r \in Seq(Node) /\ Len(r) = Len(q) + 1 /\ r[Len(q) + 1] = n
        /\ \A i \in 1 .. Len(q) : r[i] = q[i]
    BY AppendProperties
  <2> HIDE DEF r
  <2>2. ASSUME NEW i \in 1 .. (Len(q) + 1)
        PROVE  r[i] = IF i < Len(q) + 1 THEN q[i] ELSE IF i = Len(q) + 1 THEN n ELSE q[i - 1]
    <3>1. i < Len(q) + 1 => i \in 1 .. Len(q)
      BY <1>1
    <3>2. ~(i < Len(q) + 1) => i = Len(q) + 1
      BY <1>1
    <3> QED BY <2>1, <3>1, <3>2
  <2>3. Inserted(q, r, Len(q) + 1, n)
    BY <2>1, <2>2 DEF Inserted
  <2> QED BY <2>3 DEF r
<1>3. Inserted(q, <<n>> \o q, 1, n)
  <2> DEFINE r == <<n>> \o q
  <2>1. <<n>> \in Seq(Node) /\ Len(<<n>>) = 1 /\ <<n>>[1] = n
    OBVIOUS
  <2>2. /\ r \in Seq(Node) /\ Len(r) = 1 + Len(q)
        /\ \A i \in 1 .. (1 + Len(q)) : r[i] = IF i <= 1 THEN n ELSE q[i - 1]
    BY <2>1, ConcatProperties
  <2> HIDE DEF r
  <2>3. ASSUME NEW i \in 1 .. (Len(q) + 1)
        PROVE  r[i] = IF i < 1 THEN q[i] ELSE IF i = 1 THEN n ELSE q[i - 1]
    <3>1. i \in 1 .. (1 + Len(q)) /\ ~(i < 1) /\ (i <= 1 <=> i = 1)
      BY <1>1
    <3> QED BY <2>2, <3>1
  <2>4. Len(r) = Len(q) + 1
    BY <1>1, <2>2
  <2>5. Inserted(q, r, 1, n)
    BY <2>2, <2>3, <2>4 DEF Inserted
  <2> QED BY <2>5 DEF r
<1> QED BY <1>2, <1>3

\* The tail of a sequence is what is left without its first element.
LEMMA TailRemoves ==
    ASSUME NEW q \in Seq(Node), q # <<>>
    PROVE  Removed(q, Tail(q), 1)
<1>1. Len(q) \in Nat
  BY LenProperties
<1>2. /\ Tail(q) \in Seq(Node) /\ Len(Tail(q)) = Len(q) - 1
      /\ \A i \in 1 .. Len(Tail(q)) : Tail(q)[i] = q[i + 1]
  BY HeadTailProperties
<1>3. ASSUME NEW i \in 1 .. (Len(q) - 1)
      PROVE  Tail(q)[i] = IF i < 1 THEN q[i] ELSE q[i + 1]
  <2>1. ~(i < 1)
    BY <1>1
  <2> QED BY <1>2, <2>1
<1> QED BY <1>2, <1>3 DEF Removed

\* ev_list_push_back and ev_list_push_front.
LEMMA PushKeeps ==
    ASSUME IInv, NEW l \in List, NEW n \in Node,
           CallPushBack(l, n) \/ CallPushFront(l, n)
    PROVE  IInv'
<1>1. order[l] \in Seq(Node) /\ Len(order[l]) \in Nat
  BY ListFacts
<1>2. 1 \in 1 .. (Len(order[l]) + 1) /\ Len(order[l]) + 1 \in 1 .. (Len(order[l]) + 1)
  BY <1>1
<1>3. CASE CallPushBack(l, n)
  <2>1. /\ Free(n) /\ links' = PushBack(links, l, n)
        /\ order' = [order EXCEPT ![l] = Append(order[l], n)]
    BY <1>3 DEF CallPushBack
  <2>2. LinkedAt(l, Len(order[l]) + 1, n)
    BY <2>1, PushBackLinks
  <2>3. Inserted(order[l], Append(order[l], n), Len(order[l]) + 1, n)
    BY <1>1, EndsInsert
  <2> QED BY <1>2, <2>1, <2>2, <2>3, LinkKeeps
<1>4. CASE CallPushFront(l, n)
  <2>1. /\ Free(n) /\ links' = PushFront(links, l, n)
        /\ order' = [order EXCEPT ![l] = <<n>> \o order[l]]
    BY <1>4 DEF CallPushFront
  <2>2. LinkedAt(l, 1, n)
    BY <2>1, PushFrontLinks
  <2>3. Inserted(order[l], <<n>> \o order[l], 1, n)
    BY <1>1, EndsInsert
  <2> QED BY <1>2, <2>1, <2>2, <2>3, LinkKeeps
<1> QED BY <1>3, <1>4

\* ev_list_insert_before and ev_list_insert_after.
LEMMA InsertKeeps ==
    ASSUME IInv, NEW l \in List, NEW i \in DOMAIN order[l], NEW n \in Node,
           CallInsertBefore(l, i, n) \/ CallInsertAfter(l, i, n)
    PROVE  IInv'
<1>1. order[l] \in Seq(Node) /\ Len(order[l]) \in Nat /\ i \in 1 .. Len(order[l])
  BY ListFacts
<1>2. i \in 1 .. (Len(order[l]) + 1) /\ i + 1 \in 1 .. (Len(order[l]) + 1)
  BY <1>1
<1>3. CASE CallInsertBefore(l, i, n)
  <2>1. /\ Free(n) /\ links' = InsertBefore(links, l, order[l][i], n)
        /\ order' = [order EXCEPT ![l] = PutAt(order[l], i, n)]
    BY <1>3 DEF CallInsertBefore
  <2>2. LinkedAt(l, i, n)
    BY <2>1, InsertBeforeLinks
  <2>3. Inserted(order[l], PutAt(order[l], i, n), i, n)
    BY <1>1, <1>2, PutAtInserts
  <2> QED BY <1>2, <2>1, <2>2, <2>3, LinkKeeps
<1>4. CASE CallInsertAfter(l, i, n)
  <2>1. /\ Free(n) /\ links' = InsertAfter(links, l, order[l][i], n)
        /\ order' = [order EXCEPT ![l] = PutAt(order[l], i + 1, n)]
    BY <1>4 DEF CallInsertAfter
  <2>2. LinkedAt(l, i + 1, n)
    BY <2>1, InsertAfterLinks
  <2>3. Inserted(order[l], PutAt(order[l], i + 1, n), i + 1, n)
    BY <1>1, <1>2, PutAtInserts
  <2> QED BY <1>2, <2>1, <2>2, <2>3, LinkKeeps
<1> QED BY <1>3, <1>4

\* ev_list_erase.
LEMMA EraseKeeps ==
    ASSUME IInv, NEW l \in List, NEW i \in DOMAIN order[l], CallErase(l, i)
    PROVE  IInv'
<1>1. /\ links' = EraseLink(links, l, order[l][i])
      /\ order' = [order EXCEPT ![l] = Without(order[l], i)]
  BY DEF CallErase
<1>2. UnlinkedAt(l, i)
  BY <1>1, EraseUnlinks
<1>3. Removed(order[l], Without(order[l], i), i)
  BY ListFacts, WithoutRemoves
<1> QED BY <1>1, <1>2, <1>3, UnlinkKeeps

\* ev_list_pop_front and ev_list_pop_back: nothing, or an erasure at an end.
LEMMA PopKeeps ==
    ASSUME IInv, NEW l \in List, CallPopFront(l) \/ CallPopBack(l)
    PROVE  IInv'
<1>1. order[l] \in Seq(Node) /\ order \in [List -> Seq(Node)]
  BY DEF IInv, Typed
<1>2. CASE order[l] = <<>>
  <2>1. links' = links
    BY <1>2, EndsOf DEF CallPopFront, CallPopBack, PopFront, PopBack
  <2>2. order' = order
    BY <1>1, <1>2 DEF CallPopFront, CallPopBack
  <2> QED BY <2>1, <2>2 DEF IInv, Typed, Distinct, LinksSpellOrder, Free, In
<1>3. CASE order[l] # <<>> /\ CallPopFront(l)
  <2>1. 1 \in DOMAIN order[l] /\ links.head[l] = order[l][1] /\ links.head[l] # NULL
    BY <1>3, EndsOf
  <2>2. /\ links' = EraseLink(links, l, order[l][1])
        /\ order' = [order EXCEPT ![l] = Tail(order[l])]
    BY <1>3, <2>1 DEF CallPopFront, PopFront
  <2>3. UnlinkedAt(l, 1)
    BY <2>1, <2>2, EraseUnlinks
  <2>4. Removed(order[l], Tail(order[l]), 1)
    BY <1>1, <1>3, TailRemoves
  <2> QED BY <2>1, <2>2, <2>3, <2>4, UnlinkKeeps
<1>4. CASE order[l] # <<>> /\ CallPopBack(l)
  <2>1. /\ Len(order[l]) \in DOMAIN order[l]
        /\ links.tail[l] = order[l][Len(order[l])] /\ links.tail[l] # NULL
    BY <1>4, EndsOf
  <2>2. /\ links' = EraseLink(links, l, order[l][Len(order[l])])
        /\ order' = [order EXCEPT ![l] = Without(order[l], Len(order[l]))]
    BY <1>4, <2>1 DEF CallPopBack, PopBack
  <2>3. CallErase(l, Len(order[l]))
    BY <2>2 DEF CallErase
  <2> QED BY <2>1, <2>3, EraseKeeps
<1> QED BY <1>2, <1>3, <1>4

\* All lists are empty at first.
LEMMA InitLemma == ListInit => IInv
<1> SUFFICES ASSUME ListInit PROVE IInv
  OBVIOUS
<1>1. links = EmptyLists /\ order = [l \in List |-> <<>>] /\ NULL \in Pointer
  BY DEF ListInit, Pointer
<1>2. links \in Links
  BY <1>1 DEF EmptyLists, Links
<1>3. order \in [List -> Seq(Node)] /\ \A l \in List : order[l] = <<>>
  BY <1>1, EmptySeq
<1>4. Distinct
  BY <1>3 DEF Distinct
<1>5. LinksSpellOrder
  BY <1>1, <1>3, EmptySeq DEF LinksSpellOrder, Spells, EmptyLists
<1> QED BY <1>2, <1>3, <1>4, <1>5 DEF IInv, Typed

\* No call breaks IInv.
LEMMA StepLemma == IInv /\ [ListStep]_listVars => IInv'
<1> SUFFICES ASSUME IInv, [ListStep]_listVars PROVE IInv'
  OBVIOUS
<1>1. ASSUME NEW l \in List, CallPopFront(l) \/ CallPopBack(l) PROVE IInv'
  BY <1>1, PopKeeps
<1>2. ASSUME NEW l \in List, NEW n \in Node, CallPushBack(l, n) \/ CallPushFront(l, n)
      PROVE  IInv'
  BY <1>2, PushKeeps
<1>3. ASSUME NEW l \in List, NEW i \in DOMAIN order[l], CallErase(l, i) PROVE IInv'
  BY <1>3, EraseKeeps
<1>4. ASSUME NEW l \in List, NEW i \in DOMAIN order[l], NEW n \in Node,
             CallInsertBefore(l, i, n) \/ CallInsertAfter(l, i, n)
      PROVE  IInv'
  BY <1>4, InsertKeeps
<1>5. ASSUME NEW l \in List, NEW src \in List, CallMigrate(l, src) PROVE IInv'
  BY <1>5, MigrateKeeps
<1>6. CASE UNCHANGED listVars
  BY <1>6 DEF listVars, IInv, Typed, Distinct, LinksSpellOrder, Free, In
<1> QED BY <1>1, <1>2, <1>3, <1>4, <1>5, <1>6 DEF ListStep

\* Whatever calls are made, on any number of lists and nodes, the links of
\* every list spell its sequence both ways, and the links of a node that is in
\* no list are NULL (ev_list_push_back to ev_list_migrate).
THEOREM ListsSpell == ListSpec => []LinksSpellOrder
<1>1. IInv => LinksSpellOrder
  BY DEF IInv
<1> QED BY <1>1, InitLemma, StepLemma, PTL DEF ListSpec
=============================================================================
