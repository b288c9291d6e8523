---------------------------- MODULE SearchProofs ----------------------------
(***************************************************************************)
(* Proofs about SelfScript, for any bytes, keys, codes and scripts.        *)
(*                                                                         *)
(* The search is right because no shift of its two tables is too long: an  *)
(* occurrence whose window ends s bytes behind the present one would have  *)
(* made them s at most (BadCharSafe, GoodSuffixSafe).  A carried script is *)
(* found because the first probe of a compiled executable is the one that  *)
(* was put there: one that begins in the code would show that the code     *)
(* ends in a part of a probe or that the unit is a rotation of itself.     *)
(***************************************************************************)
EXTENDS SelfScript, StringSplit, CursorListProofs
-----------------------------------------------------------------------------
(***************************************************************************)
(* Least and greatest members, and sequences.                              *)
(***************************************************************************)
LEMMA LeastOfFacts ==
    ASSUME NEW T \in SUBSET Nat, T # {}
    PROVE  LeastOf(T) \in T /\ \A y \in T : LeastOf(T) <= y
BY LeastNatural DEF LeastOf

\* What the least member is, once it is known.
LEMMA LeastOfIs ==
    ASSUME NEW T \in SUBSET Nat, NEW x \in T, \A y \in T : x <= y
    PROVE  LeastOf(T) = x
<1>1. LeastOf(T) \in T /\ LeastOf(T) <= x
  BY LeastOfFacts
<1>2. LeastOf(T) \in Nat /\ x \in Nat /\ x <= LeastOf(T)
  BY <1>1
<1> QED BY <1>1, <1>2

LEMMA GreatestOfFacts ==
    ASSUME NEW n \in Nat, NEW T \in SUBSET (0 .. n), T # {}
    PROVE  GreatestOf(T) \in T /\ \A y \in T : GreatestOf(T) >= y
<1> DEFINE D == {n - y : y \in T}
<1>1. D \in SUBSET Nat /\ D # {}
  <2>1. \A y \in T : n - y \in Nat
    OBVIOUS
  <2>2. PICK y \in T : TRUE
    OBVIOUS
  <2>3. n - y \in D
    BY <2>2
  <2> QED BY <2>1, <2>3
<1>2. PICK d \in D : \A e \in D : d <= e
  BY <1>1, LeastNatural
<1>3. PICK x \in T : d = n - x
  BY <1>2
<1>4. \A y \in T : n - x <= n - y
  BY <1>2, <1>3
<1>5. \A y \in T : x >= y
  BY <1>4
<1> QED BY <1>5 DEF GreatestOf

\* The greater of two numbers is one of them.
LEMMA GreatestOfTwo ==
    ASSUME NEW a \in Int, NEW b \in Int
    PROVE  /\ GreatestOf({a, b}) \in {a, b}
           /\ GreatestOf({a, b}) >= a /\ GreatestOf({a, b}) >= b
<1>1. \E x \in {a, b} : \A y \in {a, b} : x >= y
  <2>1. CASE a >= b
    BY <2>1
  <2>2. CASE ~(a >= b)
    BY <2>2
  <2> QED BY <2>1, <2>2
<1> QED BY <1>1 DEF GreatestOf

\* An occurrence agrees with the key in every byte.
LEMMA OccurrenceIs ==
    ASSUME NEW data \in Seq(Byte), NEW key \in Seq(Byte), NEW o \in Nat
    PROVE  o \in Occurrences(data, key) <=>
              /\ o <= Len(data) - Len(key)
              /\ \A q \in 1 .. Len(key) : data[o + q] = key[q]
<1> DEFINE sub == SubSeq(data, o + 1, o + Len(key))
<1>1. CASE o <= Len(data) - Len(key)
  <2>1. /\ sub \in Seq(Byte) /\ Len(sub) = Len(key)
        /\ \A q \in 1 .. Len(key) : sub[q] = data[o + q]
    <3>1. o + 1 \in 1 .. Len(data) + 1 /\ o + Len(key) \in 0 .. Len(data)
      BY <1>1
    <3> QED BY <1>1, <3>1, SubSeqProperties
  <2>2. sub = key <=> \A q \in 1 .. Len(key) : data[o + q] = key[q]
    <3> HIDE DEF sub
    <3>1. ASSUME \A q \in 1 .. Len(key) : data[o + q] = key[q]
          PROVE  sub = key
      <4>1. \A q \in 1 .. Len(key) : sub[q] = key[q]
        BY <2>1, <3>1
      <4> QED BY <2>1, <4>1, SeqEqual
    <3> QED BY <2>1, <3>1
  <2>3. o \in 0 .. Len(data) - Len(key)
    BY <1>1
  <2> QED BY <1>1, <2>2, <2>3 DEF Occurrences
<1>2. CASE ~(o <= Len(data) - Len(key))
  BY <1>2 DEF Occurrences
<1> QED BY <1>1, <1>2

-----------------------------------------------------------------------------
(***************************************************************************)
(* The tables of the search.                                               *)
(***************************************************************************)

\* A window that lies in the data: how far it agrees with the key.
LEMMA AgreeingFacts ==
    ASSUME NEW data \in Seq(Byte), NEW key \in Seq(Byte),
           NEW i \in Len(key) - 1 .. Len(data) - 1
    PROVE  \E k \in 0 .. Len(key) :
              /\ k = Agreeing(data, key, i)
              /\ \A m \in 0 .. k - 1 : data[i - m + 1] = key[Len(key) - m]
              /\ k < Len(key) => data[i - k + 1] # key[Len(key) - k]
<1> PICK n \in Nat : n = Len(key)
  OBVIOUS
<1> DEFINE T == {m \in 0 .. n : m = n \/ data[i - m + 1] # key[n - m]}
<1>1. Agreeing(data, key, i) = LeastOf(T)
  BY DEF Agreeing
<1>2. T \in SUBSET Nat /\ T # {}
  <2>1. n \in T
    OBVIOUS
  <2> QED BY <2>1
<1>3. PICK k \in 0 .. n : k = Agreeing(data, key, i) /\ k \in T /\ \A m \in T : k <= m
  BY <1>1, <1>2, LeastOfFacts
<1>4. ASSUME NEW m \in 0 .. k - 1 PROVE data[i - m + 1] = key[n - m]
  <2>1. m \in 0 .. n /\ ~(k <= m)
    OBVIOUS
  <2>2. m \notin T
    BY <1>3, <2>1
  <2> QED BY <2>1, <2>2
<1>5. k < n => data[i - k + 1] # key[n - k]
  BY <1>3
<1> QED BY <1>3, <1>4, <1>5

\* The longest common suffix of the key and of its first p + 1 bytes.
LEMMA SuffixLengthRange ==
    ASSUME NEW key \in Seq(Byte), NEW p \in Nat
    PROVE  SuffixLength(key, p) \in 0 .. p
<1> DEFINE T == {i \in 0 .. p : i = p \/ key[p - i + 1] # key[Len(key) - i]}
<1>1. p \in T /\ T \in SUBSET Nat
  OBVIOUS
<1>2. LeastOf(T) \in T
  BY <1>1, LeastOfFacts
<1> QED BY <1>2 DEF SuffixLength

LEMMA SuffixLengthIs ==
    ASSUME NEW key \in Seq(Byte), NEW p \in Nat, NEW k \in 0 .. p,
           \A m \in 0 .. k - 1 : key[p - m + 1] = key[Len(key) - m],
           key[p - k + 1] # key[Len(key) - k]
    PROVE  SuffixLength(key, p) = k
<1> DEFINE T == {i \in 0 .. p : i = p \/ key[p - i + 1] # key[Len(key) - i]}
<1>1. k \in T /\ T \in SUBSET Nat
  OBVIOUS
<1>2. ASSUME NEW i \in T PROVE k <= i
  <2>1. i \notin 0 .. k - 1
    BY <1>2
  <2> QED BY <2>1
<1>3. LeastOf(T) = k
  BY <1>1, <1>2, LeastOfIs
<1> QED BY <1>3 DEF SuffixLength

\* _BINARY_BM_PreBmBc: the entry of a byte is at most the distance of any of its
\* places from the end of the key, the last byte of the key aside.
LEMMA BadCharFacts ==
    ASSUME NEW key \in Seq(Byte), key # <<>>, NEW c \in Byte
    PROVE  /\ BadChar(key)[c] \in 0 .. Len(key)
           /\ \A q \in 1 .. Len(key) - 1 : key[q] = c => BadChar(key)[c] <= Len(key) - q
<1> PICK n \in Nat : n = Len(key)
  OBVIOUS
<1> DEFINE at == {i \in 1 .. n - 1 : key[i] = c}
<1>1. BadChar(key)[c] = IF at = {} THEN n ELSE n - GreatestOf(at)
  BY DEF BadChar
<1>2. CASE at = {}
  BY <1>1, <1>2
<1>3. CASE at # {}
  <2>1. at \in SUBSET (0 .. n)
    OBVIOUS
  <2>2. GreatestOf(at) \in at /\ \A q \in at : GreatestOf(at) >= q
    BY <1>3, <2>1, GreatestOfFacts
  <2>3. ASSUME NEW q \in 1 .. n - 1, key[q] = c
        PROVE  n - GreatestOf(at) <= n - q
    <3>1. q \in at
      BY <2>3
    <3>2. GreatestOf(at) >= q /\ GreatestOf(at) \in Nat
      BY <2>1, <2>2, <3>1
    <3> QED BY <3>2
  <2>4. GreatestOf(at) \in 1 .. n - 1
    BY <2>2
  <2> QED BY <1>1, <1>3, <2>3, <2>4
<1> QED BY <1>2, <1>3

\* Where the key begins again behind a byte: at its end at the latest.
NextPrefix(key, p) == LeastOf({q \in p + 1 .. Len(key) : IsPrefixAt(key, q)})

\* The ends of the inner copies of the suffix behind byte j that is preceded by
\* another byte than key[j].
Writers(key, j) ==
    {p \in 0 .. Len(key) - 2 :
        /\ SuffixLength(key, p) = Len(key) - 1 - j
        /\ key[p - (Len(key) - 1 - j) + 1] # key[j + 1]}

LEMMA NextPrefixFacts ==
    ASSUME NEW key \in Seq(Byte), NEW j \in 0 .. Len(key) - 1
    PROVE  /\ NextPrefix(key, j) \in j + 1 .. Len(key)
           /\ \A q \in j + 1 .. Len(key) : IsPrefixAt(key, q) => NextPrefix(key, j) <= q
<1> PICK n \in Nat : n = Len(key)
  OBVIOUS
<1> DEFINE T == {q \in j + 1 .. n : IsPrefixAt(key, q)}
<1>1. n \in T
  <2>1. 1 .. Len(key) - n = {}
    OBVIOUS
  <2>2. IsPrefixAt(key, n)
    BY <2>1 DEF IsPrefixAt
  <2> QED BY <2>2
<1>2. T \in SUBSET Nat
  OBVIOUS
<1>3. LeastOf(T) \in T /\ \A q \in T : LeastOf(T) <= q
  BY <1>1, <1>2, LeastOfFacts
<1>4. NextPrefix(key, j) = LeastOf(T)
  BY DEF NextPrefix
<1> HIDE DEF T
<1>5. NextPrefix(key, j) \in T /\ \A q \in T : NextPrefix(key, j) <= q
  BY <1>3, <1>4
<1> QED BY <1>5 DEF T

LEMMA GoodSuffixIs ==
    ASSUME NEW key \in Seq(Byte), NEW j \in 0 .. Len(key) - 1
    PROVE  GoodSuffix(key)[j] =
              IF Writers(key, j) = {} THEN (Len(key) - 1 - j) + NextPrefix(key, j)
              ELSE (Len(key) - 1 - GreatestOf(Writers(key, j))) + (Len(key) - 1 - j)
BY DEF GoodSuffix, Writers, NextPrefix

\* The last write to an entry of the table is made by a copy that is long enough.
LEMMA WriterFacts ==
    ASSUME NEW key \in Seq(Byte), NEW j \in 0 .. Len(key) - 1, Writers(key, j) # {}
    PROVE  /\ GreatestOf(Writers(key, j)) \in Len(key) - 1 - j .. Len(key) - 2
           /\ \A p \in Writers(key, j) : GreatestOf(Writers(key, j)) >= p
<1> PICK n \in Nat : n = Len(key)
  OBVIOUS
<1>1. Writers(key, j) \in SUBSET (0 .. n)
  BY DEF Writers
<1>2. PICK g \in Writers(key, j) : /\ g = GreatestOf(Writers(key, j))
                                   /\ \A p \in Writers(key, j) : g >= p
  BY <1>1, GreatestOfFacts
<1>3. g \in 0 .. n - 2 /\ SuffixLength(key, g) = n - 1 - j
  BY <1>2 DEF Writers
<1>4. SuffixLength(key, g) \in 0 .. g
  BY <1>3, SuffixLengthRange
<1> QED BY <1>2, <1>3, <1>4
-----------------------------------------------------------------------------
(***************************************************************************)
(* No shift is too long, and every one moves the window on.                *)
(***************************************************************************)

\* The window ends at i and agrees with the key in its last k bytes; the key
\* occurs where the window ends s bytes further on.
Passes(data, key, i, k, s) ==
    /\ i \in Len(key) - 1 .. Len(data) - 1 /\ k = Agreeing(data, key, i) /\ k < Len(key)
    /\ s \in 1 .. Len(data) - 1 - i
    /\ i + s - (Len(key) - 1) \in Occurrences(data, key)

\* What the two windows show of the key, of n bytes.
Shows(data, key, i, k, s, n) ==
    /\ k \in 0 .. n - 1
    /\ \A m \in 0 .. k - 1 : data[i - m + 1] = key[n - m]
    /\ data[i - k + 1] # key[n - k]
    /\ \A q \in 1 .. n : key[q] = data[i + s - (n - 1) + q]

LEMMA PassesFacts ==
    ASSUME NEW data \in Seq(Byte), NEW key \in Seq(Byte), key # <<>>,
           NEW i \in Nat, NEW k \in Nat, NEW s \in Nat, Passes(data, key, i, k, s)
    PROVE  Shows(data, key, i, k, s, Len(key))
<1> PICK n \in Nat : n = Len(key)
  OBVIOUS
<1>1. i \in n - 1 .. Len(data) - 1 /\ k = Agreeing(data, key, i) /\ k < n
  BY DEF Passes
<1>2. /\ k \in 0 .. n
      /\ \A m \in 0 .. k - 1 : data[i - m + 1] = key[n - m]
      /\ data[i - k + 1] # key[n - k]
  <2>1. PICK x \in 0 .. n : /\ x = Agreeing(data, key, i)
                            /\ \A m \in 0 .. x - 1 : data[i - m + 1] = key[n - m]
                            /\ x < n => data[i - x + 1] # key[n - x]
    BY <1>1, AgreeingFacts
  <2> QED BY <1>1, <2>1
<1>3. PICK o \in Nat : o = i + s - (n - 1)
  <2>1. i + s - (n - 1) \in Nat
    BY <1>1
  <2> QED BY <2>1
<1>4. o \in Occurrences(data, key)
  BY <1>3 DEF Passes
<1>5. \A q \in 1 .. n : data[o + q] = key[q]
  BY <1>4, OccurrenceIs
<1>6. k \in 0 .. n - 1
  BY <1>1, <1>2
<1>7. Shows(data, key, i, k, s, n)
  BY <1>2, <1>3, <1>5, <1>6 DEF Shows
<1> QED BY <1>7

LEMMA BadCharSafe ==
    ASSUME NEW data \in Seq(Byte), NEW key \in Seq(Byte), key # <<>>,
           NEW i \in Nat, NEW k \in Nat, NEW s \in Nat,
           Passes(data, key, i, k, s)
    PROVE  BadChar(key)[data[i - k + 1]] - k <= s
<1> PICK n \in Nat : n = Len(key)
  OBVIOUS
<1>1. i \in n - 1 .. Len(data) - 1 /\ s \in 1 .. Len(data) - 1 - i /\ n >= 1
  BY DEF Passes
<1>2. k \in 0 .. n - 1 /\ \A q \in 1 .. n : key[q] = data[i + s - (n - 1) + q]
  <2>1. Shows(data, key, i, k, s, n)
    BY PassesFacts
  <2> QED BY <2>1 DEF Shows
<1>3. PICK c \in Byte : c = data[i - k + 1]
  <2>1. i - k + 1 \in 1 .. Len(data)
    BY <1>1, <1>2
  <2> QED BY <2>1
<1>4. BadChar(key)[c] \in 0 .. n
  BY BadCharFacts
<1>5. CASE s + k >= n
  BY <1>1, <1>2, <1>3, <1>4, <1>5
<1>6. CASE ~(s + k >= n)
  <2> PICK l \in Nat : l = Len(data)
    OBVIOUS
  <2>0. n - k - s \in 1 .. n - 1
    BY <1>1, <1>2, <1>6
  <2>1. PICK q \in 1 .. n - 1 : q = n - k - s
    BY <2>0
  <2>2. i + s - (n - 1) + q = i - k + 1 /\ n - q = k + s
    BY <1>1, <1>2, <2>1
  <2>3. key[q] = c
    BY <1>2, <1>3, <2>1, <2>2
  <2>4. BadChar(key)[c] <= n - q
    BY <2>3, BadCharFacts
  <2> QED BY <1>1, <1>2, <1>3, <1>4, <2>2, <2>4
<1> QED BY <1>5, <1>6

\* An occurrence less than the rest of the key away shows a copy of the suffix.
LEMMA PassesWriter ==
    ASSUME NEW data \in Seq(Byte), NEW key \in Seq(Byte), key # <<>>,
           NEW i \in Nat, NEW k \in Nat, NEW s \in Nat,
           Passes(data, key, i, k, s), s <= Len(key) - 1 - k
    PROVE  Len(key) - 1 - s \in Writers(key, Len(key) - 1 - k)
<1> PICK n \in Nat : n = Len(key)
  OBVIOUS
<1> PICK l \in Nat : l = Len(data)
  OBVIOUS
<1>1. i \in n - 1 .. l - 1 /\ s \in 1 .. l - 1 - i /\ n >= 1
  BY DEF Passes
<1>2. /\ k \in 0 .. n - 1
      /\ \A m \in 0 .. k - 1 : data[i - m + 1] = key[n - m]
      /\ data[i - k + 1] # key[n - k]
      /\ \A q \in 1 .. n : key[q] = data[i + s - (n - 1) + q]
  <2>1. Shows(data, key, i, k, s, n)
    BY PassesFacts
  <2> QED BY <2>1 DEF Shows
<1>3. PICK p \in Nat : p = n - 1 - s
  <2>1. n - 1 - s \in Nat
    BY <1>1, <1>2
  <2> QED BY <2>1
<1>4. k \in 0 .. p /\ p \in 0 .. n - 2
  BY <1>1, <1>2, <1>3
<1>5. ASSUME NEW m \in 0 .. k PROVE key[p - m + 1] = data[i - m + 1]
  <2>1. p - m + 1 \in 1 .. n
    BY <1>4
  <2>2. i + s - (n - 1) + (p - m + 1) = i - m + 1
    BY <1>1, <1>3
  <2> QED BY <1>2, <2>1, <2>2
<1>6. \A m \in 0 .. k - 1 : key[p - m + 1] = key[n - m]
  BY <1>2, <1>5
<1>7. key[p - k + 1] # key[n - k]
  <2>1. k \in 0 .. k
    BY <1>2
  <2> QED BY <1>2, <1>5, <2>1
<1>8. SuffixLength(key, p) = k
  BY <1>4, <1>6, <1>7, SuffixLengthIs
<1>9. PICK j \in Nat : j = n - 1 - k
  <2>1. n - 1 - k \in Nat
    BY <1>2
  <2> QED BY <2>1
<1>10. n - 1 - j = k /\ j + 1 = n - k
  BY <1>2, <1>9
<1>11. p \in Writers(key, j)
  BY <1>4, <1>7, <1>8, <1>10 DEF Writers
<1> QED BY <1>3, <1>9, <1>11

\* One further away shows that the key begins again inside the suffix.
LEMMA PassesPrefix ==
    ASSUME NEW data \in Seq(Byte), NEW key \in Seq(Byte), key # <<>>,
           NEW i \in Nat, NEW k \in Nat, NEW s \in Nat,
           Passes(data, key, i, k, s), s > Len(key) - 1 - k
    PROVE  NextPrefix(key, Len(key) - 1 - k) <= s
<1> PICK n \in Nat : n = Len(key)
  OBVIOUS
<1> PICK l \in Nat : l = Len(data)
  OBVIOUS
<1>1. i \in n - 1 .. l - 1 /\ s \in 1 .. l - 1 - i /\ n >= 1
  BY DEF Passes
<1>2. /\ k \in 0 .. n - 1
      /\ \A m \in 0 .. k - 1 : data[i - m + 1] = key[n - m]
      /\ \A q \in 1 .. n : key[q] = data[i + s - (n - 1) + q]
  <2>1. Shows(data, key, i, k, s, n)
    BY PassesFacts
  <2> QED BY <2>1 DEF Shows
<1>3. PICK j \in 0 .. n - 1 : j = n - 1 - k
  <2>1. n - 1 - k \in 0 .. n - 1
    BY <1>2
  <2> QED BY <2>1
<1>4. NextPrefix(key, j) \in j + 1 .. n
  BY NextPrefixFacts
<1>5. CASE s >= n
  BY <1>1, <1>3, <1>4, <1>5
<1>6. CASE s < n
  <2>1. s \in j + 1 .. n
    BY <1>1, <1>3, <1>6
  <2>2. ASSUME NEW x \in 1 .. n - s PROVE key[x] = key[s + x]
    <3>1. PICK m \in 0 .. k - 1 : m = n - s - x
      <4>1. n - s - x \in 0 .. k - 1
        BY <1>1, <1>2, <1>3, <1>6, <2>1
      <4> QED BY <4>1
    <3>2. key[x] = data[i + s - (n - 1) + x]
      <4>1. x \in 1 .. n
        BY <1>1, <1>6
      <4> QED BY <1>2, <4>1
    <3>3. i + s - (n - 1) + x = i - m + 1 /\ n - m = s + x
      BY <1>1, <1>6, <3>1
    <3> QED BY <1>2, <3>1, <3>2, <3>3
  <2>3. IsPrefixAt(key, s)
    BY <2>2 DEF IsPrefixAt
  <2> QED BY <1>3, <2>1, <2>3, NextPrefixFacts
<1> QED BY <1>1, <1>5, <1>6

LEMMA GoodSuffixSafe ==
    ASSUME NEW data \in Seq(Byte), NEW key \in Seq(Byte), key # <<>>,
           NEW i \in Nat, NEW k \in Nat, NEW s \in Nat,
           Passes(data, key, i, k, s)
    PROVE  GoodSuffix(key)[Len(key) - 1 - k] - k <= s
<1> PICK n \in Nat : n = Len(key)
  OBVIOUS
<1> PICK l \in Nat : l = Len(data)
  OBVIOUS
<1>1. i \in n - 1 .. l - 1 /\ s \in 1 .. l - 1 - i /\ n >= 1
  BY DEF Passes
<1>2. k \in 0 .. n - 1
  <2>1. Shows(data, key, i, k, s, n)
    BY PassesFacts
  <2> QED BY <2>1 DEF Shows
<1>3. PICK j \in 0 .. n - 1 : j = n - 1 - k
  <2>1. n - 1 - k \in 0 .. n - 1
    BY <1>2
  <2> QED BY <2>1
<1>4. n - 1 - j = k
  BY <1>2, <1>3
<1>5. GoodSuffix(key)[j] = IF Writers(key, j) = {} THEN k + NextPrefix(key, j)
                           ELSE (n - 1 - GreatestOf(Writers(key, j))) + k
  BY <1>4, GoodSuffixIs
<1>6. CASE Writers(key, j) = {}
  <2>1. ~(s <= n - 1 - k)
    BY <1>3, <1>6, PassesWriter
  <2>2. NextPrefix(key, j) <= s
    BY <1>1, <1>2, <1>3, <2>1, PassesPrefix
  <2>3. NextPrefix(key, j) \in Nat
    BY NextPrefixFacts
  <2> QED BY <1>1, <1>2, <1>3, <1>5, <1>6, <2>2, <2>3
<1>7. CASE Writers(key, j) # {}
  <2>1. PICK g \in k .. n - 2 : /\ g = GreatestOf(Writers(key, j))
                                /\ \A p \in Writers(key, j) : g >= p
    BY <1>4, <1>7, WriterFacts
  <2>2. CASE s <= n - 1 - k
    <3>1. n - 1 - s \in Writers(key, j)
      BY <1>3, <2>2, PassesWriter
    <3>2. g >= n - 1 - s
      BY <2>1, <3>1
    <3> QED BY <1>1, <1>2, <1>3, <1>5, <1>7, <2>1, <3>2
  <2>3. CASE ~(s <= n - 1 - k)
    BY <1>1, <1>2, <1>3, <1>5, <1>7, <2>1, <2>3
  <2> QED BY <2>2, <2>3
<1> QED BY <1>6, <1>7

\* How far the window moves on when k bytes agree.
Step(data, key, i) ==
    LET k == Agreeing(data, key, i)
    IN  GreatestOf({BadChar(key)[data[i - k + 1]], GoodSuffix(key)[Len(key) - 1 - k]}) - k

LEMMA StepFacts ==
    ASSUME NEW data \in Seq(Byte), NEW key \in Seq(Byte), key # <<>>,
           NEW i \in Len(key) - 1 .. Len(data) - 1, Agreeing(data, key, i) # Len(key)
    PROVE  /\ Step(data, key, i) \in Nat /\ Step(data, key, i) >= 1
           /\ \A o \in Occurrences(data, key) :
                 o + (Len(key) - 1) > i => Step(data, key, i) <= o + (Len(key) - 1) - i
<1> PICK n \in Nat : n = Len(key)
  OBVIOUS
<1> PICK l \in Nat : l = Len(data)
  OBVIOUS
<1>1. PICK k \in 0 .. n - 1 : k = Agreeing(data, key, i)
  <2>1. Agreeing(data, key, i) \in 0 .. n
    BY AgreeingFacts
  <2>2. Agreeing(data, key, i) \in 0 .. n - 1
    BY <2>1
  <2> QED BY <2>2
<1>2. PICK j \in 0 .. n - 1 : j = n - 1 - k
  <2>1. n - 1 - k \in 0 .. n - 1
    OBVIOUS
  <2> QED BY <2>1
<1>3. n - 1 - j = k
  BY <1>2
<1>4. PICK fsm \in Int : fsm = GoodSuffix(key)[j] /\ fsm - k >= 1
  <2>1. GoodSuffix(key)[j] = IF Writers(key, j) = {} THEN k + NextPrefix(key, j)
                             ELSE (n - 1 - GreatestOf(Writers(key, j))) + k
    BY <1>3, GoodSuffixIs
  <2>2. CASE Writers(key, j) = {}
    <3>1. NextPrefix(key, j) \in j + 1 .. n
      BY NextPrefixFacts
    <3>2. k + NextPrefix(key, j) \in Int /\ (k + NextPrefix(key, j)) - k >= 1
      BY <3>1
    <3> QED BY <2>1, <2>2, <3>2
  <2>3. CASE Writers(key, j) # {}
    <3>1. PICK g \in k .. n - 2 : g = GreatestOf(Writers(key, j))
      BY <1>3, <2>3, WriterFacts
    <3>2. (n - 1 - g) + k \in Int /\ ((n - 1 - g) + k) - k >= 1
      OBVIOUS
    <3> QED BY <2>1, <2>3, <3>1, <3>2
  <2> QED BY <2>2, <2>3
<1>5. PICK c \in Byte : c = data[i - k + 1]
  <2>1. i - k + 1 \in 1 .. Len(data)
    BY <1>1
  <2> QED BY <2>1
<1>6. PICK bc \in Int : bc = BadChar(key)[c]
  <2>1. BadChar(key)[c] \in 0 .. n
    BY BadCharFacts
  <2> QED BY <2>1
<1>7. PICK skip \in Int : skip = GreatestOf({bc, fsm}) /\ skip \in {bc, fsm} /\ skip >= fsm
  <2>1. GreatestOf({bc, fsm}) \in {bc, fsm} /\ GreatestOf({bc, fsm}) >= fsm
    BY GreatestOfTwo
  <2>2. GreatestOf({bc, fsm}) \in Int
    BY <2>1
  <2> QED BY <2>1, <2>2
<1>8. Step(data, key, i) = skip - k
  BY <1>1, <1>2, <1>4, <1>5, <1>6, <1>7 DEF Step
<1>9. ASSUME NEW o \in Occurrences(data, key), o + (n - 1) > i
      PROVE  skip - k <= o + (n - 1) - i
  <2>1. o \in 0 .. l - n
    BY <1>9 DEF Occurrences
  <2>2. PICK s \in 1 .. l - 1 - i : s = o + (n - 1) - i
    <3>1. o + (n - 1) - i \in 1 .. l - 1 - i
      BY <1>9, <2>1
    <3> QED BY <3>1
  <2>3. i + s - (n - 1) = o
    BY <2>1, <2>2
  <2>4. Passes(data, key, i, k, s)
    BY <1>1, <2>3 DEF Passes
  <2>5. bc - k <= s
    <3>1. i \in Nat /\ k \in Nat /\ s \in Nat
      <4>1. n >= 1
        OBVIOUS
      <4> QED BY <4>1
    <3>2. BadChar(key)[data[i - k + 1]] - k <= s
      BY <2>4, <3>1, BadCharSafe
    <3> QED BY <1>5, <1>6, <3>2
  <2>6. fsm - k <= s
    BY <1>2, <1>4, <2>4, GoodSuffixSafe
  <2> QED BY <1>7, <2>2, <2>5, <2>6
<1>10. skip - k \in Nat /\ skip - k >= 1
  BY <1>4, <1>7
<1> QED BY <1>8, <1>9, <1>10

-----------------------------------------------------------------------------
(***************************************************************************)
(* The search loop.                                                        *)
(***************************************************************************)

\* What the loop returns when the window ends r bytes before the end of the
\* data, given what it returns for windows further on.
Round(data, key, from, r) ==
    LET i == Len(data) - r
    IN  IF Agreeing(data, key, i) = Len(key) THEN i - Len(key) + 1
        ELSE IF Step(data, key, i) < r THEN from[r - Step(data, key, i)] ELSE -1

\* The first occurrence whose window ends there or further on.
NextOccurrence(data, key, r) ==
    LET ahead == {o \in Occurrences(data, key) : o + (Len(key) - 1) >= Len(data) - r}
    IN  IF ahead = {} THEN -1 ELSE LeastOf(ahead)

\* A round only uses the results of windows further on.
LEMMA RoundSame ==
    ASSUME NEW data \in Seq(Byte), NEW key \in Seq(Byte), key # <<>>,
           NEW r \in 1 .. Len(data) - (Len(key) - 1), NEW f, NEW g,
           \A x \in 1 .. r - 1 : f[x] = g[x]
    PROVE  Round(data, key, f, r) = Round(data, key, g, r)
<1> PICK n \in Nat : n = Len(key) /\ n >= 1
  OBVIOUS
<1> PICK l \in Nat : l = Len(data)
  OBVIOUS
<1>1. PICK i \in n - 1 .. l - 1 : i = l - r
  <2>1. l - r \in n - 1 .. l - 1
    OBVIOUS
  <2> QED BY <2>1
<1>2. CASE Agreeing(data, key, i) = n
  BY <1>1, <1>2 DEF Round
<1>3. CASE Agreeing(data, key, i) # n
  <2>1. PICK step \in Nat : step = Step(data, key, i) /\ step >= 1
    BY <1>3, StepFacts
  <2>2. step < r => r - step \in 1 .. r - 1
    BY <2>1
  <2>3. step < r => f[r - step] = g[r - step]
    BY <2>2
  <2> QED BY <1>1, <1>3, <2>1, <2>3 DEF Round
<1> QED BY <1>2, <1>3

\* The window shows an occurrence exactly when all of it agrees with the key.
LEMMA AgreeingWholly ==
    ASSUME NEW data \in Seq(Byte), NEW key \in Seq(Byte), key # <<>>,
           NEW i \in Len(key) - 1 .. Len(data) - 1
    PROVE  Agreeing(data, key, i) = Len(key) <=> i - Len(key) + 1 \in Occurrences(data, key)
<1> PICK n \in Nat : n = Len(key) /\ n >= 1
  OBVIOUS
<1> PICK l \in Nat : l = Len(data)
  OBVIOUS
<1>1. PICK k \in 0 .. n : /\ k = Agreeing(data, key, i)
                          /\ \A m \in 0 .. k - 1 : data[i - m + 1] = key[n - m]
                          /\ k < n => data[i - k + 1] # key[n - k]
  BY AgreeingFacts
<1>3. PICK o \in Nat : o = i - n + 1 /\ o <= l - n
  <2>1. i - n + 1 \in Nat /\ i - n + 1 <= l - n
    OBVIOUS
  <2> QED BY <2>1
<1>4. ASSUME k = n PROVE o \in Occurrences(data, key)
  <2>1. \A q \in 1 .. n : data[o + q] = key[q]
    <3>1. TAKE q \in 1 .. n
    <3>2. n - q \in 0 .. n - 1 /\ i - (n - q) + 1 = o + q /\ n - (n - q) = q
      BY <1>3
    <3> QED BY <1>1, <1>4, <3>2
  <2> QED BY <1>3, <2>1, OccurrenceIs
<1>5. ASSUME k # n, o \in Occurrences(data, key) PROVE FALSE
  <2>1. k \in 0 .. n - 1 /\ data[i - k + 1] # key[n - k]
    BY <1>1, <1>5
  <2>2. n - k \in 1 .. n /\ o + (n - k) = i - k + 1
    BY <1>3, <2>1
  <2>3. \A q \in 1 .. n : data[o + q] = key[q]
    BY <1>5, OccurrenceIs
  <2> QED BY <2>1, <2>2, <2>3
<1> QED BY <1>1, <1>3, <1>4, <1>5

\* A round finds the next occurrence if all windows further on do.
LEMMA RoundFinds ==
    ASSUME NEW data \in Seq(Byte), NEW key \in Seq(Byte), key # <<>>,
           NEW r \in 1 .. Len(data) - (Len(key) - 1), NEW f,
           \A x \in 1 .. r - 1 : f[x] = NextOccurrence(data, key, x)
    PROVE  Round(data, key, f, r) = NextOccurrence(data, key, r)
<1> PICK n \in Nat : n = Len(key) /\ n >= 1
  OBVIOUS
<1> PICK l \in Nat : l = Len(data)
  OBVIOUS
<1>1. PICK i \in n - 1 .. l - 1 : i = l - r
  <2>1. l - r \in n - 1 .. l - 1
    OBVIOUS
  <2> QED BY <2>1
<1> DEFINE Coming(x) == {o \in Occurrences(data, key) : o + (n - 1) >= l - x}
<1>2. \A x : NextOccurrence(data, key, x) = IF Coming(x) = {} THEN -1 ELSE LeastOf(Coming(x))
  BY DEF NextOccurrence
<1>3. Occurrences(data, key) \subseteq 0 .. l - n
  BY DEF Occurrences
<1>5. PICK o \in 0 .. l - n : o = i - n + 1
  <2>1. i - n + 1 \in 0 .. l - n
    OBVIOUS
  <2> QED BY <2>1
<1>6. CASE Agreeing(data, key, i) = n
  <2>2. o \in Occurrences(data, key)
    BY <1>5, <1>6, AgreeingWholly
  <2>3. o \in Coming(r) /\ Coming(r) \in SUBSET Nat /\ \A p \in Coming(r) : o <= p
    BY <1>1, <1>3, <1>5, <2>2
  <2>4. LeastOf(Coming(r)) = o
    BY <2>3, LeastOfIs
  <2>5. NextOccurrence(data, key, r) = o
    BY <1>2, <2>3, <2>4
  <2> QED BY <1>1, <1>5, <1>6, <2>5 DEF Round
<1>7. CASE Agreeing(data, key, i) # n
  <2>1. o \notin Occurrences(data, key)
    BY <1>5, <1>7, AgreeingWholly
  <2>2. PICK step \in Nat : /\ step = Step(data, key, i) /\ step >= 1
                            /\ \A p \in Occurrences(data, key) :
                                  p + (n - 1) > i => step <= p + (n - 1) - i
    BY <1>7, StepFacts
  <2>3. ASSUME NEW p \in Coming(r) PROVE p + (n - 1) >= i + step /\ p \in 0 .. l - n
    <3>1. p \in Occurrences(data, key) /\ p \in 0 .. l - n /\ p + (n - 1) >= i
      BY <1>1, <1>3
    <3>2. p # o
      BY <2>1, <3>1
    <3>3. p + (n - 1) > i
      BY <1>5, <3>1, <3>2
    <3> QED BY <2>2, <3>1, <3>3
  <2>4. CASE step < r
    <3>1. PICK x \in 1 .. r - 1 : x = r - step
      <4>1. r - step \in 1 .. r - 1
        BY <2>2, <2>4
      <4> QED BY <4>1
    <3>2. l - x = i + step
      BY <1>1, <3>1
    <3>3. Coming(r) = Coming(x)
      <4>1. Coming(r) \subseteq Coming(x)
        BY <2>3, <3>2
      <4>2. Coming(x) \subseteq Coming(r)
        BY <1>1, <1>3, <3>2
      <4> QED BY <4>1, <4>2
    <3>4. NextOccurrence(data, key, r) = f[x]
      BY <1>2, <3>3
    <3> QED BY <1>1, <1>7, <2>2, <2>4, <3>1, <3>4 DEF Round
  <2>5. CASE ~(step < r)
    <3>1. Coming(r) = {}
      <4>1. ASSUME NEW p \in Coming(r) PROVE FALSE
        BY <1>1, <2>3, <2>5
      <4> QED BY <4>1
    <3>2. NextOccurrence(data, key, r) = -1
      BY <1>2, <3>1
    <3> QED BY <1>1, <1>7, <2>2, <2>5, <3>2 DEF Round
  <2> QED BY <2>4, <2>5
<1> QED BY <1>6, <1>7

\* The recursive function exists, and finds the next occurrence from anywhere.
LEMMA LoopFinds ==
    ASSUME NEW data \in Seq(Byte), NEW key \in Seq(Byte), key # <<>>
    PROVE  \A r \in 1 .. Len(data) - (Len(key) - 1) :
              FindFrom(data, key)[r] = NextOccurrence(data, key, r)
<1> PICK last \in Int : last = Len(data) - (Len(key) - 1)
  OBVIOUS
<1> DEFINE Loop(f, m) == f = [r \in 1 .. m |-> Round(data, key, f, r)]
           Finds(f, m) == \A r \in 1 .. m : f[r] = NextOccurrence(data, key, r)
           T == {m \in Nat : m <= last => \E f : Loop(f, m)}
<1>1. Len(key) \in Nat /\ Len(key) >= 1 /\ Len(data) \in Nat /\ last \in Int
  OBVIOUS
<1>2. CASE last < 1
  BY <1>1, <1>2
<1>3. CASE last \in Nat
  <2>1. 0 \in T
    <3> DEFINE g == [r \in 1 .. 0 |-> Round(data, key, <<>>, r)]
    <3>1. Loop(g, 0)
      OBVIOUS
    <3> HIDE DEF g
    <3>2. \E f : Loop(f, 0)
      BY <3>1
    <3> QED BY <3>2
  <2>2. ASSUME NEW m \in 0 .. last - 1, m \in T PROVE m + 1 \in T
    <3>1. PICK g : Loop(g, m)
      BY <1>1, <2>2
    <3> DEFINE h == [r \in 1 .. m + 1 |-> IF r = m + 1 THEN Round(data, key, g, m + 1) ELSE g[r]]
    <3>2. /\ \A r \in 1 .. m : h[r] = g[r] /\ g[r] = Round(data, key, g, r)
          /\ h[m + 1] = Round(data, key, g, m + 1)
      <4>1. \A r \in 1 .. m : r \in 1 .. m + 1 /\ r # m + 1
        BY <1>1
      <4>2. \A r \in 1 .. m : g[r] = Round(data, key, g, r)
        BY <3>1
      <4>3. m + 1 \in 1 .. m + 1
        BY <1>1
      <4> QED BY <4>1, <4>2, <4>3
    <3>3. ASSUME NEW r \in 1 .. m + 1 PROVE h[r] = Round(data, key, h, r)
      <4>1. r \in 1 .. last /\ \A x \in 1 .. r - 1 : x \in 1 .. m
        BY <1>1
      <4> HIDE DEF h
      <4>2. \A x \in 1 .. r - 1 : g[x] = h[x]
        BY <3>2, <4>1
      <4>3. Round(data, key, g, r) = Round(data, key, h, r)
        BY <4>1, <4>2, RoundSame
      <4>4. r \in 1 .. m \/ r = m + 1
        BY <1>1
      <4> QED BY <3>2, <4>3, <4>4
    <3>4. Loop(h, m + 1)
      BY <3>3
    <3> HIDE DEF h
    <3>5. \E f : Loop(f, m + 1)
      BY <3>4
    <3> QED BY <1>1, <3>5
  <2> HIDE DEF T
  <2>3. 0 .. last \subseteq T
    BY <1>1, <1>3, <2>1, <2>2, CountUp
  <2>4. \E f : Loop(f, last)
    <3>1. last \in T /\ last <= last
      BY <1>3, <2>3
    <3> QED BY <3>1 DEF T
  <2> DEFINE from == CHOOSE f : Loop(f, last)
  <2>5. Loop(from, last)
    BY <2>4
  <2>6. FindFrom(data, key) = from
    BY DEF FindFrom, Round, Step
  <2> DEFINE U == {m \in Nat : m <= last => Finds(from, m)}
  <2> HIDE DEF from
  <2>7. 0 \in U
    OBVIOUS
  <2>8. ASSUME NEW m \in 0 .. last - 1, m \in U PROVE m + 1 \in U
    <3>1. Finds(from, m)
      BY <1>1, <2>8
    <3>2. m + 1 \in 1 .. last /\ (m + 1) - 1 = m
      BY <1>1
    <3>3. Round(data, key, from, m + 1) = NextOccurrence(data, key, m + 1)
      BY <3>1, <3>2, RoundFinds
    <3>4. from[m + 1] = Round(data, key, from, m + 1)
      BY <2>5, <3>2
    <3>5. ASSUME NEW r \in 1 .. m + 1 PROVE from[r] = NextOccurrence(data, key, r)
      <4>1. r \in 1 .. m \/ r = m + 1
        BY <1>1
      <4> QED BY <3>1, <3>3, <3>4, <4>1
    <3> QED BY <1>1, <3>5
  <2> HIDE DEF U
  <2>9. 0 .. last \subseteq U
    BY <1>1, <1>3, <2>7, <2>8, CountUp
  <2>10. Finds(from, last)
    <3>1. last \in U /\ last <= last
      BY <1>3, <2>9
    <3> QED BY <3>1 DEF U
  <2> QED BY <2>6, <2>10
<1> QED BY <1>1, <1>2, <1>3

\* The search returns the first occurrence of a key in any data (utils.c:88).
THEOREM FindIsFirst ==
    ASSUME NEW data \in Seq(Byte), NEW key \in Seq(Byte), key # <<>>
    PROVE  Find(data, key) = FirstOccurrence(data, key)
<1> PICK n \in Nat : n = Len(key) /\ n >= 1
  OBVIOUS
<1> PICK l \in Nat : l = Len(data)
  OBVIOUS
<1>1. CASE n > l
  <2>1. Find(data, key) = -1
    BY <1>1 DEF Find
  <2>2. Occurrences(data, key) = {}
    BY <1>1 DEF Occurrences
  <2> QED BY <2>1, <2>2 DEF FirstOccurrence
<1>2. CASE n <= l
  <2>1. PICK r \in 1 .. l - (n - 1) : r = l - (n - 1)
    BY <1>2
  <2>2. Find(data, key) = FindFrom(data, key)[r]
    BY <1>2, <2>1 DEF Find
  <2>3. FindFrom(data, key)[r] = NextOccurrence(data, key, r)
    BY LoopFinds
  <2>4. {o \in Occurrences(data, key) : o + (n - 1) >= l - r} = Occurrences(data, key)
    <3>1. Occurrences(data, key) \subseteq 0 .. l - n
      BY DEF Occurrences
    <3>2. \A o \in 0 .. l - n : o + (n - 1) >= l - r
      BY <2>1
    <3> QED BY <3>1, <3>2
  <2>5. NextOccurrence(data, key, r) = FirstOccurrence(data, key)
    BY <2>4 DEF NextOccurrence, FirstOccurrence
  <2> QED BY <2>2, <2>3, <2>5
<1> QED BY <1>1, <1>2

-----------------------------------------------------------------------------
(***************************************************************************)
(* The probe.                                                              *)
(***************************************************************************)
LEMMA ModuloNext ==
    ASSUME NEW x \in Nat, NEW u \in Nat, u > 0
    PROVE  (x + u) % u = x % u
<1>1. PICK a \in Nat, r \in 0 .. u - 1 : x = u * a + r /\ r = x % u
  <2>1. x = u * (x \div u) + (x % u) /\ x % u \in 0 .. u - 1
    OBVIOUS
  <2>2. x \div u \in Nat
    OBVIOUS
  <2> QED BY <2>1, <2>2
<1>2. PICK b \in Nat, s \in 0 .. u - 1 : x + u = u * b + s /\ s = (x + u) % u
  <2>1. PICK y \in Nat : y = x + u
    OBVIOUS
  <2>2. y = u * (y \div u) + (y % u) /\ y % u \in 0 .. u - 1
    OBVIOUS
  <2>3. y \div u \in Nat
    OBVIOUS
  <2> QED BY <2>1, <2>2, <2>3
<1>3. u * (a + 1) + r = u * b + s
  BY <1>1, <1>2
<1>4. ASSUME a + 1 < b PROVE FALSE
  <2>1. PICK d \in Nat : b = (a + 1) + 1 + d
    <3>1. b - (a + 1) - 1 \in Nat /\ b = (a + 1) + 1 + (b - (a + 1) - 1)
      BY <1>4
    <3> QED BY <3>1
  <2>2. u * b = u * (a + 1) + u + u * d
    BY <2>1
  <2>3. u * d \in Nat /\ u * (a + 1) \in Nat
    OBVIOUS
  <2> QED BY <1>3, <2>2, <2>3
<1>5. ASSUME b < a + 1 PROVE FALSE
  <2>1. PICK d \in Nat : a + 1 = b + 1 + d
    <3>1. (a + 1) - b - 1 \in Nat /\ a + 1 = b + 1 + ((a + 1) - b - 1)
      BY <1>5
    <3> QED BY <3>1
  <2>2. u * (a + 1) = u * b + u + u * d
    BY <2>1
  <2>3. u * d \in Nat /\ u * b \in Nat
    OBVIOUS
  <2> QED BY <1>3, <2>2, <2>3
<1>6. b = a + 1
  BY <1>4, <1>5
<1>7. r = s
  <2>1. u * b \in Nat
    OBVIOUS
  <2> QED BY <1>3, <1>6, <2>1
<1> QED BY <1>1, <1>2, <1>7

\* The probe begins with the unit and goes on as it did a unit before.
LEMMA ProbeFacts ==
    /\ Probe \in Seq(Byte)
    /\ Len(Unit) \in Nat /\ Len(Unit) >= 1
    /\ Len(Probe) \in Nat /\ Len(Probe) >= 2 * Len(Unit)
    /\ \A i \in 1 .. Len(Unit) : Probe[i] = Unit[i]
    /\ \A i \in 1 .. Len(Probe) - Len(Unit) : Probe[i + Len(Unit)] = Probe[i]
<1> PICK u \in Nat : u = Len(Unit) /\ u >= 1
  BY UnitAssumption
<1> PICK n \in Nat : n = Repeats * u /\ n >= 2 * u
  <2>1. PICK d \in Nat : Repeats = 2 + d
    <3>1. Repeats - 2 \in Nat /\ Repeats = 2 + (Repeats - 2)
      BY UnitAssumption
    <3> QED BY <3>1
  <2>2. Repeats * u = 2 * u + d * u /\ d * u \in Nat
    BY <2>1
  <2>3. Repeats * u \in Nat /\ Repeats * u >= 2 * u
    BY <2>2
  <2> QED BY <2>3
<1>1. \A i \in 1 .. n : i - 1 \in Nat /\ ((i - 1) % u) + 1 \in 1 .. u
  OBVIOUS
<1>2. \A j \in 1 .. u : Unit[j] \in Byte
  BY UnitAssumption
<1>3. Probe = [i \in 1 .. n |-> Unit[((i - 1) % u) + 1]]
  BY DEF Probe
<1>4. Probe \in Seq(Byte) /\ Len(Probe) = n
  <2>1. \A i \in 1 .. n : Unit[((i - 1) % u) + 1] \in Byte
    BY <1>1, <1>2
  <2> QED BY <1>3, <2>1
<1>5. ASSUME NEW i \in 1 .. u PROVE Probe[i] = Unit[i]
  <2>1. i - 1 \in Nat /\ i - 1 < u /\ i \in 1 .. n
    OBVIOUS
  <2>2. (i - 1) % u = i - 1
    BY <2>1
  <2> QED BY <1>3, <2>1, <2>2
<1>6. ASSUME NEW i \in 1 .. n - u PROVE Probe[i + u] = Probe[i]
  <2>1. PICK x \in Nat : x = i - 1
    OBVIOUS
  <2>2. (x + u) % u = x % u
    <3>1. u > 0
      OBVIOUS
    <3> QED BY <3>1, ModuloNext
  <2>3. i \in 1 .. n /\ i + u \in 1 .. n /\ (i + u) - 1 = x + u
    BY <2>1
  <2> QED BY <1>3, <2>1, <2>2, <2>3
<1> QED BY <1>4, <1>5, <1>6

\* A sequence that agrees with the end of another one is a suffix of it.
LEMMA SuffixIs ==
    ASSUME NEW p \in Seq(Byte), NEW c \in Seq(Byte), Len(p) <= Len(c),
           \A q \in 1 .. Len(p) : p[q] = c[Len(c) - Len(p) + q]
    PROVE  IsSuffix(p, c)
<1> PICK m \in Nat : m = Len(p)
  OBVIOUS
<1> PICK l \in Nat : l = Len(c) /\ m <= l
  OBVIOUS
<1> DEFINE rp == Reverse(p)
           rc == Reverse(c)
<1>1. /\ rp \in Seq(Byte) /\ Len(rp) = m
      /\ \A i \in 1 .. m : rp[i] = p[(m - i) + 1]
  <2>1. \A i \in 1 .. m : (m - i) + 1 \in 1 .. m
    OBVIOUS
  <2>2. \A i \in 1 .. m : p[(m - i) + 1] \in Byte
    BY <2>1
  <2> QED BY <2>2 DEF Reverse
<1>2. /\ rc \in Seq(Byte) /\ Len(rc) = l
      /\ \A i \in 1 .. l : rc[i] = c[(l - i) + 1]
  <2>1. \A i \in 1 .. l : (l - i) + 1 \in 1 .. l
    OBVIOUS
  <2>2. \A i \in 1 .. l : c[(l - i) + 1] \in Byte
    BY <2>1
  <2> QED BY <2>2 DEF Reverse
<1>3. ASSUME NEW i \in 1 .. m PROVE rp[i] = rc[i]
  <2>1. (m - i) + 1 \in 1 .. m /\ l - m + ((m - i) + 1) = (l - i) + 1 /\ i \in 1 .. l
    OBVIOUS
  <2>2. p[(m - i) + 1] = c[(l - i) + 1]
    BY <2>1
  <2> QED BY <1>1, <1>2, <2>1, <2>2
<1> HIDE DEF rp, rc
<1>4. SubSeq(rp, 1, m) = SubSeq(rc, 1, m)
  <2>1. \A i \in 1 .. m : i \in 1 .. l
    OBVIOUS
  <2>2. \A i \in 1 .. m : rp[i] \in Byte /\ rc[i] \in Byte
    BY <1>1, <1>2, <2>1
  <2>3. /\ SubSeq(rp, 1, m) \in Seq(Byte) /\ Len(SubSeq(rp, 1, m)) = m
        /\ \A i \in 1 .. m : SubSeq(rp, 1, m)[i] = rp[i]
    BY <2>2, SubSeqProperties
  <2>4. /\ SubSeq(rc, 1, m) \in Seq(Byte) /\ Len(SubSeq(rc, 1, m)) = m
        /\ \A i \in 1 .. m : SubSeq(rc, 1, m)[i] = rc[i]
    BY <2>2, SubSeqProperties
  <2> QED BY <1>3, <2>3, <2>4, SeqEqual
<1>5. IsPrefix(rp, rc)
  BY <1>1, <1>2, <1>4 DEF IsPrefix
<1> QED BY <1>5 DEF IsSuffix, rp, rc

\* An executable that was compiled: code, probe and script.
Compiled(c, s) == c \o Probe \o s

LEMMA CompiledFacts ==
    ASSUME NEW c \in Seq(Byte), NEW s \in Seq(Byte)
    PROVE  /\ Compiled(c, s) \in Seq(Byte)
           /\ Len(Compiled(c, s)) = Len(c) + Len(Probe) + Len(s)
           /\ \A i \in 1 .. Len(c) : Compiled(c, s)[i] = c[i]
           /\ \A i \in 1 .. Len(Probe) : Compiled(c, s)[Len(c) + i] = Probe[i]
           /\ \A i \in 1 .. Len(s) : Compiled(c, s)[Len(c) + Len(Probe) + i] = s[i]
<1> PICK l \in Nat : l = Len(c)
  OBVIOUS
<1> PICK n \in Nat : n = Len(Probe)
  BY ProbeFacts
<1> PICK k \in Nat : k = Len(s)
  OBVIOUS
<1> DEFINE cp == c \o Probe
<1>1. /\ cp \in Seq(Byte) /\ Len(cp) = l + n
      /\ \A i \in 1 .. l + n : cp[i] = IF i <= l THEN c[i] ELSE Probe[i - l]
  BY ProbeFacts, ConcatProperties
<1> HIDE DEF cp
<1>2. /\ cp \o s \in Seq(Byte) /\ Len(cp \o s) = l + n + k
      /\ \A i \in 1 .. l + n + k : (cp \o s)[i] = IF i <= l + n THEN cp[i] ELSE s[i - (l + n)]
  <2>1. /\ cp \o s \in Seq(Byte) /\ Len(cp \o s) = Len(cp) + Len(s)
        /\ \A i \in 1 .. Len(cp) + Len(s) :
              (cp \o s)[i] = IF i <= Len(cp) THEN cp[i] ELSE s[i - Len(cp)]
    <3>1. cp \in Seq(Byte)
      BY <1>1
    <3> QED BY <3>1, ConcatProperties
  <2>2. Len(cp) = l + n /\ Len(s) = k
    BY <1>1
  <2> QED BY <2>1, <2>2
<1>3. Compiled(c, s) = cp \o s
  BY DEF Compiled, cp
<1>4. \A i \in 1 .. l : (cp \o s)[i] = c[i]
  BY <1>1, <1>2
<1>5. \A i \in 1 .. n : (cp \o s)[l + i] = Probe[i]
  BY <1>1, <1>2
<1>6. \A i \in 1 .. k : (cp \o s)[l + n + i] = s[i]
  BY <1>2
<1> QED BY <1>2, <1>3, <1>4, <1>5, <1>6

\* The first probe of a compiled executable is the one behind its code: another
\* one would begin in the code, and the code does not hold one, nor end in as
\* much as a unit of one; and less than a unit would rotate the unit.
LEMMA FirstProbe ==
    ASSUME NEW c \in Code, NEW s \in Seq(Byte)
    PROVE  FirstOccurrence(Compiled(c, s), Probe) = Len(c)
<1> PICK l \in Nat : l = Len(c) /\ c \in Seq(Byte) /\ l >= 1
  BY CodeAssumption
<1> PICK u \in Nat : u = Len(Unit) /\ u >= 1
  BY ProbeFacts
<1> PICK n \in Nat : n = Len(Probe) /\ n >= 2 * u
  BY ProbeFacts
<1> PICK k \in Nat : k = Len(s)
  OBVIOUS
<1> PICK file \in Seq(Byte) : file = Compiled(c, s)
  BY CompiledFacts
<1>1. /\ Len(file) = l + n + k
      /\ \A i \in 1 .. l : file[i] = c[i]
      /\ \A i \in 1 .. n : file[l + i] = Probe[i]
  <2>1. /\ Len(file) = Len(c) + Len(Probe) + Len(s)
        /\ \A i \in 1 .. Len(c) : file[i] = c[i]
        /\ \A i \in 1 .. Len(Probe) : file[Len(c) + i] = Probe[i]
    <3>1. /\ Len(Compiled(c, s)) = Len(c) + Len(Probe) + Len(s)
          /\ \A i \in 1 .. Len(c) : Compiled(c, s)[i] = c[i]
          /\ \A i \in 1 .. Len(Probe) : Compiled(c, s)[Len(c) + i] = Probe[i]
      BY CompiledFacts
    <3> QED BY <3>1
  <2> QED BY <2>1
<1>2. l \in Occurrences(file, Probe)
  <2>1. l <= Len(file) - n
    BY <1>1
  <2> QED BY <1>1, <2>1, OccurrenceIs, ProbeFacts
<1>3. ASSUME NEW o \in Occurrences(file, Probe), o < l PROVE FALSE
  <2>1. o \in Nat
    BY <1>3 DEF Occurrences
  <2>2. \A q \in 1 .. n : file[o + q] = Probe[q]
    BY <2>1, OccurrenceIs, ProbeFacts
  <2>3. PICK m \in Nat : m = l - o /\ m >= 1
    <3>1. l - o \in Nat /\ l - o >= 1
      BY <1>3, <2>1
    <3> QED BY <3>1
  <2>4. CASE m >= n
    <3>1. o <= l - n
      BY <2>1, <2>3, <2>4
    <3>2. \A q \in 1 .. n : o + q \in 1 .. l
      BY <2>1, <3>1
    <3>3. \A q \in 1 .. n : c[o + q] = Probe[q]
      BY <1>1, <2>2, <3>2
    <3>4. o \in Occurrences(c, Probe)
      BY <2>1, <3>1, <3>3, OccurrenceIs, ProbeFacts
    <3> QED BY <3>4, CodeAssumption
  <2>5. CASE m < n /\ m >= u
    <3>1. \A i \in 1 .. m : i \in 1 .. n
      BY <2>5
    <3>2. \A i \in 1 .. m : Probe[i] \in Byte
      BY <3>1, ProbeFacts
    <3>3. PICK p \in Seq(Byte) : /\ p = SubSeq(Probe, 1, m) /\ Len(p) = m
                                 /\ \A i \in 1 .. m : p[i] = Probe[i]
      <4>1. /\ SubSeq(Probe, 1, m) \in Seq(Byte)
            /\ Len(SubSeq(Probe, 1, m)) = IF 1 <= m THEN m - 1 + 1 ELSE 0
            /\ \A i \in 1 .. m - 1 + 1 : SubSeq(Probe, 1, m)[i] = Probe[1 + i - 1]
        BY <3>2, SubSeqProperties
      <4>2. Len(SubSeq(Probe, 1, m)) = m
        BY <2>3, <4>1
      <4>3. \A i \in 1 .. m : SubSeq(Probe, 1, m)[i] = Probe[i]
        BY <4>1
      <4> QED BY <4>1, <4>2, <4>3
    <3>4. ASSUME NEW q \in 1 .. m PROVE p[q] = c[l - m + q]
      <4>1. l - m + q = o + q /\ o + q \in 1 .. l /\ q \in 1 .. n
        BY <2>1, <2>3, <2>5
      <4> QED BY <1>1, <2>2, <3>3, <4>1
    <3>5. m <= l
      BY <2>1, <2>3
    <3>6. IsSuffix(p, c)
      BY <3>3, <3>4, <3>5, SuffixIs
    <3>7. m \in u .. n - 1
      BY <2>5
    <3> QED BY <3>3, <3>6, <3>7, CodeAssumption
  <2>6. CASE m < u
    <3>1. ASSUME NEW q \in 1 .. u PROVE Probe[m + q] = Unit[q]
      <4>1. m + q \in 1 .. n /\ q \in 1 .. n /\ o + (m + q) = l + q
        BY <2>1, <2>3, <2>6
      <4>2. file[l + q] = Probe[q] /\ file[l + q] = Probe[m + q]
        BY <1>1, <2>2, <4>1
      <4> QED BY <4>2, ProbeFacts
    <3> DEFINE head == SubSeq(Unit, 1, m)
               tail == SubSeq(Unit, m + 1, u)
    <3>2. Unit \in Seq(Byte) /\ \A q \in 1 .. u : Unit[q] \in Byte
      BY UnitAssumption
    <3>3. head \in Seq(Byte) /\ Len(head) = m /\ \A q \in 1 .. m : head[q] = Unit[q]
      <4>1. \A q \in 1 .. m : Unit[q] \in Byte
        BY <2>6, <3>2
      <4> QED BY <2>3, <4>1, SubSeqProperties
    <3>4. tail \in Seq(Byte) /\ Len(tail) = u - m /\ \A q \in 1 .. u - m : tail[q] = Unit[m + q]
      <4>1. \A q \in m + 1 .. u : Unit[q] \in Byte
        BY <3>2
      <4>2. /\ tail \in Seq(Byte)
            /\ Len(tail) = IF m + 1 <= u THEN u - (m + 1) + 1 ELSE 0
            /\ \A q \in 1 .. u - (m + 1) + 1 : tail[q] = Unit[(m + 1) + q - 1]
        BY <4>1, SubSeqProperties
      <4>3. \A q \in 1 .. u - m : (m + 1) + q - 1 = m + q
        OBVIOUS
      <4> QED BY <2>6, <4>2, <4>3
    <3>5. Rotated(Unit, m) = tail \o head
      BY DEF Rotated
    <3> HIDE DEF head, tail
    <3>6. /\ tail \o head \in Seq(Byte) /\ Len(tail \o head) = u
          /\ \A q \in 1 .. u : (tail \o head)[q] = IF q <= u - m THEN tail[q]
                                                   ELSE head[q - (u - m)]
      <4>1. /\ tail \o head \in Seq(Byte) /\ Len(tail \o head) = Len(tail) + Len(head)
            /\ \A q \in 1 .. Len(tail) + Len(head) :
                  (tail \o head)[q] = IF q <= Len(tail) THEN tail[q] ELSE head[q - Len(tail)]
        BY <3>3, <3>4, ConcatProperties
      <4>2. Len(tail) = u - m /\ Len(tail) + Len(head) = u
        BY <2>6, <3>3, <3>4
      <4> QED BY <4>1, <4>2
    <3>7. ASSUME NEW q \in 1 .. u PROVE (tail \o head)[q] = Unit[q]
      <4>1. CASE q <= u - m
        <5>1. m + q \in 1 .. u /\ q \in 1 .. u - m
          BY <2>6, <4>1
        <5>2. (tail \o head)[q] = Unit[m + q]
          BY <3>4, <3>6, <4>1, <5>1
        <5>3. Probe[m + q] = Unit[m + q]
          BY <5>1, ProbeFacts
        <5> QED BY <3>1, <5>2, <5>3
      <4>2. CASE ~(q <= u - m)
        <5>1. PICK x \in 1 .. m : x = q - (u - m)
          <6>1. q - (u - m) \in 1 .. m
            BY <2>6, <4>2
          <6> QED BY <6>1
        <5>2. x \in 1 .. u /\ x \in 1 .. n - u /\ x + u = m + q
          BY <2>6, <5>1
        <5>3. (tail \o head)[q] = Unit[x]
          BY <3>3, <3>6, <4>2, <5>1
        <5>4. Probe[x + u] = Probe[x] /\ Probe[x] = Unit[x]
          BY <5>2, ProbeFacts
        <5> QED BY <3>1, <5>2, <5>3, <5>4
      <4> QED BY <4>1, <4>2
    <3>8. tail \o head = Unit
      BY <3>2, <3>6, <3>7, SeqEqual
    <3>9. m \in 1 .. u - 1
      BY <2>3, <2>6
    <3> QED BY <3>5, <3>8, <3>9, UnitAssumption
  <2> QED BY <2>3, <2>4, <2>5, <2>6
<1>4. Occurrences(file, Probe) \in SUBSET Nat
  BY DEF Occurrences
<1>5. \A o \in Occurrences(file, Probe) : l <= o
  BY <1>3, <1>4
<1>6. LeastOf(Occurrences(file, Probe)) = l
  BY <1>2, <1>4, <1>5, LeastOfIs
<1> QED BY <1>2, <1>6 DEF FirstOccurrence

LEMMA FindProbe ==
    ASSUME NEW file \in Seq(Byte)
    PROVE  Find(file, Probe) = FirstOccurrence(file, Probe)
<1>1. Probe \in Seq(Byte) /\ Probe # <<>>
  BY ProbeFacts
<1> QED BY <1>1, FindIsFirst

\* What is read from an executable without a script, and from one with a script.
LEMMA ReadCode ==
    ASSUME NEW c \in Code
    PROVE  SelfScript(c) = NoScript /\ SelfCode(c) = c
<1>1. c \in Seq(Byte) /\ Occurrences(c, Probe) = {}
  BY CodeAssumption
<1>2. Find(c, Probe) = -1
  BY <1>1, FindProbe DEF FirstOccurrence
<1> QED BY <1>2 DEF SelfScript, SelfCode

LEMMA ReadCompiled ==
    ASSUME NEW c \in Code, NEW s \in Seq(Byte)
    PROVE  SelfScript(Compiled(c, s)) = s /\ SelfCode(Compiled(c, s)) = c
<1> PICK l \in Nat : l = Len(c) /\ c \in Seq(Byte) /\ l >= 1
  BY CodeAssumption
<1> PICK n \in Nat : n = Len(Probe)
  BY ProbeFacts
<1> PICK k \in Nat : k = Len(s)
  OBVIOUS
<1> PICK file \in Seq(Byte) : file = Compiled(c, s)
  BY CompiledFacts
<1>1. /\ Len(file) = l + n + k
      /\ \A i \in 1 .. l : file[i] = c[i]
      /\ \A i \in 1 .. k : file[l + n + i] = s[i]
  <2>1. /\ Len(Compiled(c, s)) = Len(c) + Len(Probe) + Len(s)
        /\ \A i \in 1 .. Len(c) : Compiled(c, s)[i] = c[i]
        /\ \A i \in 1 .. Len(s) : Compiled(c, s)[Len(c) + Len(Probe) + i] = s[i]
    BY CompiledFacts
  <2> QED BY <2>1
<1>2. Find(file, Probe) = l
  BY FindProbe, FirstProbe
<1>3. SubSeq(file, l + n + 1, l + n + k) = s
  <2> DEFINE rest == SubSeq(file, l + n + 1, l + n + k)
  <2>1. \A i \in l + n + 1 .. l + n + k : file[i] \in Byte
    BY <1>1
  <2>2. /\ rest \in Seq(Byte)
        /\ Len(rest) = IF l + n + 1 <= l + n + k THEN l + n + k - (l + n + 1) + 1 ELSE 0
        /\ \A i \in 1 .. l + n + k - (l + n + 1) + 1 : rest[i] = file[(l + n + 1) + i - 1]
    BY <2>1, SubSeqProperties
  <2> HIDE DEF rest
  <2>3. Len(rest) = k
    BY <2>2
  <2>4. ASSUME NEW i \in 1 .. k PROVE rest[i] = s[i]
    <3>1. i \in 1 .. l + n + k - (l + n + 1) + 1 /\ (l + n + 1) + i - 1 = l + n + i
      OBVIOUS
    <3> QED BY <1>1, <2>2, <3>1
  <2>5. rest = s
    BY <2>2, <2>3, <2>4, SeqEqual
  <2> QED BY <2>5 DEF rest
<1>4. SubSeq(file, 1, l) = c
  <2> DEFINE code == SubSeq(file, 1, l)
  <2>1. \A i \in 1 .. l : file[i] \in Byte
    BY <1>1
  <2>2. /\ code \in Seq(Byte) /\ Len(code) = IF 1 <= l THEN l - 1 + 1 ELSE 0
        /\ \A i \in 1 .. l - 1 + 1 : code[i] = file[1 + i - 1]
    BY <2>1, SubSeqProperties
  <2> HIDE DEF code
  <2>3. Len(code) = l
    BY <2>2
  <2>4. ASSUME NEW i \in 1 .. l PROVE code[i] = c[i]
    <3>1. i \in 1 .. l - 1 + 1 /\ 1 + i - 1 = i
      OBVIOUS
    <3> QED BY <1>1, <2>2, <3>1
  <2>5. code = c
    BY <2>2, <2>3, <2>4, SeqEqual
  <2> QED BY <2>5 DEF code
<1>5. SelfScript(file) = s
  <2>1. SelfScript(file) = SubSeq(file, Find(file, Probe) + Len(Probe) + 1, Len(file))
    BY <1>2 DEF SelfScript
  <2> QED BY <1>1, <1>2, <1>3, <2>1
<1>6. SelfCode(file) = c
  BY <1>2, <1>4 DEF SelfCode
<1> QED BY <1>5, <1>6
-----------------------------------------------------------------------------
(***************************************************************************)
(* The executable.                                                         *)
(***************************************************************************)

\* However often it was compiled, the executable is one of the codes, alone or
\* with a probe and the script that was compiled last.
SelfInv ==
    \E c \in Code : \/ program = c /\ carried = NoScript
                    \/ program = Compiled(c, carried) /\ carried \in Script

\* SelfInv holds at all times (utils.c:268, 313).
THEOREM SelfInductive == SelfSpec => []SelfInv
<1>1. SelfInit => SelfInv
  BY DEF SelfInit, SelfInv
<1>2. SelfInv /\ [SelfStep]_selfVars => SelfInv'
  <2> SUFFICES ASSUME SelfInv, [SelfStep]_selfVars PROVE SelfInv'
    OBVIOUS
  <2>1. PICK c \in Code : \/ program = c /\ carried = NoScript
                          \/ program = Compiled(c, carried) /\ carried \in Script
    BY DEF SelfInv
  <2>2. ASSUME NEW s \in Script, Compile(s) PROVE SelfInv'
    <3>1. SelfCode(program) = c
      BY <2>1, ReadCode, ReadCompiled, BytesAssumption
    <3>2. program' = Compiled(c, s) /\ carried' = s
      BY <2>2, <3>1 DEF Compile, Compiled
    <3> QED BY <3>2 DEF SelfInv
  <2>3. ASSUME NEW args \in Arguments, Start(args) PROVE SelfInv'
    BY <2>1, <2>3 DEF Start, SelfInv
  <2>4. CASE UNCHANGED selfVars
    BY <2>1, <2>4 DEF selfVars, SelfInv
  <2> QED BY <2>2, <2>3, <2>4 DEF SelfStep
<1> QED BY <1>1, <1>2, PTL DEF SelfSpec

\* The search finds the first occurrence of every key in every executable that
\* is ever written (utils.c:88-125).
THEOREM SearchFindsFirst == SelfSpec => []FindsFirst
<1>1. SelfInv => FindsFirst
  <2> SUFFICES ASSUME SelfInv, NEW key \in SearchKey
               PROVE  Find(program, key) = FirstOccurrence(program, key)
    BY DEF FindsFirst
  <2>1. key \in Seq(Byte) /\ key # <<>>
    BY BytesAssumption
  <2>2. program \in Seq(Byte)
    BY CodeAssumption, BytesAssumption, CompiledFacts DEF SelfInv
  <2> QED BY <2>1, <2>2, FindIsFirst
<1> QED BY <1>1, SelfInductive, PTL

\* A program runs the script that was compiled into it last, whatever its
\* arguments and whatever the script holds (utils.c:231-289, runtime.c:71).
THEOREM CarriedScriptSurvives == SelfSpec => []ScriptSurvives
<1>1. SelfInv => ScriptSurvives
  <2> SUFFICES ASSUME SelfInv PROVE ScriptSurvives
    OBVIOUS
  <2>1. PICK c \in Code : \/ program = c /\ carried = NoScript
                          \/ program = Compiled(c, carried) /\ carried \in Script
    BY DEF SelfInv
  <2>2. SelfScript(program) = carried
    BY <2>1, ReadCode, ReadCompiled, BytesAssumption
  <2>3. carried # NoScript => \A args \in Arguments : Chosen(args) = "self"
    BY <2>2 DEF Chosen
  <2> QED BY <2>2, <2>3 DEF ScriptSurvives
<1> QED BY <1>1, SelfInductive, PTL

-----------------------------------------------------------------------------
(***************************************************************************)
(* Splitting a string.                                                     *)
(***************************************************************************)

\* The part of the subject from the offset on has p at its i-th place.
Holds(p, to, i) ==
    LET part == SubSeq(subject, offset + 1, to)
    IN  /\ offset < to /\ to <= Len(subject)
        /\ i \in 1 .. to - offset /\ i + Len(p) - 1 <= to - offset
        /\ SubSeq(part, i, i + Len(p) - 1) = p

\* What is found in a part is found in the whole.
LEMMA WholeOfPart ==
    ASSUME subject \in Seq(Char), offset \in Nat, NEW p \in Seq(Char), NEW to \in Nat,
           NEW i \in Nat, Holds(p, to, i)
    PROVE  \E x \in offset .. to - 1 : /\ x + Len(p) <= Len(subject)
                                       /\ SubSeq(subject, x + 1, x + Len(p)) = p
<1> PICK s \in Seq(Char) : s = subject
  OBVIOUS
<1> PICK from \in Nat : from = offset
  OBVIOUS
<1> PICK l \in Nat : l = Len(s)
  OBVIOUS
<1> PICK n \in Nat : n = Len(p)
  BY LenProperties
<1> PICK part : part = SubSeq(s, from + 1, to)
  OBVIOUS
<1>0. /\ from < to /\ to <= l
      /\ i \in 1 .. to - from /\ i + n - 1 <= to - from
      /\ SubSeq(part, i, i + n - 1) = p
  BY DEF Holds
<1>1. /\ part \in Seq(Char) /\ Len(part) = to - from
      /\ \A q \in 1 .. to - from : part[q] = s[from + q]
  <2>1. \A q \in from + 1 .. to : s[q] \in Char
    BY <1>0
  <2>2. /\ SubSeq(s, from + 1, to) \in Seq(Char)
        /\ Len(SubSeq(s, from + 1, to)) = IF from + 1 <= to THEN to - (from + 1) + 1 ELSE 0
        /\ \A q \in 1 .. to - (from + 1) + 1 : SubSeq(s, from + 1, to)[q] = s[(from + 1) + q - 1]
    BY <2>1, SubSeqProperties
  <2>3. \A q \in 1 .. to - from : q \in 1 .. to - (from + 1) + 1 /\ (from + 1) + q - 1 = from + q
    OBVIOUS
  <2> QED BY <1>0, <2>2, <2>3
<1>2. i \in 1 .. to - from /\ i + n - 1 <= to - from
  BY <1>0
<1>3. \A q \in 1 .. n : p[q] = part[i + q - 1]
  <2>1. \A q \in i .. i + n - 1 : part[q] \in Char
    <3>1. \A q \in i .. i + n - 1 : q \in 1 .. Len(part)
      BY <1>1, <1>2
    <3> QED BY <1>1, <3>1
  <2>2. \A q \in 1 .. i + n - 1 - i + 1 : SubSeq(part, i, i + n - 1)[q] = part[i + q - 1]
    BY <1>2, <2>1, SubSeqProperties
  <2>3. \A q \in 1 .. n : q \in 1 .. i + n - 1 - i + 1
    BY <1>2
  <2> QED BY <1>0, <2>2, <2>3
<1>4. PICK x \in Nat : x = from + i - 1 /\ x \in from .. to - 1 /\ x + n <= l
  <2>1. from + i - 1 \in Nat /\ from + i - 1 \in from .. to - 1 /\ from + i - 1 + n <= l
    BY <1>0
  <2> QED BY <2>1
<1>5. \A q \in 1 .. n : p[q] = s[x + q]
  <2>1. TAKE q \in 1 .. n
  <2>2. i + q - 1 \in 1 .. to - from /\ from + (i + q - 1) = x + q
    BY <1>2, <1>4
  <2> QED BY <1>1, <1>3, <2>2
<1>6. SubSeq(s, x + 1, x + n) = p
  <2> DEFINE sub == SubSeq(s, x + 1, x + n)
  <2>1. \A q \in x + 1 .. x + n : s[q] \in Char
    BY <1>4
  <2>2. /\ sub \in Seq(Char) /\ Len(sub) = IF x + 1 <= x + n THEN x + n - (x + 1) + 1 ELSE 0
        /\ \A q \in 1 .. x + n - (x + 1) + 1 : sub[q] = s[(x + 1) + q - 1]
    BY <2>1, SubSeqProperties
  <2> HIDE DEF sub
  <2>3. Len(sub) = n
    BY <2>2
  <2>4. ASSUME NEW q \in 1 .. n PROVE sub[q] = p[q]
    <3>1. q \in 1 .. x + n - (x + 1) + 1 /\ (x + 1) + q - 1 = x + q
      OBVIOUS
    <3> QED BY <1>5, <2>2, <3>1
  <2>5. sub = p
    BY <2>2, <2>3, <2>4, SeqEqual
  <2> QED BY <2>5 DEF sub
<1> QED BY <1>4, <1>6

SplitInv ==
    /\ subject \in Seq(Char) /\ pattern \in Seq(Seq(Char))
    /\ offset \in Nat /\ pieces \in Seq(Seq(Char))
    /\ PiecesIndivisible

\* What is cut out in front of the first place where a match begins holds none.
LEMMA CutIsIndivisible ==
    ASSUME SplitInv, NEW to \in Nat, offset < to, to <= Len(subject),
           \A j \in Starts : to <= j
    PROVE  Indivisible(SubSeq(subject, offset + 1, to))
<1> DEFINE part == SubSeq(subject, offset + 1, to)
<1>1. subject \in Seq(Char) /\ offset \in Nat
  BY DEF SplitInv
<1>2. Len(part) = to - offset /\ part \in Seq(Char)
  <2>1. \A q \in offset + 1 .. to : subject[q] \in Char
    BY <1>1
  <2>2. /\ part \in Seq(Char)
        /\ Len(part) = IF offset + 1 <= to THEN to - (offset + 1) + 1 ELSE 0
    BY <1>1, <2>1, SubSeqProperties
  <2> QED BY <1>1, <2>2
<1>3. ASSUME NEW a \in DOMAIN pattern, NEW i \in 1 .. Len(part),
             i + Len(pattern[a]) - 1 <= Len(part),
             SubSeq(part, i, i + Len(pattern[a]) - 1) = pattern[a]
      PROVE  FALSE
  <2>1. PICK p \in Seq(Char) : p = pattern[a]
    BY DEF SplitInv
  <2>3. PICK x \in offset .. to - 1 : /\ x + Len(p) <= Len(subject)
                                      /\ SubSeq(subject, x + 1, x + Len(p)) = p
    <3>1. i \in 1 .. to - offset /\ i + Len(p) - 1 <= to - offset /\ SubSeq(part, i, i + Len(p) - 1) = p
      BY <1>2, <1>3, <2>1
    <3>2. Holds(p, to, i)
      BY <3>1 DEF Holds
    <3> HIDE DEF part
    <3>3. i \in Nat /\ p \in Seq(Char)
      BY <3>1, <2>1
    <3> QED BY <1>1, <3>2, <3>3, WholeOfPart
  <2>4. a \in MatchesAt(x)
    BY <2>1, <2>3 DEF MatchesAt
  <2>5. x \in offset .. Len(subject)
    BY <1>1, <2>3
  <2>6. x \in Starts
    BY <2>4, <2>5 DEF Starts
  <2> QED BY <1>1, <2>3, <2>6
<1>4. part # <<>>
  BY <1>1, <1>2
<1>5. ASSUME NEW a \in DOMAIN pattern, NEW i \in 1 .. Len(part)
      PROVE  \/ i + Len(pattern[a]) - 1 > Len(part)
             \/ SubSeq(part, i, i + Len(pattern[a]) - 1) # pattern[a]
  <2>1. Len(pattern[a]) \in Nat /\ Len(part) \in Nat
    BY <1>1, <1>2 DEF SplitInv
  <2>2. CASE SubSeq(part, i, i + Len(pattern[a]) - 1) = pattern[a]
    <3>1. ~(i + Len(pattern[a]) - 1 <= Len(part))
      BY <1>3, <2>2
    <3> HIDE DEF part
    <3> QED BY <2>1, <3>1
  <2> QED BY <2>2
<1> HIDE DEF part
<1>6. Indivisible(part)
  BY <1>4, <1>5 DEF Indivisible
<1> QED BY <1>6 DEF part

\* A piece that is not empty is put behind the others.
LEMMA PieceAppended ==
    ASSUME SplitInv, NEW to \in Nat, to <= Len(subject), \A j \in Starts : to <= j
    PROVE  /\ pieces \o Piece(offset, to) \in Seq(Seq(Char))
           /\ \A k \in DOMAIN (pieces \o Piece(offset, to)) :
                 Indivisible((pieces \o Piece(offset, to))[k])
<1>1. subject \in Seq(Char) /\ offset \in Nat /\ pieces \in Seq(Seq(Char))
  BY DEF SplitInv
<1>2. \A k \in DOMAIN pieces : Indivisible(pieces[k])
  BY DEF SplitInv, PiecesIndivisible
<1>3. CASE offset < to
  <2>1. PICK part : part = SubSeq(subject, offset + 1, to)
    OBVIOUS
  <2>2. Indivisible(part)
    BY <1>3, <2>1, CutIsIndivisible
  <2>3. part \in Seq(Char)
    <3>1. \A q \in offset + 1 .. to : subject[q] \in Char
      BY <1>1
    <3> QED BY <1>1, <2>1, <3>1, SubSeqProperties
  <2>4. Piece(offset, to) = <<part>>
    BY <1>3, <2>1 DEF Piece
  <2>5. pieces \o <<part>> = Append(pieces, part)
    BY <1>1, <2>3
  <2>6. PICK n \in Nat : n = Len(pieces)
    BY <1>1
  <2>7. /\ Append(pieces, part) \in Seq(Seq(Char)) /\ Len(Append(pieces, part)) = n + 1
        /\ \A k \in 1 .. n : Append(pieces, part)[k] = pieces[k]
        /\ Append(pieces, part)[n + 1] = part
    BY <1>1, <2>3, <2>6, AppendProperties
  <2>8. ASSUME NEW k \in DOMAIN Append(pieces, part) PROVE Indivisible(Append(pieces, part)[k])
    <3>1. k \in 1 .. n \/ k = n + 1
      BY <2>7
    <3>2. DOMAIN pieces = 1 .. n
      BY <1>1, <2>6
    <3> QED BY <1>2, <2>2, <2>7, <3>1, <3>2
  <2> QED BY <2>4, <2>5, <2>7, <2>8
<1>4. CASE ~(offset < to)
  <2>1. Piece(offset, to) = <<>>
    BY <1>4 DEF Piece
  <2>2. pieces \o <<>> = pieces
    BY <1>1, ConcatEmptySeq
  <2> QED BY <1>1, <1>2, <2>1, <2>2
<1> QED BY <1>3, <1>4

LEMMA MatchFacts ==
    ASSUME SplitInv, Found
    PROVE  /\ From \in Starts /\ From \in Nat /\ From <= Len(subject)
           /\ \A j \in Starts : From <= j
           /\ To \in Nat
<1>1. offset \in Nat /\ Len(subject) \in Nat
  BY DEF SplitInv
<1>2. Starts \in SUBSET Nat /\ Starts # {} /\ \A j \in Starts : j <= Len(subject)
  BY <1>1 DEF Starts, Found
<1>3. From \in Starts /\ \A j \in Starts : From <= j
  BY <1>2, LeastNatural DEF From
<1>4. MatchesAt(From) # {}
  BY <1>3 DEF Starts
<1>5. MatchesAt(From) \in SUBSET (DOMAIN pattern) /\ DOMAIN pattern \in SUBSET Nat
  BY DEF MatchesAt, SplitInv
<1>6. MatchesAt(From) \in SUBSET Nat
  BY <1>5
<1>7. PICK a \in MatchesAt(From) : \A b \in MatchesAt(From) : a <= b
  BY <1>4, <1>6, LeastNatural
<1>8. PICK a2 \in MatchesAt(From) : To = From + Len(pattern[a2])
  BY <1>7 DEF To
<1>9. Len(pattern[a2]) \in Nat
  BY <1>5, <1>8 DEF SplitInv
<1> QED BY <1>2, <1>3, <1>8, <1>9

\* No piece is empty or holds a match, for any subject and any pattern
\* (lua/string.c:11-32, docs/string_split.md:13).
THEOREM SplitIsComplete == SplitSpec => []PiecesIndivisible
<1>1. SplitInit => SplitInv
  <2> SUFFICES ASSUME SplitInit PROVE SplitInv
    OBVIOUS
  <2>1. subject \in Seq(Char)
    BY SplitAssumption DEF SplitInit, SeqOf
  <2>2. pattern \in Seq(Seq(Char)) /\ offset = 0 /\ pieces = <<>>
    BY SplitAssumption DEF SplitInit
  <2>3. PiecesIndivisible
    BY <2>2 DEF PiecesIndivisible
  <2> QED BY <2>1, <2>2, <2>3 DEF SplitInv
<1>2. SplitInv /\ [SplitStep]_splitVars => SplitInv'
  <2> SUFFICES ASSUME SplitInv, [SplitStep]_splitVars PROVE SplitInv'
    OBVIOUS
  <2>1. \A part : pattern' = pattern => Indivisible(part)' = Indivisible(part)
    BY DEF Indivisible
  <2>2. CASE SplitAt
    <3>1. /\ Found /\ pieces' = pieces \o Piece(offset, From) /\ offset' = To
          /\ subject' = subject /\ pattern' = pattern
      BY <2>2 DEF SplitAt
    <3>2. PICK to \in Nat : to = From /\ to <= Len(subject) /\ \A j \in Starts : to <= j
      BY <3>1, MatchFacts
    <3>3. /\ pieces' \in Seq(Seq(Char))
          /\ \A k \in DOMAIN pieces' : Indivisible(pieces'[k])
      BY <3>1, <3>2, PieceAppended
    <3>4. offset' \in Nat
      BY <3>1, MatchFacts
    <3>5. PiecesIndivisible'
      BY <2>1, <3>1, <3>3 DEF PiecesIndivisible, Indivisible
    <3> QED BY <3>1, <3>3, <3>4, <3>5 DEF SplitInv
  <2>3. CASE SplitRest
    <3>1. /\ offset >= Len(subject) \/ ~Found
          /\ pieces' = pieces \o Piece(offset, Len(subject)) /\ offset' = offset
          /\ subject' = subject /\ pattern' = pattern
      BY <2>3 DEF SplitRest
    <3>2. PICK to \in Nat : to = Len(subject)
      BY DEF SplitInv
    <3>3. \A j \in Starts : to <= j
      <4>1. CASE offset >= to
        BY <3>2, <4>1 DEF Starts, SplitInv
      <4>2. CASE ~Found
        BY <4>2 DEF Found
      <4> QED BY <3>1, <3>2, <4>1, <4>2
    <3>4. /\ pieces' \in Seq(Seq(Char))
          /\ \A k \in DOMAIN pieces' : Indivisible(pieces'[k])
      BY <3>1, <3>2, <3>3, PieceAppended
    <3>5. PiecesIndivisible'
      BY <2>1, <3>1, <3>4 DEF PiecesIndivisible, Indivisible
    <3> QED BY <3>1, <3>4, <3>5 DEF SplitInv
  <2>4. CASE UNCHANGED splitVars
    BY <2>4 DEF splitVars, SplitInv, PiecesIndivisible, Indivisible
  <2> QED BY <2>2, <2>3, <2>4 DEF SplitStep
<1>3. SplitInv => PiecesIndivisible
  BY DEF SplitInv
<1> QED BY <1>1, <1>2, <1>3, PTL DEF SplitSpec
=============================================================================
