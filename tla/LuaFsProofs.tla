----------------------------- MODULE LuaFsProofs -----------------------------
(***************************************************************************)
(* What is proved of auto.fs_iterdir, auto.fs_delete and auto.fs_mkdir,    *)
(* for every set of paths, whatever others change meanwhile: entries come  *)
(* once and in order, none that stays is missed, and a result of success   *)
(* is the truth.  The lemma on least numbers comes from CursorListProofs,  *)
(* whose NULL is not used.                                                 *)
(*                                                                         *)
(* The inductive invariant is about what the stream still holds: how its   *)
(* records hang together (StreamInv), how what is pending relates to what  *)
(* was reported (OrderInv), and that whatever has been there all the time  *)
(* is pending or reported (CoverInv, DeleteInv).                           *)
(***************************************************************************)
EXTENDS LuaFs, CursorListProofs

Paths == Path \cup {Root}

Records == [path : Paths, unk : SUBSET Path, dirs : SUBSET Path, regs : SUBSET Path]

TypeInv ==
    /\ fs \in [Paths -> Kinds] /\ WellFormed(fs)
    /\ pc \in {"idle", "open", "walk", "given", "make", "check", "done", "closed"}
    /\ stream \in Seq(Records)
    /\ out \in Seq(Path)
    /\ stable \in SUBSET Path
    /\ target \in Paths /\ at \in Nat

Walking == pc \in {"walk", "given"}
Making == pc \in {"make", "check"}

\* Which call is being made, and what its variables say before it reads or makes
\* anything.
CallInv ==
    /\ pc \in {"idle", "open"} => stream = <<>> /\ out = <<>> /\ stable = {} /\ ret = "ok"
    /\ pc = "idle" => ~vanished
    /\ pc = "open" => job = "delete" /\ flags = {"post"}
    /\ Walking => job \in {"iterdir", "delete"}
    /\ Making => job = "mkdir"
    /\ Walking /\ job = "delete" => flags = {"post"}
    /\ pc = "given" /\ job = "delete" => out # <<>>
    /\ \A p \in stable : fs[p] # "none"

\* The loop goes on after success only, and unless something was removed the
\* prefixes behind it are directories.
MkdirInv ==
    /\ at <= Len(target)
    /\ Making => ret = "ok"
    /\ (Making /\ "parents" \in flags /\ ~vanished) =>
          /\ \A n \in 0 .. (at - 1) : fs[SubSeq(target, 1, n)] = "dir"
          /\ pc = "check" => fs[Prefix] # "none"

\* What a record has still to report.
Table(r) == r.unk \cup r.dirs \cup r.regs

\* The k-th record is of a directory k - 1 names below the root, its tables hold
\* children of it, and its directory has left the tables of those above.
RecordInv(k) ==
    /\ Len(stream[k].path) = k - 1
    /\ \A x \in Table(stream[k]) : Front(x) = stream[k].path
    /\ stream[k].dirs \cap stream[k].regs = {}
    /\ stream[k].unk \cap (stream[k].dirs \cup stream[k].regs) = {}
    /\ "post" \notin flags => stream[k].unk = {}
    /\ \A j \in 1 .. (k - 1) :
          SubSeq(stream[k].path, 1, j) \notin stream[j].dirs \cup stream[j].regs

StreamInv == \A k \in 1 .. Len(stream) : RecordInv(k)

\* Nothing pending was reported, nor anything below it; in post order nothing
\* above it, either.
Over(o) ==
    \A k \in 1 .. Len(stream) :
        /\ \A x \in stream[k].dirs \cup stream[k].regs : ~IsPrefix(x, o)
        /\ "post" \in flags => \A x \in Table(stream[k]) : ~IsPrefix(o, x)

OrderInv == \A o \in ToSet(out) : Over(o)

\* The table an entry is in says what it is, while it stays.
Sorted(r) ==
    /\ \A x \in r.regs \cap stable : fs[x] = "reg"
    /\ \A x \in (r.dirs \cup r.unk) \cap stable : fs[x] = "dir"

KindInv == typed => \A k \in 1 .. Len(stream) : Sorted(stream[k])

\* p or a directory above it is pending.
Pending(p) ==
    \E k \in 1 .. Len(stream) :
        p \in Table(stream[k]) \/ \E d \in stream[k].dirs : IsPrefix(d, p)

\* What stays, can be reached and is not excluded is reported or pending.
Due(p) == p \in stable /\ Reachable(p) /\ ~Excluded(p)

CoverInv ==
    (Walking /\ typed) => \A p \in stable : Due(p) => p \in ToSet(out) \/ Pending(p)

\* While delete() has not failed, what stays is pending, below something that
\* is, or about to make it fail.
UnderPending(p) == \E k \in 1 .. Len(stream) : \E x \in Table(stream[k]) : IsPrefix(x, p)

DeleteInv ==
    (Walking /\ job = "delete" /\ ret = "ok" /\ Root \notin locked) =>
        \A p \in stable : UnderPending(p) \/ (pc = "given" /\ IsPrefix(Last(out), p))

IInv ==
    /\ TypeInv /\ CallInv
    /\ MkdirInv /\ MkdirTellsTruth
    /\ StreamInv /\ OrderInv /\ OnceAndInOrder
    /\ KindInv /\ CoverInv /\ CompleteWalk
    /\ DeleteInv /\ DeleteTrueMeansGone
-----------------------------------------------------------------------------

(***************************************************************************)
(* Paths.                                                                  *)
(***************************************************************************)
\* A path is a sequence of names, and what is in front of its last one is a path.
LEMMA PathFacts ==
    ASSUME NEW p \in Path
    PROVE  /\ p \in Seq(Nat) /\ Len(p) \in Nat /\ Len(p) >= 1 /\ p # Root
           /\ Last(p) \in Nat
           /\ Front(p) \in Paths /\ Front(p) = SubSeq(p, 1, Len(p) - 1)
<1>1. p \in Seq(Nat) /\ p # <<>> /\ (Len(p) = 1 \/ Front(p) \in Path)
  BY PathAssumption
<1>2. Len(p) \in Nat /\ Len(p) >= 1 /\ p[Len(p)] \in Nat
  BY <1>1
<1>3. Len(p) = 1 => Front(p) = <<>>
  BY <1>1, <1>2 DEF Front
<1> QED BY <1>1, <1>2, <1>3 DEF Last, Front, Paths, Root

\* The root is a path, too.
LEMMA PathsFacts ==
    ASSUME NEW p \in Paths
    PROVE  p \in Seq(Nat) /\ Len(p) \in Nat /\ (p # Root => p \in Path /\ Len(p) >= 1)
<1>1. CASE p = Root
  <2>1. p = <<>> /\ Len(<<>>) = 0
    BY <1>1 DEF Root
  <2> QED BY <1>1, <2>1
<1>2. CASE p \in Path
  BY <1>2, PathFacts
<1> QED BY <1>1, <1>2 DEF Paths

\* What the first names of a sequence are.
LEMMA FirstNames ==
    ASSUME NEW s \in Seq(Nat), NEW n \in 0 .. Len(s)
    PROVE  /\ SubSeq(s, 1, n) \in Seq(Nat) /\ Len(SubSeq(s, 1, n)) = n
           /\ \A i \in 1 .. n : SubSeq(s, 1, n)[i] = s[i]
           /\ n = 0 => SubSeq(s, 1, n) = <<>>
           /\ n = Len(s) => SubSeq(s, 1, n) = s
           /\ \A m \in 0 .. n : SubSeq(SubSeq(s, 1, n), 1, m) = SubSeq(s, 1, m)
  OBVIOUS

\* Prefixes, name by name.
LEMMA PrefixNames ==
    ASSUME NEW s \in Seq(Nat), NEW t \in Seq(Nat)
    PROVE  IsPrefix(s, t) <=> Len(s) <= Len(t) /\ \A i \in 1 .. Len(s) : s[i] = t[i]
<1>1. PICK n \in Nat : n = Len(s)
  OBVIOUS
<1>2. n \in 0 .. Len(s) /\ SubSeq(s, 1, n) = s
  BY <1>1, FirstNames
<1>3. CASE Len(s) <= Len(t)
  <2>1. n \in 0 .. Len(t)
    BY <1>1, <1>3
  <2>2. PICK u \in Seq(Nat) : u = SubSeq(t, 1, n)
    BY <2>1, FirstNames
  <2>3. Len(u) = n /\ \A i \in 1 .. n : u[i] = t[i]
    <3>1. Len(SubSeq(t, 1, n)) = n /\ \A i \in 1 .. n : SubSeq(t, 1, n)[i] = t[i]
      BY <2>1, FirstNames
    <3> QED BY <2>2, <3>1
  <2>4. s = u <=> \A i \in 1 .. n : s[i] = u[i]
    <3>1. Len(u) = Len(s) /\ Len(s) = n
      BY <1>1, <2>3
    <3>2. ASSUME \A i \in 1 .. Len(s) : s[i] = u[i] PROVE s = u
      BY <3>1, <3>2
    <3> QED BY <3>1, <3>2
  <2>5. IsPrefix(s, t) <=> s = u
    BY <1>1, <1>2, <1>3, <2>2 DEF IsPrefix
  <2> QED BY <1>1, <1>3, <2>3, <2>4, <2>5
<1>4. CASE ~(Len(s) <= Len(t))
  BY <1>4 DEF IsPrefix
<1> QED BY <1>3, <1>4

\* A prefix of a given length is unique, and prefixes of one path are prefixes
\* of each other.
LEMMA PrefixOrder ==
    ASSUME NEW s \in Seq(Nat), NEW t \in Seq(Nat), NEW u \in Seq(Nat)
    PROVE  /\ IsPrefix(s, s)
           /\ IsPrefix(s, t) => Len(s) <= Len(t) /\ SubSeq(t, 1, Len(s)) = s
           /\ IsPrefix(s, t) /\ Len(s) = Len(t) => s = t
           /\ IsPrefix(s, t) /\ IsPrefix(t, u) => IsPrefix(s, u)
           /\ IsPrefix(s, u) /\ IsPrefix(t, u) /\ Len(s) <= Len(t) => IsPrefix(s, t)
<1>1. Len(s) \in Nat /\ Len(t) \in Nat /\ Len(u) \in Nat
  OBVIOUS
<1>2. IsPrefix(s, t) => SubSeq(t, 1, Len(s)) = s
  BY DEF IsPrefix
<1>3. IsPrefix(s, t) /\ Len(s) = Len(t) => s = t
  <2>1. SubSeq(t, 1, Len(t)) = t
    OBVIOUS
  <2> QED BY <1>2, <2>1
<1>4. IsPrefix(s, t) /\ IsPrefix(t, u) => IsPrefix(s, u)
  BY <1>1, PrefixNames
<1>5. IsPrefix(s, u) /\ IsPrefix(t, u) /\ Len(s) <= Len(t) => IsPrefix(s, t)
  BY <1>1, PrefixNames
<1> QED BY <1>1, <1>2, <1>3, <1>4, <1>5, PrefixNames

\* The names in front of the last one.
LEMMA PrefixFront ==
    ASSUME NEW s \in Seq(Nat), NEW p \in Path
    PROVE  /\ IsPrefix(Front(p), p) /\ Len(Front(p)) = Len(p) - 1
           /\ IsPrefix(s, p) /\ s # p => IsPrefix(s, Front(p))
<1>1. p \in Seq(Nat) /\ Len(p) \in Nat /\ Len(p) >= 1 /\ Front(p) = SubSeq(p, 1, Len(p) - 1)
  BY PathFacts
<1>2. /\ Front(p) \in Seq(Nat) /\ Len(Front(p)) = Len(p) - 1
      /\ \A i \in 1 .. (Len(p) - 1) : Front(p)[i] = p[i]
  <2>1. PICK n \in 0 .. Len(p) : n = Len(p) - 1
    BY <1>1
  <2> QED BY <1>1, <2>1, FirstNames
<1>3. IsPrefix(Front(p), p)
  <2>1. PICK n \in 0 .. Len(p) : n = Len(p) - 1
    BY <1>1
  <2>2. SubSeq(SubSeq(p, 1, n), 1, n) = SubSeq(p, 1, n) /\ Front(p) = SubSeq(p, 1, n)
    BY <1>1, <2>1, FirstNames
  <2> QED BY <1>1, <1>2, <2>1, <2>2 DEF IsPrefix
<1>4. ASSUME IsPrefix(s, p), s # p PROVE IsPrefix(s, Front(p))
  <2>1. Len(s) \in Nat /\ Len(s) <= Len(p) /\ Len(s) # Len(p)
    BY <1>1, <1>4, PrefixOrder
  <2>2. Len(s) <= Len(Front(p))
    BY <1>1, <1>2, <2>1
  <2> QED BY <1>1, <1>2, <1>3, <1>4, <2>2, PrefixOrder
<1> QED BY <1>2, <1>3, <1>4

\* Counting down to zero.
LEMMA CountDown ==
    ASSUME NEW n \in Nat, NEW T, n \in T,
           \A k \in 1 .. n : k \in T => k - 1 \in T
    PROVE  0 .. n \subseteq T
<1> DEFINE U == {k \in 0 .. n : n - k \in T}
<1>1. 0 \in U
  BY n - 0 = n
<1>2. ASSUME NEW k \in 0 .. (n - 1), k \in U PROVE k + 1 \in U
  <2>1. n - k \in 1 .. n /\ n - k \in T /\ k + 1 \in 0 .. n
    BY <1>2
  <2>2. (n - k) - 1 \in T
    BY <2>1
  <2>3. (n - k) - 1 = n - (k + 1)
    BY <2>1
  <2>4. n - (k + 1) \in T
    BY <2>2, <2>3
  <2> QED BY <2>1, <2>4
<1> HIDE DEF U
<1>3. 0 .. n \subseteq U
  BY <1>1, <1>2, CountUp
<1>4. ASSUME NEW m \in 0 .. n PROVE m \in T
  <2>1. n - m \in U
    BY <1>3
  <2>2. n - (n - m) \in T
    BY <2>1 DEF U
  <2>3. n - (n - m) = m
    OBVIOUS
  <2> QED BY <2>2, <2>3
<1> QED BY <1>4

\* The first names of a path are a path.
LEMMA FirstNamesPath ==
    ASSUME NEW p \in Path, NEW n \in 0 .. Len(p)
    PROVE  SubSeq(p, 1, n) \in Paths /\ (n > 0 => SubSeq(p, 1, n) \in Path)
<1> DEFINE T == {k \in 0 .. Len(p) : SubSeq(p, 1, k) \in Paths}
<1>1. p \in Seq(Nat) /\ Len(p) \in Nat /\ Len(p) >= 1 /\ SubSeq(p, 1, Len(p)) = p
  BY PathFacts
<1>2. Len(p) \in T
  <2>1. Len(p) \in 0 .. Len(p) /\ p \in Paths
    BY <1>1 DEF Paths
  <2> QED BY <1>1, <2>1
<1>3. ASSUME NEW k \in 1 .. Len(p), k \in T PROVE k - 1 \in T
  <2> DEFINE q == SubSeq(p, 1, k)
  <2>1. /\ Len(q) = k /\ k \in 0 .. Len(p) /\ k - 1 \in 0 .. k /\ k - 1 \in 0 .. Len(p)
        /\ q \in Paths
    BY <1>1, <1>3, FirstNames
  <2>2. q \in Path
    <3>1. Len(Root) = 0
      BY DEF Root
    <3> QED BY <2>1, <3>1 DEF Paths
  <2>3. SubSeq(q, 1, k - 1) = SubSeq(p, 1, k - 1)
    BY <1>1, <2>1, FirstNames
  <2> HIDE DEF q
  <2>4. SubSeq(q, 1, k - 1) \in Paths
    BY <2>1, <2>2, PathFacts
  <2>5. SubSeq(p, 1, k - 1) \in Paths
    BY <2>3, <2>4
  <2> QED BY <2>1, <2>5
<1> HIDE DEF T
<1>4. n \in T
  BY <1>1, <1>2, <1>3, CountDown
<1>5. SubSeq(p, 1, n) \in Paths /\ Len(SubSeq(p, 1, n)) = n
  BY <1>1, <1>4, FirstNames DEF T
<1>6. Len(Root) = 0
  BY DEF Root
<1> QED BY <1>5, <1>6 DEF Paths

\* So they are of the root.
LEMMA PrefixPath ==
    ASSUME NEW p \in Paths, NEW n \in 0 .. Len(p)
    PROVE  SubSeq(p, 1, n) \in Paths
<1>1. CASE p = Root
  <2>1. n = 0 /\ SubSeq(<<>>, 1, 0) = <<>>
    BY <1>1 DEF Root
  <2> QED BY <1>1, <2>1 DEF Root
<1> QED BY <1>1, FirstNamesPath DEF Paths

\* Above something that exists there are directories.
LEMMA Ancestors ==
    ASSUME WellFormed(fs), NEW p \in Path, fs[p] # "none", NEW n \in 0 .. (Len(p) - 1)
    PROVE  fs[SubSeq(p, 1, n)] = "dir"
<1> DEFINE T == {k \in 0 .. (Len(p) - 1) : fs[SubSeq(p, 1, k)] = "dir"}
<1>1. p \in Seq(Nat) /\ Len(p) \in Nat /\ Len(p) >= 1 /\ Len(p) - 1 \in Nat
      /\ Front(p) = SubSeq(p, 1, Len(p) - 1)
  BY PathFacts
<1>2. Len(p) - 1 \in T
  <2>1. Len(p) - 1 \in 0 .. (Len(p) - 1)
    BY <1>1
  <2>2. fs[SubSeq(p, 1, Len(p) - 1)] = "dir"
    BY <1>1 DEF WellFormed
  <2> QED BY <2>1, <2>2
<1>3. ASSUME NEW k \in 1 .. (Len(p) - 1), k \in T PROVE k - 1 \in T
  <2> DEFINE q == SubSeq(p, 1, k)
  <2>1. /\ k \in 0 .. Len(p) /\ k - 1 \in 0 .. k /\ k - 1 \in 0 .. (Len(p) - 1)
        /\ fs[q] = "dir"
    BY <1>1, <1>3
  <2>2. q \in Path /\ Len(q) = k /\ SubSeq(q, 1, k - 1) = SubSeq(p, 1, k - 1)
    BY <1>1, <2>1, FirstNames, FirstNamesPath
  <2> HIDE DEF q
  <2>3. fs[SubSeq(q, 1, k - 1)] = "dir"
    BY <2>1, <2>2 DEF WellFormed, Front
  <2> QED BY <2>1, <2>2, <2>3
<1> HIDE DEF T
<1>4. n \in T
  BY <1>1, <1>2, <1>3, CountDown
<1> QED BY <1>4 DEF T

\* The entry that is reported next is one of those in the table.
LEMMA NextName ==
    ASSUME NEW table \in SUBSET Path, table # {}
    PROVE  FirstName(table) \in table
<1> DEFINE N == {Last(c) : c \in table}
<1>1. N \in SUBSET Nat /\ N # {}
  BY PathFacts
<1>2. PICK x \in N : \A y \in N : x <= y
  BY <1>1, LeastNatural
<1>3. PICK c \in table : \A d \in table : Last(c) <= Last(d)
  BY <1>2
<1> QED BY <1>3 DEF FirstName

-----------------------------------------------------------------------------
(***************************************************************************)
(* The types.                                                              *)
(***************************************************************************)
\* Removing what has nothing below it leaves a tree.
LEMMA RemoveFs ==
    ASSUME fs \in [Paths -> Kinds], WellFormed(fs), NEW p \in Paths, Removable(p)
    PROVE  /\ [fs EXCEPT ![p] = "none"] \in [Paths -> Kinds]
           /\ WellFormed([fs EXCEPT ![p] = "none"])
<1> DEFINE f == [fs EXCEPT ![p] = "none"]
<1>1. f \in [Paths -> Kinds]
  BY DEF Kinds
<1>2. ASSUME NEW q \in Path, f[q] # "none" PROVE f[Front(q)] = "dir"
  <2>1. q \in Paths /\ q # p /\ fs[q] # "none"
    BY <1>2 DEF Paths
  <2>2. fs[Front(q)] = "dir" /\ Front(q) \in Paths
    BY <2>1, PathFacts DEF WellFormed
  <2>3. Front(q) # p
    BY <2>1 DEF Removable, Children
  <2> QED BY <2>2, <2>3
<1> QED BY <1>1, <1>2 DEF WellFormed

\* So does making something in a directory.
LEMMA AddFs ==
    ASSUME fs \in [Paths -> Kinds], WellFormed(fs), NEW p \in Paths, fs[p] = "none",
           p # Root => fs[Front(p)] = "dir", NEW kind \in {"reg", "dir"}
    PROVE  /\ [fs EXCEPT ![p] = kind] \in [Paths -> Kinds]
           /\ WellFormed([fs EXCEPT ![p] = kind])
<1> DEFINE f == [fs EXCEPT ![p] = kind]
<1>1. f \in [Paths -> Kinds]
  BY DEF Kinds
<1>2. ASSUME NEW q \in Path, f[q] # "none" PROVE f[Front(q)] = "dir"
  <2>1. fs[Front(q)] = "dir" /\ Front(q) \in Paths
    <3>1. CASE q = p
      BY <3>1, PathFacts
    <3>2. CASE q # p
      BY <1>2, <3>2, PathFacts DEF WellFormed, Paths
    <3> QED BY <3>1, <3>2
  <2>2. Front(q) # p
    BY <2>1
  <2> QED BY <2>1, <2>2
<1> QED BY <1>1, <1>2 DEF WellFormed

\* mkdir(2) succeeds where nothing is and a directory is above.
LEMMA MkdirOk ==
    ASSUME NEW p, "ok" \in MkdirResults(p)
    PROVE  fs[p] = "none" /\ (p # Root => fs[Front(p)] = "dir")
  BY DEF MkdirResults, LookupError

\* Where a directory is above, or there is nothing above, it fails for what is
\* there already or for reasons of its own.
LEMMA MkdirErrors ==
    ASSUME NEW p, p # Root => fs[Front(p)] = "dir"
    PROVE  /\ MkdirResults(p) \subseteq {"ok", "EEXIST", "refused"}
           /\ "EEXIST" \in MkdirResults(p) => fs[p] # "none"
  BY DEF MkdirResults

\* What stat(2) says of what is there.
LEMMA StatKinds ==
    ASSUME fs \in [Paths -> Kinds], NEW p \in Paths, NEW result \in StatResults(p)
    PROVE  /\ result \in Kinds => result = fs[p] /\ fs[p] # "none"
           /\ result \in {"reg", "dir", "ENOTDIR", "ENOENT", "refused"}
           /\ fs[p] # "none" => result \in {"refused", fs[p]}
<1>1. result = "refused" \/ (fs[p] = "none" /\ result = LookupError(p))
                         \/ (fs[p] # "none" /\ result = fs[p])
  BY DEF StatResults
<1>2. LookupError(p) \in {"ENOTDIR", "ENOENT"}
  BY DEF LookupError
<1>3. fs[p] \in {"none", "reg", "dir"}
  BY DEF Kinds
<1> QED BY <1>1, <1>2, <1>3 DEF Kinds

\* What a directory's record holds when it has been read.
LEMMA RecordFacts ==
    ASSUME NEW p \in Paths
    PROVE  /\ Record(p) \in Records /\ Record(p).path = p /\ Record(p).unk = {}
           /\ Record(p).dirs \cap Record(p).regs = {}
           /\ \A x \in Record(p).dirs \cup Record(p).regs : x \in Path /\ Front(x) = p
           /\ typed => /\ \A x \in Record(p).dirs : fs[x] = "dir"
                       /\ \A x \in Record(p).regs : fs[x] # "dir"
           /\ (fs[p] = "dir" /\ p \notin locked) =>
                 \A x \in Path : Front(x) = p /\ fs[x] # "none" =>
                     \/ x \in Record(p).dirs \cup Record(p).regs
                     \/ "noreg" \in flags /\ fs[x] = "reg"
           /\ typed => \A x \in Record(p).dirs \cup Record(p).regs : fs[x] # "none"
  BY DEF Record, Records, Children

\* The record that is being read from.
LEMMA TopRecord ==
    ASSUME TypeInv, stream # <<>>
    PROVE  /\ Len(stream) \in Nat /\ Len(stream) >= 1
           /\ rec = stream[Len(stream)] /\ rec \in Records
  BY DEF TypeInv, rec, Last

\* It is the only one that changes.
LEMMA UpdateTop ==
    ASSUME TypeInv, stream # <<>>, NEW r \in Records
    PROVE  /\ Update(r) \in Seq(Records) /\ Len(Update(r)) = Len(stream)
           /\ Update(r)[Len(stream)] = r
           /\ \A k \in 1 .. (Len(stream) - 1) : Update(r)[k] = stream[k]
  BY TopRecord DEF TypeInv, Update

\* The top record is replaced.
TopBecomes(r) ==
    /\ stream' \in Seq(Records) /\ Len(stream') = Len(stream)
    /\ stream'[Len(stream)] = r
    /\ \A k \in 1 .. (Len(stream) - 1) : stream'[k] = stream[k]

\* The top record is replaced, and another put on top.
TopBecomesUnder(r, s) ==
    /\ stream' \in Seq(Records) /\ Len(stream') = Len(stream) + 1
    /\ stream'[Len(stream)] = r /\ stream'[Len(stream) + 1] = s
    /\ \A k \in 1 .. (Len(stream) - 1) : stream'[k] = stream[k]

Gives(c) == out' = Append(out, c) /\ pc' = "given"
GivesNot == out' = out /\ pc' = pc

\* The three tables of the top record.
Tables(r, u, d, g) == r.path = rec.path /\ r.unk = u /\ r.dirs = d /\ r.regs = g

LEMMA UnknownRead ==
    ASSUME TypeInv, ReadUnknown
    PROVE  \E c \in rec.unk, r \in Records :
               /\ TopBecomes(r) /\ Tables(r, rec.unk \ {c}, rec.dirs, rec.regs)
               /\ IF "nodir" \in flags THEN GivesNot ELSE Gives(c)
<1>1. stream # <<>> /\ rec \in Records
  BY TopRecord DEF ReadUnknown, Reading
<1>2. PICK c \in rec.unk :
          /\ stream' = Update([rec EXCEPT !.unk = @ \ {c}])
          /\ IF "nodir" \in flags THEN UNCHANGED <<out, pc>> ELSE Give(c)
  BY <1>1, NextName DEF ReadUnknown, Records
<1> DEFINE r == [rec EXCEPT !.unk = @ \ {c}]
<1>3. r \in Records /\ Tables(r, rec.unk \ {c}, rec.dirs, rec.regs)
  BY <1>1 DEF Records, Tables
<1>4. stream' = Update(r)
  BY <1>2
<1> HIDE DEF r
<1>5. TopBecomes(r)
  BY <1>1, <1>3, <1>4, UpdateTop DEF TopBecomes
<1> QED BY <1>2, <1>3, <1>5 DEF Give, Gives, GivesNot

LEMMA RegularRead ==
    ASSUME TypeInv, ReadRegular
    PROVE  \E c \in rec.regs, r \in Records :
               TopBecomes(r) /\ Tables(r, rec.unk, rec.dirs, rec.regs \ {c}) /\ Gives(c)
<1>1. stream # <<>> /\ rec \in Records
  BY TopRecord DEF ReadRegular, Reading
<1>2. PICK c \in rec.regs : stream' = Update([rec EXCEPT !.regs = @ \ {c}]) /\ Give(c)
  BY <1>1, NextName DEF ReadRegular, Records
<1> DEFINE r == [rec EXCEPT !.regs = @ \ {c}]
<1>3. r \in Records /\ Tables(r, rec.unk, rec.dirs, rec.regs \ {c})
  BY <1>1 DEF Records, Tables
<1>4. stream' = Update(r)
  BY <1>2
<1> HIDE DEF r
<1>5. TopBecomes(r)
  BY <1>1, <1>3, <1>4, UpdateTop DEF TopBecomes
<1> QED BY <1>2, <1>3, <1>5 DEF Give, Gives

LEMMA DirectoryRead ==
    ASSUME TypeInv, ReadDirectory
    PROVE  \E c \in rec.dirs, r \in Records :
               /\ TopBecomesUnder(r, Record(c))
               /\ Tables(r, IF "post" \in flags THEN rec.unk \cup {c} ELSE rec.unk,
                            rec.dirs \ {c}, rec.regs)
               /\ IF flags \cap {"post", "nodir"} = {} THEN Gives(c) ELSE GivesNot
<1>1. stream # <<>> /\ rec \in Records
  BY TopRecord DEF ReadDirectory, Reading
<1>2. FirstName(rec.dirs) \in rec.dirs
  BY <1>1, NextName DEF ReadDirectory, Records
<1>3. PICK c \in rec.dirs :
          /\ stream' = Append(Update([rec EXCEPT !.dirs = @ \ {c},
                        !.unk = IF "post" \in flags THEN @ \cup {c} ELSE @]), Record(c))
          /\ IF flags \cap {"post", "nodir"} = {} THEN Give(c) ELSE UNCHANGED <<out, pc>>
  BY <1>2 DEF ReadDirectory
<1> DEFINE r == [rec EXCEPT !.dirs = @ \ {c},
                            !.unk = IF "post" \in flags THEN @ \cup {c} ELSE @]
           u == IF "post" \in flags THEN rec.unk \cup {c} ELSE rec.unk
<1>4. c \in Path /\ c \in Paths /\ u \in SUBSET Path
  BY <1>1 DEF Records, Paths
<1>5. r \in Records /\ Tables(r, u, rec.dirs \ {c}, rec.regs)
  BY <1>1, <1>4 DEF Records, Tables
<1>6. stream' = Append(Update(r), Record(c))
  BY <1>3
<1> HIDE DEF r, u
<1>7. Record(c) \in Records
  BY <1>4, RecordFacts
<1>8. TopBecomesUnder(r, Record(c))
  <2>1. /\ Update(r) \in Seq(Records) /\ Len(Update(r)) = Len(stream)
        /\ Update(r)[Len(stream)] = r
        /\ \A k \in 1 .. (Len(stream) - 1) : Update(r)[k] = stream[k]
        /\ Len(stream) \in Nat /\ Len(stream) >= 1
    BY <1>1, <1>5, UpdateTop, TopRecord
  <2> QED BY <1>6, <1>7, <2>1 DEF TopBecomesUnder
<1>9. Tables(r, IF "post" \in flags THEN rec.unk \cup {c} ELSE rec.unk,
             rec.dirs \ {c}, rec.regs)
  BY <1>5 DEF u
<1> QED BY <1>3, <1>5, <1>8, <1>9 DEF Give, Gives, GivesNot

\* A record that is empty is taken off.
LEMMA EmptyRead ==
    ASSUME TypeInv, ReadEmpty
    PROVE  /\ stream' \in Seq(Records) /\ Len(stream') = Len(stream) - 1
           /\ \A k \in 1 .. (Len(stream) - 1) : stream'[k] = stream[k]
           /\ Table(rec) = {} /\ GivesNot
<1>1. stream # <<>> /\ stream \in Seq(Records) /\ Len(stream) \in Nat /\ Len(stream) >= 1
  BY TopRecord DEF ReadEmpty, Reading, TypeInv
<1>2. stream' = SubSeq(stream, 1, Len(stream) - 1)
  BY DEF ReadEmpty, Front
<1>3. /\ stream' \in Seq(Records) /\ Len(stream') = Len(stream) - 1
      /\ \A k \in 1 .. (Len(stream) - 1) : stream'[k] = stream[k]
  <2>1. \A s \in Seq(Records) : \A n \in 0 .. Len(s) :
           /\ SubSeq(s, 1, n) \in Seq(Records) /\ Len(SubSeq(s, 1, n)) = n
           /\ \A k \in 1 .. n : SubSeq(s, 1, n)[k] = s[k]
    OBVIOUS
  <2>2. Len(stream) - 1 \in 0 .. Len(stream)
    BY <1>1
  <2> QED BY <1>1, <1>2, <2>1, <2>2
<1> QED BY <1>3 DEF ReadEmpty, Table, GivesNot

\* Reading keeps the types.
LEMMA WalkTypes ==
    ASSUME TypeInv, ReadUnknown \/ ReadRegular \/ ReadDirectory \/ ReadEmpty
    PROVE  stream' \in Seq(Records) /\ out' \in Seq(Path) /\ pc' \in {"walk", "given"}
<1>1. rec \in Records /\ out \in Seq(Path) /\ pc = "walk"
  BY TopRecord DEF ReadUnknown, ReadRegular, ReadDirectory, ReadEmpty, Reading, TypeInv
<1>2. \A c \in rec.unk \cup rec.dirs \cup rec.regs : Append(out, c) \in Seq(Path)
  <2>1. \A c \in rec.unk \cup rec.dirs \cup rec.regs : c \in Path
    BY <1>1 DEF Records
  <2> QED BY <1>1, <2>1
<1>3. CASE ReadUnknown
  <2>1. PICK c \in rec.unk : stream' \in Seq(Records) /\ (Gives(c) \/ GivesNot)
    BY <1>3, UnknownRead DEF TopBecomes
  <2> QED BY <1>1, <1>2, <2>1 DEF Gives, GivesNot
<1>4. CASE ReadRegular
  <2>1. PICK c \in rec.regs : stream' \in Seq(Records) /\ Gives(c)
    BY <1>4, RegularRead DEF TopBecomes
  <2> QED BY <1>1, <1>2, <2>1 DEF Gives
<1>5. CASE ReadDirectory
  <2>1. PICK c \in rec.dirs : stream' \in Seq(Records) /\ (Gives(c) \/ GivesNot)
    BY <1>5, DirectoryRead DEF TopBecomesUnder
  <2> QED BY <1>1, <1>2, <2>1 DEF Gives, GivesNot
<1>6. CASE ReadEmpty
  BY <1>1, <1>6, EmptyRead DEF GivesNot
<1> QED BY <1>3, <1>4, <1>5, <1>6

\* Every variable keeps its type.
LEMMA StepType == ASSUME TypeInv, CallInv, MkdirInv, [Next]_vars PROVE TypeInv'
<1>1. Root \in Paths /\ Path \subseteq Paths
  BY DEF Paths
<1>2. CASE Open
  <2>1. Record(Root) \in Records
    BY <1>1, RecordFacts
  <2> QED BY <1>2, <2>1 DEF Open, TypeInv, fsVars
<1>3. CASE DeletePlain \/ DeleteRecursive
  <2>1. fs' = fs \/ (Removable(Root) /\ fs' = [fs EXCEPT ![Root] = "none"])
    BY <1>3 DEF DeletePlain, DeleteRecursive, fsVars
  <2>2. fs' \in [Paths -> Kinds] /\ WellFormed(fs')
    BY <1>1, <2>1, RemoveFs DEF TypeInv
  <2>3. UNCHANGED <<stream, out, stable, target, at>> /\ pc' \in {"open", "done"}
    BY <1>3 DEF DeletePlain, DeleteRecursive
  <2> QED BY <2>2, <2>3 DEF TypeInv
<1>4. CASE \E p \in Path \cup {Root}, parents \in BOOLEAN : Mkdir(p, parents)
  <2>1. PICK p \in Paths, parents \in BOOLEAN : Mkdir(p, parents)
    BY <1>4 DEF Paths
  <2>2. Len(p) \in Nat
    BY PathsFacts
  <2> QED BY <2>1, <2>2 DEF Mkdir, TypeInv, fsVars
<1>5. CASE Walk
  <2>1. CASE ReadUnknown \/ ReadRegular \/ ReadDirectory \/ ReadEmpty
    <3>1. Reading /\ UNCHANGED <<fsVars, target, at, stable>>
      BY <2>1 DEF ReadUnknown, ReadRegular, ReadDirectory, ReadEmpty, Reading
    <3> QED BY <2>1, <3>1, WalkTypes DEF TypeInv, fsVars
  <2>2. CASE EndOfStream
    BY <2>2 DEF EndOfStream, TypeInv, fsVars
  <2> QED BY <1>5, <2>1, <2>2 DEF Walk
<1>6. CASE DeleteEntry
  <2>1. Last(out) \in Paths
    BY <1>1, <1>6 DEF DeleteEntry, CallInv, TypeInv, Last
  <2>2. /\ fs' = fs \/ (Removable(Last(out)) /\ fs' = [fs EXCEPT ![Last(out)] = "none"])
        /\ stable' \subseteq stable
    BY <1>6 DEF DeleteEntry
  <2>3. fs' \in [Paths -> Kinds] /\ WellFormed(fs')
    BY <2>1, <2>2, RemoveFs DEF TypeInv
  <2> QED BY <1>6, <2>2, <2>3 DEF DeleteEntry, TypeInv
<1>7. CASE IterNext \/ IterCollect
  <2>1. /\ UNCHANGED <<fs, out, stable, target, at>> /\ pc' \in {"walk", "closed"}
        /\ stream' \in {stream, <<>>}
    BY <1>7 DEF IterNext, IterCollect, fsVars
  <2>2. stream' \in Seq(Records)
    <3>1. stream \in Seq(Records) /\ <<>> \in Seq(Records)
      BY DEF TypeInv
    <3> QED BY <2>1, <3>1
  <2> QED BY <2>1, <2>2 DEF TypeInv
<1>8. CASE MkdirTry
  <2>1. /\ fs' = fs \/ (fs' = [fs EXCEPT ![Prefix] = "dir"] /\ "ok" \in MkdirResults(Prefix))
        /\ pc' \in {"make", "check", "done"} /\ at' \in {at, at + 1}
    BY <1>8 DEF MkdirTry, NextPrefix
  <2>2. Prefix \in Paths
    <3>1. target \in Paths /\ at \in 0 .. Len(target)
      BY <1>8 DEF TypeInv, MkdirInv
    <3> QED BY <3>1, PrefixPath DEF Prefix
  <2>3. fs' \in [Paths -> Kinds] /\ WellFormed(fs')
    BY <2>1, <2>2, MkdirOk, AddFs DEF TypeInv
  <2> QED BY <1>8, <2>1, <2>3 DEF MkdirTry, TypeInv
<1>9. CASE MkdirCheck
  <2>1. /\ pc' \in {"make", "done"} /\ at' \in {at, at + 1}
        /\ UNCHANGED <<fs, stream, out, stable, target>>
    BY <1>9 DEF MkdirCheck, NextPrefix, fsVars
  <2> QED BY <2>1 DEF TypeInv
<1>10. CASE Others
  <2>1. PICK p \in Paths :
          \/ Vanish(p) /\ stable' = stable \ {p}
          \/ \E kind \in {"reg", "dir"} : Appear(p, kind) /\ UNCHANGED stable
    BY <1>10 DEF Others, Paths
  <2>2. fs' \in [Paths -> Kinds] /\ WellFormed(fs')
    <3>1. CASE Vanish(p)
      BY <3>1, RemoveFs DEF Vanish, TypeInv
    <3>2. ASSUME NEW kind \in {"reg", "dir"}, Appear(p, kind)
          PROVE  fs' \in [Paths -> Kinds] /\ WellFormed(fs')
      BY <3>2, AddFs DEF Appear, TypeInv
    <3> QED BY <2>1, <3>1, <3>2
  <2> QED BY <1>10, <2>1, <2>2 DEF Others, callVars, TypeInv
<1>11. CASE UNCHANGED vars
  BY <1>11 DEF vars, TypeInv
<1> QED BY <1>2, <1>3, <1>4, <1>5, <1>6, <1>7, <1>8, <1>9, <1>10, <1>11 DEF Next, Call

-----------------------------------------------------------------------------
(***************************************************************************)
(* The calls.                                                              *)
(***************************************************************************)
\* What is known of the call that is being made stays true.
LEMMA StepCall == ASSUME TypeInv, CallInv, [Next]_vars PROVE CallInv'
<1>1. CASE Open
  <2>1. stable' = {p \in Path : fs[p] # "none"} /\ fs' = fs
    BY <1>1 DEF Open, fsVars
  <2>2. pc' \in {"walk", "given"} /\ job' = job /\ flags' = flags
        /\ (pc' = "given" => job = "iterdir") /\ (pc' = "walk" => pc = "open")
    BY <1>1 DEF Open
  <2> QED BY <2>1, <2>2 DEF CallInv, Walking, Making
<1>2. CASE DeletePlain \/ DeleteRecursive
  BY <1>2 DEF DeletePlain, DeleteRecursive, CallInv, Walking, Making, fsVars
<1>3. CASE \E p \in Path \cup {Root}, parents \in BOOLEAN : Mkdir(p, parents)
  BY <1>3 DEF Mkdir, CallInv, Walking, Making, fsVars
<1>4. CASE Walk
  <2>1. pc = "walk" /\ UNCHANGED <<fsVars, job, flags, ret, target, at, stable, vanished>>
    BY <1>4 DEF Walk, ReadUnknown, ReadRegular, ReadDirectory, ReadEmpty, Reading, EndOfStream
  <2>2. pc' \in {"walk", "done"} \/ (pc' = "given" /\ out' # <<>>)
    <3>1. \A c : Append(out, c) # <<>>
      BY DEF TypeInv
    <3> QED BY <1>4, <3>1 DEF Walk, ReadUnknown, ReadRegular, ReadDirectory, ReadEmpty,
                              Reading, EndOfStream, Give
  <2> QED BY <2>1, <2>2 DEF CallInv, Walking, Making, fsVars
<1>5. CASE DeleteEntry
  <2>1. /\ pc' = "walk" /\ pc = "given" /\ job' = job /\ flags' = flags
        /\ stable' \subseteq stable
        /\ \A p \in stable' : fs'[p] = fs[p]
    BY <1>5 DEF DeleteEntry, TypeInv, Paths
  <2> QED BY <2>1 DEF CallInv, Walking, Making
<1>6. CASE IterNext \/ IterCollect
  BY <1>6 DEF IterNext, IterCollect, CallInv, Walking, Making, fsVars
<1>7. CASE MkdirTry
  <2>1. /\ pc = "make" /\ pc' \in {"make", "check", "done"} /\ job' = job /\ stable' = stable
        /\ fs' = fs \/ (fs' = [fs EXCEPT ![Prefix] = "dir"])
    BY <1>7 DEF MkdirTry, NextPrefix
  <2>2. \A p \in stable : fs'[p] # "none"
    <3>1. \A p \in stable : p \in Paths /\ fs[p] # "none"
      BY DEF CallInv, TypeInv, Paths
    <3> QED BY <2>1, <3>1 DEF TypeInv
  <2> QED BY <2>1, <2>2 DEF CallInv, Walking, Making
<1>8. CASE MkdirCheck
  <2>1. pc = "check" /\ pc' \in {"make", "done"} /\ UNCHANGED <<fs, job, stable>>
    BY <1>8 DEF MkdirCheck, NextPrefix, fsVars
  <2> QED BY <2>1 DEF CallInv, Walking, Making
<1>9. CASE Others
  <2>1. UNCHANGED callVars /\ pc # "idle"
    BY <1>9 DEF Others
  <2>2. PICK p \in Paths :
          \/ Vanish(p) /\ stable' = stable \ {p}
          \/ \E kind \in {"reg", "dir"} : Appear(p, kind) /\ UNCHANGED stable
    BY <1>9 DEF Others, Paths
  <2>3. \A q \in stable' : fs'[q] # "none"
    BY <2>2 DEF Vanish, Appear, CallInv, TypeInv, Paths
  <2>4. stable' \subseteq stable
    BY <2>2
  <2> QED BY <2>1, <2>3, <2>4 DEF CallInv, Walking, Making, callVars
<1>10. CASE UNCHANGED vars
  BY <1>10 DEF vars, fsVars, CallInv, Walking, Making
<1> QED BY <1>1, <1>2, <1>3, <1>4, <1>5, <1>6, <1>7, <1>8, <1>9, <1>10 DEF Next, Call

-----------------------------------------------------------------------------
(***************************************************************************)
(* mkdir().                                                                *)
(***************************************************************************)
\* The prefix that is tried.
LEMMA PrefixFacts ==
    ASSUME TypeInv, MkdirInv
    PROVE  /\ target \in Seq(Nat) /\ Len(target) \in Nat /\ at \in 0 .. Len(target)
           /\ Prefix \in Paths /\ Len(Prefix) = at
           /\ at = Len(target) => Prefix = target
           /\ Prefix # Root => at \in 1 .. Len(target)
                               /\ Front(Prefix) = SubSeq(target, 1, at - 1)
<1>1. target \in Paths /\ at \in Nat /\ at <= Len(target)
  BY DEF TypeInv, MkdirInv
<1>2. target \in Seq(Nat) /\ Len(target) \in Nat /\ at \in 0 .. Len(target)
  BY <1>1, PathsFacts
<1>3. Prefix \in Paths /\ Len(Prefix) = at /\ (at = Len(target) => Prefix = target)
  BY <1>1, <1>2, FirstNames, PrefixPath DEF Prefix
<1>4. ASSUME Prefix # Root
      PROVE  at \in 1 .. Len(target) /\ Front(Prefix) = SubSeq(target, 1, at - 1)
  <2>1. at # 0
    BY <1>2, <1>4, FirstNames DEF Prefix, Root
  <2>2. at \in 1 .. Len(target) /\ at - 1 \in 0 .. at
    BY <1>2, <2>1
  <2>3. SubSeq(SubSeq(target, 1, at), 1, at - 1) = SubSeq(target, 1, at - 1)
    BY <1>2, <2>2, FirstNames
  <2> QED BY <1>3, <2>2, <2>3 DEF Front, Prefix
<1> QED BY <1>2, <1>3, <1>4

\* The loop of auto_mkdir goes on when the prefix is a directory.
LEMMA MkdirGoesOn ==
    ASSUME TypeInv, MkdirInv, Making, "parents" \in flags, ~vanished, NextPrefix,
           UNCHANGED <<target, flags, ret, job, vanished>>,
           fs' = fs \/ fs' = [fs EXCEPT ![Prefix] = "dir"], fs'[Prefix] = "dir"
    PROVE  MkdirInv' /\ MkdirTellsTruth'
<1>1. /\ target \in Seq(Nat) /\ Len(target) \in Nat /\ at \in 0 .. Len(target)
      /\ Prefix \in Paths /\ (at = Len(target) => Prefix = target)
  BY PrefixFacts
<1>2. ret = "ok" /\ \A n \in 0 .. (at - 1) : fs[SubSeq(target, 1, n)] = "dir"
  BY DEF MkdirInv
<1>3. \A n \in 0 .. at : fs'[SubSeq(target, 1, n)] = "dir"
  <2>1. TAKE n \in 0 .. at
  <2>2. CASE n = at
    BY <2>2 DEF Prefix
  <2>3. CASE n # at
    <3>1. n \in 0 .. (at - 1) /\ n \in 0 .. Len(target)
      BY <1>1, <2>3
    <3>2. SubSeq(target, 1, n) \in Paths /\ fs[SubSeq(target, 1, n)] = "dir"
      BY <1>2, <3>1, PrefixPath DEF TypeInv
    <3> QED BY <3>2 DEF TypeInv
  <2> QED BY <2>2, <2>3
<1>4. CASE at = Len(target)
  <2>1. pc' = "done" /\ at' = at /\ fs'[target] = "dir"
    BY <1>1, <1>4 DEF NextPrefix
  <2> QED BY <1>1, <1>2, <2>1 DEF MkdirInv, MkdirTellsTruth, Making
<1>5. CASE at # Len(target)
  <2>1. pc' = "make" /\ at' = at + 1 /\ at + 1 <= Len(target) /\ (at + 1) - 1 = at
    BY <1>1, <1>5 DEF NextPrefix
  <2> QED BY <1>2, <1>3, <2>1 DEF MkdirInv, MkdirTellsTruth, Making
<1> QED BY <1>4, <1>5

\* mkdir() tells the truth.
LEMMA StepMkdir ==
    ASSUME TypeInv, CallInv, MkdirInv, MkdirTellsTruth, [Next]_vars
    PROVE  MkdirInv' /\ MkdirTellsTruth'
<1> USE DEF Making
<1>1. CASE Call
  <2>1. CASE Open \/ DeletePlain \/ DeleteRecursive
    <3>1. /\ pc' \in {"open", "walk", "given"} \/ (pc' = "done" /\ job' = "delete")
          /\ UNCHANGED <<target, at>>
      BY <2>1 DEF Open, DeletePlain, DeleteRecursive
    <3> QED BY <3>1 DEF MkdirInv, MkdirTellsTruth
  <2>2. CASE \E p \in Path \cup {Root}, parents \in BOOLEAN : Mkdir(p, parents)
    <3>1. PICK p \in Paths, parents \in BOOLEAN : Mkdir(p, parents)
      BY <2>2 DEF Paths
    <3>2. Len(p) \in Nat
      BY PathsFacts
    <3>3. at' <= Len(target') /\ (parents => at' = 0) /\ ("parents" \in flags' => parents)
      BY <3>1, <3>2 DEF Mkdir
    <3>4. pc' = "make" /\ ret' = "ok"
      BY <3>1 DEF Mkdir, CallInv
    <3> QED BY <3>3, <3>4 DEF MkdirInv, MkdirTellsTruth
  <2> QED BY <1>1, <2>1, <2>2 DEF Call
<1>2. CASE Walk \/ DeleteEntry \/ IterNext \/ IterCollect
  <2>1. /\ pc \in {"walk", "given"} /\ pc' \in {"walk", "given", "done", "closed"}
        /\ UNCHANGED <<job, target, at>>
    BY <1>2 DEF Walk, ReadUnknown, ReadRegular, ReadDirectory, ReadEmpty, Reading, EndOfStream,
                DeleteEntry, IterNext, IterCollect, Give
  <2> QED BY <2>1 DEF MkdirInv, MkdirTellsTruth, CallInv, Walking
<1>3. CASE MkdirTry
  <2>1. UNCHANGED <<target, flags, job, vanished>> /\ pc = "make"
    BY <1>3 DEF MkdirTry
  <2>2. CASE "parents" \notin flags \/ vanished
    <3>1. PICK result \in MkdirResults(Prefix) :
            CASE result = "ok" -> NextPrefix /\ UNCHANGED ret
              [] result = "EEXIST" /\ "parents" \in flags ->
                   pc' = "check" /\ UNCHANGED <<ret, at>>
              [] OTHER -> pc' = "done" /\ ret' = result /\ UNCHANGED at
      BY <1>3 DEF MkdirTry
    <3>2. ret = "ok" /\ at \in 0 .. Len(target) /\ Len(target) \in Nat
      BY <2>1, PrefixFacts DEF MkdirInv
    <3>3. at' <= Len(target)
      BY <3>1, <3>2 DEF NextPrefix
    <3>4. /\ pc' \in {"make", "check"} => ret' = "ok"
          /\ "parents" \in flags => ret' # "EEXIST"
      BY <3>1, <3>2 DEF NextPrefix
    <3> QED BY <2>1, <2>2, <3>3, <3>4 DEF MkdirInv, MkdirTellsTruth
  <2>3. CASE "parents" \in flags /\ ~vanished
    <3>1. ASSUME Prefix # Root PROVE fs[Front(Prefix)] = "dir"
      <4>1. at - 1 \in 0 .. (at - 1) /\ Front(Prefix) = SubSeq(target, 1, at - 1)
        BY <3>1, PrefixFacts
      <4>2. \A n \in 0 .. (at - 1) : fs[SubSeq(target, 1, n)] = "dir"
        BY <2>1, <2>3 DEF MkdirInv
      <4> QED BY <4>1, <4>2
    <3>2. PICK result \in MkdirResults(Prefix) :
            CASE result = "ok" ->
                   fs' = [fs EXCEPT ![Prefix] = "dir"] /\ NextPrefix /\ UNCHANGED ret
              [] result = "EEXIST" /\ "parents" \in flags ->
                   pc' = "check" /\ UNCHANGED <<fs, ret, at>>
              [] OTHER -> pc' = "done" /\ ret' = result /\ UNCHANGED <<fs, at>>
      BY <1>3 DEF MkdirTry
    <3>3. CASE result = "ok"
      <4>1. fs' = [fs EXCEPT ![Prefix] = "dir"] /\ NextPrefix /\ ret' = ret
        BY <3>2, <3>3
      <4>2. fs'[Prefix] = "dir"
        BY <4>1, PrefixFacts DEF TypeInv
      <4> QED BY <2>1, <2>3, <4>1, <4>2, MkdirGoesOn
    <3>4. CASE result = "EEXIST"
      <4>1. pc' = "check" /\ UNCHANGED <<fs, ret, at>>
        BY <2>3, <3>2, <3>4
      <4>2. fs[Prefix] # "none"
        BY <3>1, <3>2, <3>4, MkdirErrors
      <4> QED BY <2>1, <2>3, <4>1, <4>2 DEF MkdirInv, MkdirTellsTruth, Prefix
    <3>5. CASE result = "refused"
      <4>1. pc' = "done" /\ ret' = "refused" /\ at' = at
        BY <3>2, <3>5
      <4> QED BY <2>1, <4>1 DEF MkdirInv, MkdirTellsTruth
    <3>6. result \in {"ok", "EEXIST", "refused"}
      BY <3>1, <3>2, MkdirErrors
    <3> QED BY <3>3, <3>4, <3>5, <3>6
  <2> QED BY <2>2, <2>3
<1>4. CASE MkdirCheck
  <2>1. UNCHANGED <<fs, target, flags, job, vanished>> /\ pc = "check"
    BY <1>4 DEF MkdirCheck, fsVars
  <2>2. PICK result \in StatResults(Prefix) :
          IF result = "dir" THEN NextPrefix /\ UNCHANGED ret
          ELSE /\ ret' = IF result = "reg" THEN "ENOTDIR" ELSE result
               /\ pc' = "done" /\ UNCHANGED at
    BY <1>4 DEF MkdirCheck
  <2>3. /\ result \in Kinds => result = fs[Prefix]
        /\ result \in {"reg", "dir", "ENOTDIR", "ENOENT", "refused"}
        /\ fs[Prefix] # "none" => result \in {"refused", fs[Prefix]}
    BY <2>2, PrefixFacts, StatKinds DEF TypeInv
  <2>4. CASE "parents" \notin flags \/ vanished
    <3>1. ret = "ok" /\ at \in 0 .. Len(target) /\ Len(target) \in Nat
      BY <2>1, PrefixFacts DEF MkdirInv
    <3>2. at' <= Len(target)
      BY <2>2, <3>1 DEF NextPrefix
    <3>3. /\ pc' \in {"make", "check"} => ret' = "ok"
          /\ ret' # "EEXIST"
      BY <2>2, <2>3, <3>1 DEF NextPrefix
    <3> QED BY <2>1, <2>4, <3>2, <3>3 DEF MkdirInv, MkdirTellsTruth
  <2>5. CASE "parents" \in flags /\ ~vanished
    <3>1. CASE result = "dir"
      <4>1. NextPrefix /\ ret' = ret /\ fs[Prefix] = "dir"
        BY <2>2, <2>3, <3>1 DEF Kinds
      <4> QED BY <2>1, <2>5, <4>1, MkdirGoesOn
    <3>2. CASE result = "reg"
      <4>1. pc' = "done" /\ ret' = "ENOTDIR" /\ at' = at /\ fs[Prefix] = "reg"
        BY <2>2, <2>3, <3>2 DEF Kinds
      <4>2. \E n \in 0 .. Len(target) : fs[SubSeq(target, 1, n)] = "reg"
        BY <4>1, PrefixFacts DEF Prefix
      <4> QED BY <2>1, <4>1, <4>2 DEF MkdirInv, MkdirTellsTruth
    <3>3. CASE result = "refused"
      <4>1. pc' = "done" /\ ret' = "refused" /\ at' = at
        BY <2>2, <3>3
      <4> QED BY <2>1, <4>1 DEF MkdirInv, MkdirTellsTruth
    <3>4. fs[Prefix] \in {"reg", "dir"}
      <4>1. fs[Prefix] # "none" /\ fs[Prefix] \in Kinds
        BY <2>1, <2>5, PrefixFacts DEF MkdirInv, TypeInv
      <4> QED BY <4>1 DEF Kinds
    <3> QED BY <2>3, <3>1, <3>2, <3>3, <3>4
  <2> QED BY <2>4, <2>5
<1>5. CASE Others
  <2>1. UNCHANGED callVars /\ pc # "done"
    BY <1>5 DEF Others
  <2>2. PICK p \in Paths :
          \/ vanished' = TRUE
          \/ \E kind \in {"reg", "dir"} : Appear(p, kind) /\ UNCHANGED vanished
    BY <1>5 DEF Others, Paths
  <2>3. CASE vanished'
    BY <2>1, <2>3 DEF MkdirInv, MkdirTellsTruth, callVars
  <2>4. ASSUME NEW kind \in {"reg", "dir"}, Appear(p, kind), UNCHANGED vanished
        PROVE  MkdirInv' /\ MkdirTellsTruth'
    <3>1. \A q \in Paths : fs[q] # "none" => fs'[q] = fs[q]
      BY <2>4 DEF Appear, TypeInv
    <3>2. \A n \in 0 .. (at - 1) : SubSeq(target, 1, n) \in Paths
      <4>1. \A n \in 0 .. (at - 1) : n \in 0 .. Len(target)
        BY PrefixFacts
      <4> QED BY <4>1, PrefixPath DEF TypeInv
    <3>3. Prefix \in Paths /\ Prefix' = Prefix
      BY <2>1, PrefixFacts DEF Prefix, callVars
    <3> QED BY <2>1, <2>4, <3>1, <3>2, <3>3 DEF MkdirInv, MkdirTellsTruth, callVars
  <2> QED BY <2>2, <2>3, <2>4
<1>6. CASE UNCHANGED vars
  BY <1>6 DEF vars, fsVars, MkdirInv, MkdirTellsTruth, Prefix
<1> QED BY <1>1, <1>2, <1>3, <1>4, <1>5, <1>6 DEF Next

-----------------------------------------------------------------------------
(***************************************************************************)
(* The stream.                                                             *)
(***************************************************************************)
\* Where the top record is.
LEMMA TopFacts ==
    ASSUME TypeInv, StreamInv, stream # <<>>
    PROVE  /\ Len(stream) \in Nat /\ Len(stream) >= 1 /\ RecordInv(Len(stream))
           /\ rec = stream[Len(stream)] /\ rec \in Records
           /\ rec.path \in Paths /\ rec.path \in Seq(Nat)
           /\ \A x \in Table(rec) : x \in Path /\ x \in Seq(Nat) /\ Len(x) = Len(stream)
<1>1. /\ Len(stream) \in Nat /\ Len(stream) >= 1 /\ RecordInv(Len(stream))
      /\ rec = stream[Len(stream)] /\ rec \in Records
  BY TopRecord DEF StreamInv
<1>2. rec.path \in Paths /\ rec.path \in Seq(Nat)
  BY <1>1, PathsFacts DEF Records
<1>3. ASSUME NEW x \in Table(rec) PROVE x \in Path /\ x \in Seq(Nat) /\ Len(x) = Len(stream)
  <2>1. x \in Path /\ Front(x) = rec.path /\ Len(rec.path) = Len(stream) - 1
    BY <1>1, <1>3 DEF Table, Records, RecordInv
  <2>2. Len(Front(x)) = Len(x) - 1 /\ Len(x) \in Nat /\ x \in Seq(Nat)
    BY <2>1, PathFacts, PrefixFront
  <2> QED BY <1>1, <2>1, <2>2
<1> QED BY <1>1, <1>2, <1>3

\* A record below that does not change hangs where it hung.
LEMMA RecordKept ==
    ASSUME StreamInv, flags' = flags, NEW k \in 1 .. Len(stream),
           \A j \in 1 .. k : stream'[j] = stream[j]
    PROVE  RecordInv(k)'
<1>1. RecordInv(k) /\ k \in 1 .. k /\ \A j \in 1 .. (k - 1) : j \in 1 .. k
  BY DEF StreamInv
<1> QED BY <1>1 DEF RecordInv

\* Taking entries from the top record.
LEMMA TopShrinks ==
    ASSUME TypeInv, StreamInv, stream # <<>>, flags' = flags, NEW r \in Records,
           TopBecomes(r), r.path = rec.path, r.unk \subseteq rec.unk,
           r.dirs \subseteq rec.dirs, r.regs \subseteq rec.regs
    PROVE  StreamInv'
<1>1. Len(stream) \in Nat /\ Len(stream) >= 1 /\ RecordInv(Len(stream)) /\ rec = stream[Len(stream)]
  BY TopFacts
<1>2. ASSUME NEW k \in 1 .. Len(stream), k # Len(stream) PROVE RecordInv(k)'
  <2>1. \A j \in 1 .. k : stream'[j] = stream[j]
    BY <1>1, <1>2 DEF TopBecomes
  <2> QED BY <2>1, RecordKept
<1>3. RecordInv(Len(stream))'
  <2>1. \A j \in 1 .. (Len(stream) - 1) : stream'[j] = stream[j]
    BY DEF TopBecomes
  <2>2. stream'[Len(stream)] = r /\ Len(stream') = Len(stream)
    BY DEF TopBecomes
  <2> QED BY <1>1, <2>1, <2>2 DEF RecordInv, Table
<1> QED BY <1>2, <1>3 DEF StreamInv, TopBecomes

\* Descending into a directory.
LEMMA TopGrows ==
    ASSUME TypeInv, StreamInv, stream # <<>>, flags' = flags, NEW c \in rec.dirs,
           NEW r \in Records, TopBecomesUnder(r, Record(c)),
           Tables(r, IF "post" \in flags THEN rec.unk \cup {c} ELSE rec.unk,
                  rec.dirs \ {c}, rec.regs)
    PROVE  StreamInv'
<1>0. PICK n \in Nat : n = Len(stream)
  BY TopFacts
<1>1. /\ n \in Nat /\ n >= 1 /\ RecordInv(n) /\ rec = stream[n]
      /\ c \in Path /\ c \in Paths /\ c \in Seq(Nat) /\ Len(c) = n
      /\ rec.path \in Seq(Nat)
  BY <1>0, TopFacts DEF Table, Paths
<1>2. /\ Len(stream') = n + 1 /\ stream'[n] = r /\ stream'[n + 1] = Record(c)
      /\ \A j \in 1 .. (n - 1) : stream'[j] = stream[j]
  BY <1>0 DEF TopBecomesUnder
<1>3. /\ r.path = rec.path /\ r.dirs = rec.dirs \ {c} /\ r.regs = rec.regs
      /\ r.unk \subseteq rec.unk \cup {c} /\ ("post" \notin flags => r.unk = rec.unk)
  BY DEF Tables
<1>4. Front(c) = rec.path /\ Len(rec.path) = n - 1
  BY <1>1 DEF RecordInv, Table
<1>5. ASSUME NEW k \in 1 .. (n - 1) PROVE RecordInv(k)'
  <2>1. k \in 1 .. Len(stream) /\ \A j \in 1 .. k : stream'[j] = stream[j]
    BY <1>0, <1>1, <1>2
  <2> QED BY <2>1, RecordKept
<1>6. RecordInv(n)'
  <2>1. \A x \in Table(r) : Front(x) = r.path
    BY <1>1, <1>3, <1>4 DEF RecordInv, Table
  <2>2. r.dirs \cap r.regs = {} /\ r.unk \cap (r.dirs \cup r.regs) = {}
    BY <1>1, <1>3 DEF RecordInv
  <2>3. "post" \notin flags => r.unk = {}
    BY <1>1, <1>3 DEF RecordInv
  <2>4. \A j \in 1 .. (n - 1) : SubSeq(r.path, 1, j) \notin stream'[j].dirs \cup stream'[j].regs
    BY <1>1, <1>2, <1>3 DEF RecordInv
  <2> QED BY <1>2, <1>3, <1>4, <2>1, <2>2, <2>3, <2>4 DEF RecordInv
<1>7. RecordInv(n + 1)'
  <2>1. /\ Record(c).path = c /\ Record(c).unk = {}
        /\ Record(c).dirs \cap Record(c).regs = {}
        /\ \A x \in Record(c).dirs \cup Record(c).regs : Front(x) = c
    BY <1>1, RecordFacts
  <2>2. ASSUME NEW j \in 1 .. n PROVE SubSeq(c, 1, j) \notin stream'[j].dirs \cup stream'[j].regs
    <3>1. CASE j = n
      <4>1. SubSeq(c, 1, j) = c
        BY <1>1, <3>1, FirstNames
      <4>2. c \notin r.dirs \cup r.regs
        BY <1>1, <1>3 DEF RecordInv
      <4> QED BY <1>2, <3>1, <4>1, <4>2
    <3>2. CASE j # n
      <4>1. j \in 1 .. (n - 1) /\ j \in 0 .. (n - 1) /\ n - 1 \in 0 .. Len(c)
        BY <1>1, <3>2
      <4>2. SubSeq(c, 1, j) = SubSeq(rec.path, 1, j)
        <5>1. SubSeq(SubSeq(c, 1, n - 1), 1, j) = SubSeq(c, 1, j)
          BY <1>1, <4>1, FirstNames
        <5>2. rec.path = SubSeq(c, 1, n - 1)
          BY <1>1, <1>4 DEF Front
        <5> QED BY <5>1, <5>2
      <4>3. SubSeq(rec.path, 1, j) \notin stream[j].dirs \cup stream[j].regs
        BY <1>1, <4>1 DEF RecordInv
      <4> QED BY <1>2, <4>1, <4>2, <4>3
    <3> QED BY <3>1, <3>2
  <2>3. (n + 1) - 1 = n
    BY <1>1
  <2>4. PICK s \in Records : s = Record(c)
    BY <1>1, RecordFacts
  <2>5. \A x \in Table(s) : Front(x) = s.path
    BY <2>1, <2>4 DEF Table
  <2>6. /\ s.path = c /\ s.unk = {} /\ s.dirs \cap s.regs = {}
        /\ s.unk \cap (s.dirs \cup s.regs) = {}
    BY <2>1, <2>4
  <2>7. stream'[n + 1] = s
    BY <1>2, <2>4
  <2>8. /\ Len(stream'[n + 1].path) = (n + 1) - 1
        /\ \A j \in 1 .. ((n + 1) - 1) : SubSeq(stream'[n + 1].path, 1, j)
                                          \notin stream'[j].dirs \cup stream'[j].regs
    BY <1>1, <2>2, <2>3, <2>6, <2>7
  <2> QED BY <2>5, <2>6, <2>7, <2>8 DEF RecordInv
<1>8. \A k \in 1 .. (n + 1) : RecordInv(k)'
  <2>1. TAKE k \in 1 .. (n + 1)
  <2>2. k \in 1 .. (n - 1) \/ k = n \/ k = n + 1
    BY <1>1
  <2>3. CASE k \in 1 .. (n - 1)
    BY <1>5, <2>3
  <2>4. CASE k = n
    BY <1>6, <2>4
  <2>5. CASE k = n + 1
    BY <1>7, <2>5
  <2> QED BY <2>2, <2>3, <2>4, <2>5
<1> QED BY <1>2, <1>8 DEF StreamInv

\* What is left when the top record is taken off.
LEMMA TopDrops ==
    ASSUME TypeInv, StreamInv, ReadEmpty PROVE StreamInv'
<1>1. /\ Len(stream) \in Nat /\ Len(stream') = Len(stream) - 1
      /\ \A k \in 1 .. (Len(stream) - 1) : stream'[k] = stream[k]
      /\ flags' = flags
  BY EmptyRead, TopRecord DEF ReadEmpty, Reading
<1>2. ASSUME NEW k \in 1 .. (Len(stream) - 1) PROVE RecordInv(k)'
  <2>1. k \in 1 .. Len(stream) /\ \A j \in 1 .. k : stream'[j] = stream[j]
    BY <1>1
  <2> QED BY <1>1, <2>1, RecordKept
<1> QED BY <1>1, <1>2 DEF StreamInv

\* The steps that leave the stream alone, or take it away.
LEMMA NoReading ==
    ASSUME TypeInv, CallInv, [Next]_vars,
           ~(Open \/ ReadUnknown \/ ReadRegular \/ ReadDirectory \/ ReadEmpty)
    PROVE  /\ out' = out
           /\ \/ stream' = <<>> /\ Len(stream') = 0
              \/ stream' = stream /\ flags' = flags
<1>1. CASE \E p \in Path \cup {Root}, parents \in BOOLEAN : Mkdir(p, parents)
  BY <1>1 DEF Mkdir, CallInv
<1>2. CASE DeletePlain \/ DeleteRecursive \/ EndOfStream \/ DeleteEntry \/ IterNext
  BY <1>2 DEF DeletePlain, DeleteRecursive, EndOfStream, DeleteEntry, IterNext
<1>3. CASE IterCollect
  BY <1>3 DEF IterCollect
<1>4. CASE MkdirTry \/ MkdirCheck \/ Others \/ UNCHANGED vars
  BY <1>4 DEF MkdirTry, MkdirCheck, Others, callVars, vars
<1> QED BY <1>1, <1>2, <1>3, <1>4 DEF Next, Call, Walk

\* The records hang together.
LEMMA StepStream == ASSUME TypeInv, CallInv, StreamInv, [Next]_vars PROVE StreamInv'
<1>1. CASE Open
  <2>1. stream' = <<Record(Root)>> /\ Root \in Paths
    BY <1>1 DEF Open, Paths
  <2>2. Len(stream') = 1 /\ stream'[1] = Record(Root)
    BY <2>1
  <2>3. RecordInv(1)'
    BY <2>1, <2>2, RecordFacts DEF RecordInv, Table, Root
  <2> QED BY <2>2, <2>3 DEF StreamInv
<1>2. CASE ReadUnknown
  BY <1>2, UnknownRead, TopShrinks DEF Tables, ReadUnknown, Reading
<1>3. CASE ReadRegular
  BY <1>3, RegularRead, TopShrinks DEF Tables, ReadRegular, Reading
<1>4. CASE ReadDirectory
  BY <1>4, DirectoryRead, TopGrows DEF ReadDirectory, Reading
<1>5. CASE ReadEmpty
  BY <1>5, TopDrops
<1>6. CASE ~(Open \/ ReadUnknown \/ ReadRegular \/ ReadDirectory \/ ReadEmpty)
  BY <1>6, NoReading DEF StreamInv, RecordInv
<1> QED BY <1>1, <1>2, <1>3, <1>4, <1>5, <1>6

-----------------------------------------------------------------------------
(***************************************************************************)
(* The order of what is reported.                                          *)
(***************************************************************************)
\* The entries of the k-th record are k names long.
LEMMA EntryFacts ==
    ASSUME TypeInv, StreamInv, NEW k \in 1 .. Len(stream), NEW x \in Table(stream[k])
    PROVE  x \in Path /\ x \in Seq(Nat) /\ Len(x) = k
<1>1. stream[k] \in Records /\ k \in Nat
  BY DEF TypeInv
<1>2. x \in Path /\ Front(x) = stream[k].path /\ Len(stream[k].path) = k - 1
  BY <1>1 DEF Table, Records, StreamInv, RecordInv
<1>3. Len(Front(x)) = Len(x) - 1 /\ Len(x) \in Nat /\ x \in Seq(Nat)
  BY <1>2, PathFacts, PrefixFront
<1> QED BY <1>1, <1>2, <1>3

\* The entry that is taken is not above anything pending, and nothing that is
\* still to be read is above it.
LEMMA Apart ==
    ASSUME TypeInv, StreamInv, stream # <<>>, NEW c \in Table(rec),
           NEW k \in 1 .. Len(stream), NEW x \in Table(stream[k]), x # c
    PROVE  /\ ~IsPrefix(c, x)
           /\ x \in stream[k].dirs \cup stream[k].regs => ~IsPrefix(x, c)
<1>0. PICK n \in Nat : n = Len(stream)
  BY TopFacts
<1>1. /\ c \in Path /\ c \in Seq(Nat) /\ Len(c) = n /\ rec = stream[n] /\ RecordInv(n)
      /\ k \in 1 .. n
  BY <1>0, TopFacts
<1>2. x \in Path /\ x \in Seq(Nat) /\ Len(x) = k
  BY EntryFacts
<1>3. ~IsPrefix(c, x)
  BY <1>1, <1>2, PrefixOrder
<1>4. ASSUME x \in stream[k].dirs \cup stream[k].regs, IsPrefix(x, c) PROVE FALSE
  <2>1. k # n /\ SubSeq(c, 1, k) = x
    BY <1>1, <1>2, <1>4, PrefixOrder
  <2>2. k \in 1 .. (n - 1) /\ k \in 0 .. (n - 1) /\ n - 1 \in 0 .. Len(c)
    BY <1>1, <2>1
  <2>3. rec.path = SubSeq(c, 1, n - 1)
    BY <1>1 DEF RecordInv, Front
  <2>4. SubSeq(rec.path, 1, k) = SubSeq(c, 1, k)
    BY <1>1, <2>2, <2>3, FirstNames
  <2>5. SubSeq(rec.path, 1, k) \notin stream[k].dirs \cup stream[k].regs
    BY <1>1, <2>2 DEF RecordInv
  <2> QED BY <1>4, <2>1, <2>4, <2>5
<1> QED BY <1>3, <1>4

\* An entry that is reported now comes after those reported before.
LEMMA OnceGives ==
    ASSUME TypeInv, StreamInv, OrderInv, OnceAndInOrder, stream # <<>>, flags' = flags,
           NEW c \in Table(rec), Gives(c)
    PROVE  OnceAndInOrder'
<1>1. out \in Seq(Path) /\ c \in Path /\ c \in Seq(Nat) /\ Len(out) \in Nat
  BY TopFacts DEF TypeInv
<1>2. /\ out' = Append(out, c) /\ Len(out') = Len(out) + 1 /\ out'[Len(out) + 1] = c
      /\ \A i \in 1 .. Len(out) : out'[i] = out[i]
  BY <1>1 DEF Gives
<1>3. ASSUME NEW o \in ToSet(out)
      PROVE  o # c /\ IF "post" \in flags THEN ~Below(o, c) ELSE ~Below(c, o)
  <2>1. /\ \A x \in rec.dirs \cup rec.regs : ~IsPrefix(x, o)
        /\ "post" \in flags => ~IsPrefix(o, c)
        /\ "post" \notin flags => rec.unk = {}
    BY <1>3, TopFacts DEF OrderInv, Over, RecordInv
  <2>2. "post" \notin flags => ~IsPrefix(c, o)
    BY <2>1 DEF Table
  <2>3. IsPrefix(c, c)
    BY <1>1, PrefixOrder
  <2> QED BY <2>1, <2>2, <2>3 DEF Below, IsStrictPrefix
<1>4. SUFFICES ASSUME NEW i \in 1 .. (Len(out) + 1), NEW j \in 1 .. (Len(out) + 1), i < j
               PROVE  /\ out'[i] # out'[j]
                      /\ IF "post" \in flags THEN ~Below(out'[i], out'[j])
                                             ELSE ~Below(out'[j], out'[i])
  BY <1>1, <1>2 DEF OnceAndInOrder
<1>5. i \in 1 .. Len(out) /\ out'[i] = out[i] /\ out[i] \in ToSet(out)
  BY <1>1, <1>2, <1>4 DEF ToSet
<1>6. CASE j = Len(out) + 1
  BY <1>2, <1>3, <1>5, <1>6
<1>7. CASE j # Len(out) + 1
  <2>1. j \in 1 .. Len(out) /\ out'[j] = out[j]
    BY <1>1, <1>2, <1>7
  <2> QED BY <1>1, <1>4, <1>5, <2>1 DEF OnceAndInOrder
<1> QED BY <1>6, <1>7

\* Each table has lost something, or nothing.
Fewer ==
    \A k \in 1 .. Len(stream') :
        /\ k \in 1 .. Len(stream)
        /\ stream'[k].dirs \cup stream'[k].regs \subseteq stream[k].dirs \cup stream[k].regs
        /\ Table(stream'[k]) \subseteq Table(stream[k])

\* An entry of the top record has left all of them.
Gone(c) == \A k \in 1 .. Len(stream') : c \notin Table(stream'[k])

LEMMA FewerOld ==
    ASSUME Fewer, flags' = flags, NEW o, Over(o) PROVE Over(o)'
  BY DEF Fewer, Over

LEMMA FewerNew ==
    ASSUME TypeInv, StreamInv, stream # <<>>, Fewer, flags' = flags,
           NEW c \in Table(rec), Gone(c)
    PROVE  Over(c)'
<1>1. ASSUME NEW k \in 1 .. Len(stream')
      PROVE  /\ \A x \in stream'[k].dirs \cup stream'[k].regs : ~IsPrefix(x, c)
             /\ \A x \in Table(stream'[k]) : ~IsPrefix(c, x)
  <2>1. /\ k \in 1 .. Len(stream) /\ c \notin Table(stream'[k])
        /\ stream'[k].dirs \cup stream'[k].regs \subseteq stream[k].dirs \cup stream[k].regs
        /\ Table(stream'[k]) \subseteq Table(stream[k])
    BY <1>1 DEF Fewer, Gone
  <2>2. stream'[k].dirs \cup stream'[k].regs \subseteq Table(stream'[k])
    BY DEF Table
  <2> QED BY <2>1, <2>2, Apart
<1> QED BY <1>1 DEF Over

\* What taking an entry from a table of the top record leaves.
LEMMA ShrinksFewer ==
    ASSUME TypeInv, StreamInv, stream # <<>>, NEW r \in Records, TopBecomes(r),
           r.unk \subseteq rec.unk, r.dirs \subseteq rec.dirs, r.regs \subseteq rec.regs
    PROVE  Fewer /\ \A c \in Table(rec) : c \notin Table(r) => Gone(c)
<1>1. PICK n \in Nat : n = Len(stream)
  BY TopFacts
<1>2. /\ Len(stream') = n /\ stream'[n] = r /\ rec = stream[n]
      /\ \A k \in 1 .. (n - 1) : stream'[k] = stream[k]
  BY <1>1, TopFacts DEF TopBecomes
<1>3. /\ r.dirs \cup r.regs \subseteq rec.dirs \cup rec.regs
      /\ Table(r) \subseteq Table(rec)
  BY DEF Table
<1>4. ASSUME NEW k \in 1 .. n PROVE k = n \/ k \in 1 .. (n - 1)
  BY <1>1
<1>5. Fewer
  BY <1>1, <1>2, <1>3, <1>4 DEF Fewer
<1>6. ASSUME NEW c \in Table(rec), c \notin Table(r), NEW k \in 1 .. n
      PROVE  c \notin Table(stream'[k])
  <2>1. Len(c) = n
    BY <1>1, TopFacts
  <2>2. CASE k = n
    BY <1>2, <1>6, <2>2
  <2>3. CASE k \in 1 .. (n - 1)
    <3>1. k # n /\ k \in 1 .. Len(stream) /\ stream'[k] = stream[k]
      BY <1>1, <1>2, <2>3
    <3> QED BY <2>1, <3>1, EntryFacts
  <2> QED BY <1>4, <2>2, <2>3
<1> QED BY <1>2, <1>5, <1>6 DEF Gone

\* The elements after a step that reports an entry, or does not.
LEMMA OrderOut ==
    ASSUME TypeInv, NEW c \in Path, \A o \in ToSet(out) : Over(o)', Gives(c) => Over(c)',
           Gives(c) \/ out' = out
    PROVE  OrderInv'
<1>1. CASE out' = out
  BY <1>1 DEF OrderInv
<1>2. CASE Gives(c)
  <2>1. ToSet(Append(out, c)) = ToSet(out) \cup {c}
    BY AppendNode DEF TypeInv
  <2> QED BY <1>2, <2>1 DEF OrderInv, Gives
<1> QED BY <1>1, <1>2

\* Descending keeps the order.
LEMMA GrowsOrder ==
    ASSUME TypeInv, StreamInv, OrderInv, stream # <<>>, flags' = flags, NEW c \in rec.dirs,
           NEW r \in Records, TopBecomesUnder(r, Record(c)),
           Tables(r, IF "post" \in flags THEN rec.unk \cup {c} ELSE rec.unk,
                  rec.dirs \ {c}, rec.regs)
    PROVE  (\A o \in ToSet(out) : Over(o)') /\ ("post" \notin flags => Over(c)')
<1>0. PICK n \in Nat : n = Len(stream)
  BY TopFacts
<1>1. /\ n >= 1 /\ RecordInv(n) /\ rec = stream[n] /\ c \in Table(rec)
      /\ c \in Path /\ c \in Paths /\ c \in Seq(Nat) /\ Len(c) = n
  BY <1>0, TopFacts DEF Table, Paths
<1>2. /\ Len(stream') = n + 1 /\ stream'[n] = r /\ stream'[n + 1] = Record(c)
      /\ \A j \in 1 .. (n - 1) : stream'[j] = stream[j]
  BY <1>0 DEF TopBecomesUnder
<1>3. /\ r.dirs \cup r.regs \subseteq rec.dirs \cup rec.regs
      /\ Table(r) \subseteq Table(rec) /\ c \notin r.dirs \cup r.regs
      /\ "post" \notin flags => c \notin Table(r)
  BY <1>1 DEF Tables, Table, RecordInv
<1>4. ASSUME NEW k \in 1 .. (n + 1)
      PROVE  \/ k \in 1 .. n /\ k \in 1 .. Len(stream) 
             \/ k = n + 1
  BY <1>0
<1>5. ASSUME NEW k \in 1 .. n
      PROVE  /\ stream'[k].dirs \cup stream'[k].regs \subseteq stream[k].dirs \cup stream[k].regs
             /\ Table(stream'[k]) \subseteq Table(stream[k])
             /\ "post" \notin flags => c \notin Table(stream'[k])
  <2>1. CASE k = n
    BY <1>1, <1>2, <1>3, <2>1
  <2>2. CASE k # n
    <3>1. k \in 1 .. (n - 1) /\ k \in 1 .. Len(stream)
      BY <1>0, <2>2
    <3>2. c \notin Table(stream[k])
      BY <1>1, <2>2, <3>1, EntryFacts
    <3> QED BY <1>2, <3>1, <3>2
  <2> QED BY <2>1, <2>2
<1>6. ASSUME NEW x \in Table(Record(c))
      PROVE  x \in Path /\ x \in Seq(Nat) /\ Front(x) = c /\ IsPrefix(c, x) /\ Len(x) = n + 1
  <2>1. x \in Path /\ Front(x) = c
    BY <1>1, RecordFacts DEF Table
  <2> QED BY <1>1, <2>1, PathFacts, PrefixFront
<1>7. ASSUME NEW o \in ToSet(out) PROVE Over(o)'
  <2>1. o \in Seq(Nat)
    BY PathFacts DEF TypeInv, ToSet
  <2>2. Over(o)
    BY DEF OrderInv
  <2>3. ~IsPrefix(c, o) /\ ("post" \in flags => ~IsPrefix(o, c))
    BY <1>0, <1>1, <2>2 DEF Over
  <2>4. ASSUME NEW x \in Table(Record(c))
        PROVE  ~IsPrefix(x, o) /\ ("post" \in flags => ~IsPrefix(o, x))
    <3>1. ~IsPrefix(x, o)
      BY <1>1, <1>6, <2>1, <2>3, PrefixOrder
    <3>2. IsPrefix(o, x) => o = x \/ IsPrefix(o, c)
      BY <1>6, <2>1, PrefixFront
    <3>3. o # x
      BY <1>6, <2>3
    <3> QED BY <2>3, <3>1, <3>2, <3>3
  <2>5. ASSUME NEW k \in 1 .. (n + 1)
        PROVE  /\ \A x \in stream'[k].dirs \cup stream'[k].regs : ~IsPrefix(x, o)
               /\ "post" \in flags => \A x \in Table(stream'[k]) : ~IsPrefix(o, x)
    <3>1. CASE k \in 1 .. n /\ k \in 1 .. Len(stream)
      BY <1>5, <2>2, <3>1 DEF Over
    <3>2. CASE k = n + 1
      BY <1>2, <2>4, <3>2 DEF Table
    <3> QED BY <1>4, <3>1, <3>2
  <2> QED BY <1>2, <2>5 DEF Over
<1>8. ASSUME "post" \notin flags PROVE Over(c)'
  <2>1. ASSUME NEW k \in 1 .. (n + 1), NEW x \in stream'[k].dirs \cup stream'[k].regs
        PROVE  ~IsPrefix(x, c)
    <3>1. CASE k \in 1 .. n /\ k \in 1 .. Len(stream)
      <4>1. x \in stream[k].dirs \cup stream[k].regs /\ x # c /\ x \in Table(stream[k])
        BY <1>5, <1>8, <2>1, <3>1 DEF Table
      <4> QED BY <1>1, <3>1, <4>1, Apart
    <3>2. CASE k = n + 1
      <4>1. x \in Table(Record(c))
        BY <1>2, <2>1, <3>2 DEF Table
      <4> QED BY <1>1, <1>6, <4>1, PrefixOrder
    <3> QED BY <1>4, <3>1, <3>2
  <2> QED BY <1>2, <1>8, <2>1 DEF Over
<1> QED BY <1>7, <1>8

\* Only mkdir() sets the flags, before anything else.
LEMMA FlagsChange ==
    ASSUME [Next]_vars, flags' # flags
    PROVE  \E p \in Path \cup {Root}, parents \in BOOLEAN : Mkdir(p, parents)
  BY DEF Next, Call, Walk, vars, callVars, Open, DeletePlain, DeleteRecursive, ReadUnknown,
         ReadRegular, ReadDirectory, ReadEmpty, EndOfStream, DeleteEntry, IterNext, IterCollect, MkdirTry,
         MkdirCheck, Others

\* Each entry is reported at most once, and in order.
LEMMA StepOrder ==
    ASSUME TypeInv, CallInv, StreamInv, OrderInv, OnceAndInOrder, [Next]_vars
    PROVE  OrderInv' /\ OnceAndInOrder'
<1>1. CASE Open
  <2>1. out' = <<>> /\ DOMAIN out' = {} /\ ToSet(out') = {}
    BY <1>1 DEF Open, CallInv, ToSet
  <2> QED BY <2>1 DEF OrderInv, OnceAndInOrder
<1>2. CASE ReadUnknown
  <2>1. PICK c \in rec.unk, r \in Records :
               /\ TopBecomes(r) /\ Tables(r, rec.unk \ {c}, rec.dirs, rec.regs)
               /\ GivesNot \/ Gives(c)
    BY <1>2, UnknownRead
  <2>2. stream # <<>> /\ flags' = flags /\ c \in Table(rec)
    BY <1>2 DEF ReadUnknown, Reading, Table
  <2>3. c \notin Table(r)
    BY <2>1, <2>2, TopFacts DEF Tables, Table, RecordInv
  <2>4. Fewer /\ Gone(c)
    BY <2>1, <2>2, <2>3, ShrinksFewer DEF Tables
  <2>5. Over(c)' /\ \A o \in ToSet(out) : Over(o)'
    BY <2>2, <2>4, FewerOld, FewerNew DEF OrderInv
  <2>6. c \in Path
    BY <2>2, TopFacts
  <2>7. OrderInv'
    BY <2>1, <2>5, <2>6, OrderOut DEF GivesNot
  <2> QED BY <2>1, <2>2, <2>7, OnceGives DEF GivesNot, OnceAndInOrder
<1>3. CASE ReadRegular
  <2>1. PICK c \in rec.regs, r \in Records :
               TopBecomes(r) /\ Tables(r, rec.unk, rec.dirs, rec.regs \ {c}) /\ Gives(c)
    BY <1>3, RegularRead
  <2>2. stream # <<>> /\ flags' = flags /\ c \in Table(rec)
    BY <1>3 DEF ReadRegular, Reading, Table
  <2>3. c \notin Table(r)
    BY <2>1, <2>2, TopFacts DEF Tables, Table, RecordInv
  <2>4. Fewer /\ Gone(c)
    BY <2>1, <2>2, <2>3, ShrinksFewer DEF Tables
  <2>5. Over(c)' /\ \A o \in ToSet(out) : Over(o)'
    BY <2>2, <2>4, FewerOld, FewerNew DEF OrderInv
  <2>6. c \in Path
    BY <2>2, TopFacts
  <2> QED BY <2>1, <2>2, <2>5, <2>6, OrderOut, OnceGives
<1>4. CASE ReadDirectory
  <2>1. PICK c \in rec.dirs, r \in Records :
               /\ TopBecomesUnder(r, Record(c))
               /\ Tables(r, IF "post" \in flags THEN rec.unk \cup {c} ELSE rec.unk,
                            rec.dirs \ {c}, rec.regs)
               /\ GivesNot \/ (Gives(c) /\ "post" \notin flags)
    BY <1>4, DirectoryRead
  <2>2. stream # <<>> /\ flags' = flags /\ c \in Table(rec)
    BY <1>4 DEF ReadDirectory, Reading, Table
  <2>3. (\A o \in ToSet(out) : Over(o)') /\ ("post" \notin flags => Over(c)')
    BY <2>1, <2>2, GrowsOrder
  <2>4. CASE GivesNot
    <3>1. out' = out
      BY <2>4 DEF GivesNot
    <3>2. OrderInv'
      BY <2>3, <3>1 DEF OrderInv
    <3> QED BY <2>2, <3>1, <3>2 DEF OnceAndInOrder
  <2>5. CASE Gives(c) /\ "post" \notin flags
    <3>1. c \in Path
      BY <2>2, TopFacts
    <3> QED BY <2>2, <2>3, <2>5, <3>1, OrderOut, OnceGives
  <2> QED BY <2>1, <2>4, <2>5
<1>5. CASE ReadEmpty
  <2>1. /\ Len(stream) \in Nat /\ Len(stream') = Len(stream) - 1
        /\ \A k \in 1 .. (Len(stream) - 1) : stream'[k] = stream[k]
        /\ flags' = flags /\ out' = out
    BY <1>5, EmptyRead, TopRecord DEF ReadEmpty, Reading
  <2>2. Fewer
    BY <2>1 DEF Fewer
  <2> QED BY <2>1, <2>2, FewerOld DEF OrderInv, OnceAndInOrder
<1>6. CASE ~(Open \/ ReadUnknown \/ ReadRegular \/ ReadDirectory \/ ReadEmpty)
  <2>1. CASE stream' = stream /\ flags' = flags
    BY <1>6, <2>1, NoReading DEF OrderInv, Over, OnceAndInOrder
  <2>2. CASE Len(stream') = 0 /\ flags' = flags
    BY <1>6, <2>2, NoReading DEF OrderInv, Over, OnceAndInOrder
  <2>3. CASE flags' # flags
    <3>1. \E p \in Path \cup {Root}, parents \in BOOLEAN : Mkdir(p, parents)
      BY <2>3, FlagsChange
    <3>2. out' = <<>> /\ DOMAIN out' = {} /\ ToSet(out') = {}
      BY <3>1 DEF Mkdir, CallInv, ToSet
    <3> QED BY <3>2 DEF OrderInv, OnceAndInOrder
  <2> QED BY <1>6, <2>1, <2>2, <2>3, NoReading
<1> QED BY <1>1, <1>2, <1>3, <1>4, <1>5, <1>6

-----------------------------------------------------------------------------
(***************************************************************************)
(* What stays.                                                             *)
(***************************************************************************)
\* What stays, stays what it is; locked directories and the kind of file
\* system never change.
LEMMA Staying ==
    ASSUME TypeInv, CallInv, MkdirInv, [Next]_vars, ~Open
    PROVE  /\ stable' \subseteq stable /\ typed' = typed /\ locked' = locked
           /\ \A p \in stable' : fs'[p] = fs[p]
<1>1. CASE DeletePlain \/ DeleteRecursive
  BY <1>1 DEF DeletePlain, DeleteRecursive, CallInv, fsVars
<1>2. CASE \E p \in Path \cup {Root}, parents \in BOOLEAN : Mkdir(p, parents)
  BY <1>2 DEF Mkdir, fsVars
<1>3. CASE Walk
  BY <1>3 DEF Walk, ReadUnknown, ReadRegular, ReadDirectory, ReadEmpty, EndOfStream, fsVars
<1>4. CASE DeleteEntry
  BY <1>4 DEF DeleteEntry, TypeInv, Paths
<1>5. CASE IterNext \/ IterCollect
  BY <1>5 DEF IterNext, IterCollect, fsVars
<1>6. CASE MkdirTry
  <2>1. /\ stable' = stable /\ typed' = typed /\ locked' = locked
        /\ fs' = fs \/ (fs' = [fs EXCEPT ![Prefix] = "dir"] /\ "ok" \in MkdirResults(Prefix))
    BY <1>6 DEF MkdirTry
  <2>2. "ok" \in MkdirResults(Prefix) => fs[Prefix] = "none"
    BY MkdirOk
  <2>3. \A p \in stable : p \in Paths /\ fs[p] # "none"
    BY DEF TypeInv, CallInv, Paths
  <2> QED BY <2>1, <2>2, <2>3 DEF TypeInv
<1>7. CASE MkdirCheck
  BY <1>7 DEF MkdirCheck, fsVars
<1>8. CASE Others
  <2>1. PICK p \in Paths :
          \/ Vanish(p) /\ stable' = stable \ {p}
          \/ \E kind \in {"reg", "dir"} : Appear(p, kind) /\ UNCHANGED stable
    BY <1>8 DEF Others, Paths
  <2>2. \A q \in stable : q \in Paths /\ fs[q] # "none"
    BY DEF TypeInv, CallInv, Paths
  <2> QED BY <2>1, <2>2 DEF Vanish, Appear, TypeInv
<1>9. CASE UNCHANGED vars
  BY <1>9 DEF vars
<1> QED BY <1>1, <1>2, <1>3, <1>4, <1>5, <1>6, <1>7, <1>8, <1>9 DEF Next, Call

\* A record that was sorted stays sorted.
LEMMA SortedStays ==
    ASSUME stable' \subseteq stable, \A p \in stable' : fs'[p] = fs[p],
           NEW r \in Records, Sorted(r)
    PROVE  Sorted(r)'
  BY DEF Sorted

\* What is read now is sorted by what it is.
LEMMA SortedNow ==
    ASSUME TypeInv, typed, NEW p \in Paths, NEW s \in Records, s = Record(p), fs' = fs
    PROVE  Sorted(s)'
<1>1. /\ s.unk = {} /\ \A x \in s.dirs : fs[x] = "dir"
      /\ \A x \in s.regs : fs[x] # "dir" /\ fs[x] # "none" /\ x \in Path
  BY RecordFacts
<1>2. \A x \in s.regs : fs[x] = "reg"
  <2>1. \A x \in s.regs : fs[x] \in {"none", "reg", "dir"}
    BY <1>1 DEF TypeInv, Paths, Kinds
  <2> QED BY <1>1, <2>1
<1> QED BY <1>1, <1>2 DEF Sorted

\* The tables tell what an entry is.
LEMMA StepKind ==
    ASSUME TypeInv, CallInv, MkdirInv, StreamInv, KindInv, [Next]_vars PROVE KindInv'
<1>1. CASE Open
  <2>1. Root \in Paths /\ Record(Root) \in Records
    BY RecordFacts DEF Paths
  <2>2. PICK s \in Records : s = Record(Root)
    BY <2>1
  <2>3. stream' = <<s>> /\ fs' = fs /\ typed' = typed
    BY <1>1, <2>2 DEF Open, fsVars
  <2>4. Len(stream') = 1 /\ stream'[1] = s
    BY <2>3
  <2>5. typed => Sorted(s)'
    BY <2>1, <2>2, <2>3, SortedNow
  <2> QED BY <2>3, <2>4, <2>5 DEF KindInv, Sorted
<1>2. CASE ~Open
  <2>1. /\ stable' \subseteq stable /\ typed' = typed /\ \A p \in stable' : fs'[p] = fs[p]
    BY <1>2, Staying
  <2>2. SUFFICES ASSUME typed, NEW k \in 1 .. Len(stream')
                 PROVE  \E s \in Records : s = stream'[k] /\ Sorted(s)'
    BY <2>1 DEF KindInv, Sorted
  <2>3. ASSUME NEW j \in 1 .. Len(stream)
        PROVE  \E s \in Records : s = stream[j] /\ Sorted(s) /\ Sorted(s)'
    <3>1. PICK s \in Records : s = stream[j]
      BY DEF TypeInv
    <3>2. Sorted(s)
      BY <2>2, <3>1 DEF KindInv
    <3> QED BY <2>1, <3>1, <3>2, SortedStays
  <2>4. CASE stream' = stream \/ stream' = <<>>
    BY <2>2, <2>3, <2>4
  <2>5. CASE ReadEmpty
    <3>1. Len(stream) \in Nat
      BY DEF TypeInv
    <3> QED BY <2>2, <2>3, <2>5, <3>1, EmptyRead
  <2>6. ASSUME NEW n \in Nat, n = Len(stream), n >= 1, NEW r \in Records,
               r.regs \subseteq rec.regs, r.dirs \cup r.unk \subseteq rec.dirs \cup rec.unk,
               stream'[n] = r, \A j \in 1 .. (n - 1) : stream'[j] = stream[j], k \in 1 .. n
        PROVE  \E s \in Records : s = stream'[k] /\ Sorted(s)'
    <3>1. CASE k = n
      <4>1. PICK s \in Records : s = rec /\ Sorted(s)'
        BY <2>3, <2>6, TopRecord
      <4> QED BY <2>6, <3>1, <4>1 DEF Sorted
    <3>2. CASE k # n
      <4>1. k \in 1 .. (n - 1) /\ k \in 1 .. Len(stream)
        BY <2>6, <3>2
      <4> QED BY <2>3, <2>6, <4>1
    <3> QED BY <3>1, <3>2
  <2>7. PICK n \in Nat : n = Len(stream)
    BY DEF TypeInv
  <2>8. CASE ReadUnknown \/ ReadRegular
    <3>1. PICK r \in Records : TopBecomes(r) /\ r.regs \subseteq rec.regs
                               /\ r.dirs \cup r.unk \subseteq rec.dirs \cup rec.unk
      <4>1. CASE ReadUnknown
        BY <4>1, UnknownRead DEF Tables
      <4>2. CASE ReadRegular
        BY <4>2, RegularRead DEF Tables
      <4> QED BY <2>8, <4>1, <4>2
    <3>2. n >= 1
      BY <2>7, <2>8, TopRecord DEF ReadUnknown, ReadRegular, Reading
    <3>3. /\ Len(stream') = n /\ stream'[n] = r
          /\ \A j \in 1 .. (n - 1) : stream'[j] = stream[j]
      BY <2>7, <3>1 DEF TopBecomes
    <3> QED BY <2>2, <2>6, <2>7, <3>1, <3>2, <3>3
  <2>9. CASE ReadDirectory
    <3>1. PICK c \in rec.dirs, r \in Records :
               /\ TopBecomesUnder(r, Record(c))
               /\ Tables(r, IF "post" \in flags THEN rec.unk \cup {c} ELSE rec.unk,
                            rec.dirs \ {c}, rec.regs)
      BY <2>9, DirectoryRead
    <3>2. r.regs \subseteq rec.regs /\ r.dirs \cup r.unk \subseteq rec.dirs \cup rec.unk
      BY <3>1 DEF Tables
    <3>3. n >= 1 /\ c \in Paths /\ fs' = fs
      BY <2>7, <2>9, TopRecord DEF ReadDirectory, Reading, Records, Paths, fsVars
    <3>4. /\ Len(stream') = n + 1 /\ stream'[n] = r /\ stream'[n + 1] = Record(c)
          /\ \A j \in 1 .. (n - 1) : stream'[j] = stream[j]
      BY <2>7, <3>1 DEF TopBecomesUnder
    <3>5. CASE k \in 1 .. n
      BY <2>6, <2>7, <3>2, <3>3, <3>4, <3>5
    <3>6. CASE k = n + 1
      <4>1. PICK s \in Records : s = Record(c)
        BY <3>3, RecordFacts
      <4>2. Sorted(s)'
        BY <2>2, <3>3, <4>1, SortedNow
      <4> QED BY <3>4, <3>6, <4>1, <4>2
    <3>7. k \in 1 .. n \/ k = n + 1
      BY <2>2, <2>7, <3>4
    <3> QED BY <3>5, <3>6, <3>7
  <2>10. stream' = stream \/ stream' = <<>> \/ ReadEmpty \/ ReadUnknown \/ ReadRegular \/ ReadDirectory
    BY <1>2, NoReading
  <2> QED BY <2>4, <2>5, <2>8, <2>9, <2>10
<1> QED BY <1>1, <1>2

-----------------------------------------------------------------------------
(***************************************************************************)
(* Nothing that stays is missed.                                           *)
(***************************************************************************)
\* Between a directory and something below it there is one of its children.
LEMMA NextBelow ==
    ASSUME TypeInv, NEW q \in Paths, NEW p \in Path, fs[p] # "none",
           IsPrefix(q, p), q # p
    PROVE  /\ fs[q] = "dir"
           /\ \E d \in Path : /\ Front(d) = q /\ fs[d] # "none" /\ IsPrefix(d, p)
                              /\ d = p \/ fs[d] = "dir"
<1>1. /\ p \in Seq(Nat) /\ q \in Seq(Nat) /\ Len(p) \in Nat /\ Len(q) \in Nat
      /\ WellFormed(fs)
  BY PathFacts, PathsFacts DEF TypeInv
<1>2. Len(q) < Len(p) /\ SubSeq(p, 1, Len(q)) = q
  BY <1>1, PrefixOrder
<1>3. PICK m \in Nat : m = Len(q)
  BY <1>1
<1>4. m \in 0 .. (Len(p) - 1) /\ m + 1 \in 1 .. Len(p) /\ m + 1 \in 0 .. Len(p) /\ m \in 0 .. (m + 1)
  BY <1>1, <1>2, <1>3
<1>5. fs[q] = "dir"
  BY <1>1, <1>2, <1>3, <1>4, Ancestors
<1>6. PICK d \in Path : d = SubSeq(p, 1, m + 1)
  <2>1. PICK i \in 0 .. Len(p) : i = m + 1 /\ i > 0
    BY <1>4
  <2>2. SubSeq(p, 1, i) \in Path
    BY <2>1, FirstNamesPath
  <2> QED BY <2>1, <2>2
<1>7. d \in Seq(Nat) /\ Len(d) = m + 1 /\ SubSeq(d, 1, m) = SubSeq(p, 1, m)
  BY <1>1, <1>4, <1>6, FirstNames
<1>8. Front(d) = q
  <2>1. Len(d) - 1 = m
    BY <1>7
  <2> QED BY <1>2, <1>3, <1>7, <2>1 DEF Front
<1>9. IsPrefix(d, p)
  <2>1. \A i \in 1 .. (m + 1) : d[i] = p[i]
    BY <1>1, <1>4, <1>6, FirstNames
  <2> QED BY <1>1, <1>4, <1>7, <2>1, PrefixNames
<1>10. d = p \/ fs[d] = "dir"
  <2>1. CASE m + 1 = Len(p)
    BY <1>1, <1>4, <1>6, <2>1, FirstNames
  <2>2. CASE m + 1 # Len(p)
    <3>1. m + 1 \in 0 .. (Len(p) - 1)
      BY <1>1, <1>4, <2>2
    <3> QED BY <1>1, <1>6, <3>1, Ancestors
  <2> QED BY <2>1, <2>2
<1> QED BY <1>5, <1>6, <1>8, <1>9, <1>10

\* Reading a directory finds what is below it, or the directory it is in.
LEMMA ReadCovers ==
    ASSUME TypeInv, typed, NEW q \in Paths, q \notin locked, NEW p \in Path, fs[p] # "none",
           IsPrefix(q, p), q # p, ~Excluded(p), NEW s \in Records, s = Record(q)
    PROVE  p \in Table(s) \/ \E d \in s.dirs : IsPrefix(d, p)
<1>1. PICK d \in Path : /\ fs[q] = "dir" /\ Front(d) = q /\ fs[d] # "none" /\ IsPrefix(d, p)
                        /\ d = p \/ fs[d] = "dir"
  BY NextBelow
<1>2. /\ \A x \in s.regs : fs[x] # "dir"
      /\ d \in s.dirs \cup s.regs \/ ("noreg" \in flags /\ fs[d] = "reg")
  BY <1>1, RecordFacts
<1>3. CASE d = p
  BY <1>2, <1>3 DEF Excluded, Table
<1>4. CASE d # p
  BY <1>1, <1>2, <1>4
<1> QED BY <1>3, <1>4

\* Taking an entry from the top record loses only that.
LEMMA PendingShrinks ==
    ASSUME TypeInv, stream # <<>>, NEW r \in Records, TopBecomes(r), NEW c,
           r.dirs = rec.dirs, Table(rec) \ {c} \subseteq Table(r),
           NEW p, p # c, Pending(p)
    PROVE  Pending(p)'
<1>1. PICK n \in Nat : n = Len(stream) /\ n >= 1 /\ rec = stream[n]
  BY TopRecord
<1>2. /\ Len(stream') = n /\ stream'[n] = r
      /\ \A k \in 1 .. (n - 1) : stream'[k] = stream[k]
  BY <1>1 DEF TopBecomes
<1>3. PICK k \in 1 .. n : p \in Table(stream[k]) \/ \E d \in stream[k].dirs : IsPrefix(d, p)
  BY <1>1 DEF Pending
<1>4. CASE k = n
  BY <1>1, <1>2, <1>3, <1>4 DEF Pending
<1>5. CASE k # n
  <2>1. k \in 1 .. (n - 1)
    BY <1>3, <1>5
  <2> QED BY <1>2, <1>3, <2>1 DEF Pending
<1> QED BY <1>4, <1>5

\* Descending finds what is below the directory.
LEMMA PendingGrows ==
    ASSUME TypeInv, StreamInv, KindInv, typed, stream # <<>>, NEW c \in rec.dirs,
           NEW r \in Records, TopBecomesUnder(r, Record(c)),
           Tables(r, IF "post" \in flags THEN rec.unk \cup {c} ELSE rec.unk,
                  rec.dirs \ {c}, rec.regs),
           NEW p \in Path, fs[p] # "none", Due(p), Pending(p)
    PROVE  p = c \/ Pending(p)'
<1>1. PICK n \in Nat : n = Len(stream) /\ n >= 1 /\ rec = stream[n]
  BY TopRecord
<1>2. /\ Len(stream') = n + 1 /\ stream'[n] = r /\ stream'[n + 1] = Record(c)
      /\ \A k \in 1 .. (n - 1) : stream'[k] = stream[k]
  BY <1>1 DEF TopBecomesUnder
<1>3. PICK k \in 1 .. n : p \in Table(stream[k]) \/ \E d \in stream[k].dirs : IsPrefix(d, p)
  BY <1>1 DEF Pending
<1>4. CASE k # n
  <2>1. k \in 1 .. (n - 1) /\ k \in 1 .. (n + 1)
    BY <1>3, <1>4
  <2> QED BY <1>2, <1>3, <2>1 DEF Pending
<1>5. ASSUME p # c, p \in Table(rec) \/ \E d \in rec.dirs \ {c} : IsPrefix(d, p)
      PROVE  Pending(p)'
  <2>1. p \in Table(r) \/ \E d \in r.dirs : IsPrefix(d, p)
    BY <1>5 DEF Tables, Table
  <2>2. n \in 1 .. (n + 1)
    BY <1>1
  <2> QED BY <1>2, <2>1, <2>2 DEF Pending
<1>6. ASSUME p # c, IsPrefix(c, p) PROVE Pending(p)'
  <2>1. c \in Path /\ c \in Paths /\ c \in Seq(Nat) /\ Len(c) = n /\ p \in Seq(Nat)
    BY <1>1, TopFacts, PathFacts DEF Table, Paths
  <2>2. Len(c) <= Len(p) /\ Len(c) # Len(p) /\ SubSeq(p, 1, Len(c)) = c /\ Len(p) \in Nat
    BY <1>6, <2>1, PathFacts, PrefixOrder
  <2>3. n \in 1 .. (Len(p) - 1)
    BY <1>1, <2>1, <2>2
  <2>4. c \notin locked
    BY <2>1, <2>2, <2>3 DEF Due, Reachable
  <2>5. PICK s \in Records : s = Record(c)
    BY <2>1, RecordFacts
  <2>6. p \in Table(s) \/ \E d \in s.dirs : IsPrefix(d, p)
    BY <1>6, <2>1, <2>4, <2>5, ReadCovers DEF Due
  <2>7. n + 1 \in 1 .. (n + 1)
    BY <1>1
  <2> QED BY <1>2, <2>5, <2>6, <2>7 DEF Pending
<1> QED BY <1>1, <1>3, <1>4, <1>5, <1>6

\* What is due was due before.
LEMMA DueBefore ==
    ASSUME TypeInv, CallInv, MkdirInv, [Next]_vars, ~Open, flags' = flags, NEW p, Due(p)'
    PROVE  p \in Path /\ p \in stable /\ fs[p] # "none" /\ Due(p)
<1>1. /\ stable' \subseteq stable /\ locked' = locked /\ \A q \in stable' : fs'[q] = fs[q]
  BY Staying
<1>2. p \in stable' /\ p \in stable /\ fs'[p] = fs[p] /\ p \in Path /\ fs[p] # "none"
  BY <1>1 DEF Due, TypeInv, CallInv
<1>3. Reachable(p)
  BY <1>1 DEF Due, Reachable
<1>4. ~Excluded(p)
  BY <1>2 DEF Due, Excluded
<1> QED BY <1>2, <1>3, <1>4 DEF Due

\* The element that is reported is among those that were.
LEMMA GivenOut ==
    ASSUME TypeInv, NEW c \in Path, Gives(c) PROVE ToSet(out') = ToSet(out) \cup {c}
  BY AppendNode DEF TypeInv, Gives

\* Everything is below the root.
LEMMA RootFirst ==
    ASSUME NEW p \in Path PROVE Root \in Paths /\ p # Root /\ IsPrefix(Root, p)
<1>1. p # Root /\ p \in Seq(Nat) /\ Len(p) \in Nat
  BY PathFacts
<1>2. IsPrefix(<<>>, p)
  <2>1. SubSeq(p, 1, 0) = <<>> /\ SubSeq(<<>>, 1, 0) = <<>> /\ Len(<<>>) = 0
    BY <1>1
  <2> QED BY <1>1, <2>1 DEF IsPrefix
<1> QED BY <1>1, <1>2 DEF Root, Paths

\* The first directory is read.
LEMMA OpenCovers ==
    ASSUME TypeInv, CallInv, Open, typed, NEW p \in Path, fs[p] # "none",
           Root \notin locked, ~Excluded(p)
    PROVE  Pending(p)'
<1>1. Root \in Paths /\ Root \notin locked /\ p # Root /\ IsPrefix(Root, p)
  BY RootFirst
<1>2. PICK s \in Records : s = Record(Root)
  BY <1>1, RecordFacts
<1>3. p \in Table(s) \/ \E d \in s.dirs : IsPrefix(d, p)
  BY <1>1, <1>2, ReadCovers
<1>4. stream' = <<s>>
  BY <1>2 DEF Open
<1>5. Len(stream') = 1 /\ stream'[1] = s
  BY <1>4
<1> QED BY <1>3, <1>5 DEF Pending

\* What is due is reported or pending, after a step of the traversal.
LEMMA WalkCovers ==
    ASSUME TypeInv, CallInv, MkdirInv, StreamInv, KindInv, CoverInv, typed,
           ReadUnknown \/ ReadRegular \/ ReadDirectory \/ ReadEmpty,
           NEW p \in Path, p \in stable, fs[p] # "none", Due(p)
    PROVE  p \in ToSet(out') \/ Pending(p)'
<1>1. /\ stream # <<>> /\ Walking
      /\ out \in Seq(Path) /\ rec \in Records
  BY TopRecord DEF ReadUnknown, ReadRegular, ReadDirectory, ReadEmpty, Reading, Walking, TypeInv
<1>2. p \in ToSet(out) \/ Pending(p)
  BY <1>1 DEF CoverInv
<1>3. PICK n \in Nat : n = Len(stream) /\ n >= 1 /\ rec = stream[n]
  BY <1>1, TopRecord
<1>4. \A x \in (rec.dirs \cup rec.unk) \cap stable : fs[x] = "dir"
  BY <1>3 DEF KindInv, Sorted
<1>5. \A c \in Table(rec) : c \in Path /\ (Gives(c) => ToSet(out') = ToSet(out) \cup {c})
  BY <1>1, GivenOut DEF Table, Records
<1>6. CASE ReadUnknown
  <2>1. PICK c \in rec.unk, r \in Records :
               /\ TopBecomes(r) /\ Tables(r, rec.unk \ {c}, rec.dirs, rec.regs)
               /\ IF "nodir" \in flags THEN GivesNot ELSE Gives(c)
    BY <1>6, UnknownRead
  <2>2. c \in Table(rec) /\ r.dirs = rec.dirs /\ Table(rec) \ {c} \subseteq Table(r)
    BY <2>1 DEF Tables, Table
  <2>3. ToSet(out) \subseteq ToSet(out')
    BY <1>5, <2>1, <2>2 DEF GivesNot
  <2>4. CASE p = c
    <3>1. fs[p] = "dir"
      BY <1>4, <2>1, <2>4
    <3>2. "nodir" \notin flags
      BY <3>1 DEF Due, Excluded
    <3> QED BY <1>5, <2>1, <2>2, <2>4, <3>2
  <2>5. CASE p # c
    BY <1>1, <1>2, <2>1, <2>2, <2>3, <2>5, PendingShrinks
  <2> QED BY <2>4, <2>5
<1>7. CASE ReadRegular
  <2>1. PICK c \in rec.regs, r \in Records :
               TopBecomes(r) /\ Tables(r, rec.unk, rec.dirs, rec.regs \ {c}) /\ Gives(c)
    BY <1>7, RegularRead
  <2>2. c \in Table(rec) /\ r.dirs = rec.dirs /\ Table(rec) \ {c} \subseteq Table(r)
    BY <2>1 DEF Tables, Table
  <2>3. ToSet(out') = ToSet(out) \cup {c}
    BY <1>5, <2>1, <2>2
  <2>4. CASE p # c
    BY <1>1, <1>2, <2>1, <2>2, <2>3, <2>4, PendingShrinks
  <2> QED BY <2>3, <2>4
<1>8. CASE ReadDirectory
  <2>1. PICK c \in rec.dirs, r \in Records :
               /\ TopBecomesUnder(r, Record(c))
               /\ Tables(r, IF "post" \in flags THEN rec.unk \cup {c} ELSE rec.unk,
                            rec.dirs \ {c}, rec.regs)
               /\ IF flags \cap {"post", "nodir"} = {} THEN Gives(c) ELSE GivesNot
    BY <1>8, DirectoryRead
  <2>2. c \in Table(rec)
    BY <2>1 DEF Table
  <2>3. ToSet(out) \subseteq ToSet(out')
    BY <1>5, <2>1, <2>2 DEF GivesNot
  <2>4. CASE p = c
    <3>1. "nodir" \notin flags
      BY <1>4, <2>1, <2>4 DEF Due, Excluded
    <3>2. CASE "post" \in flags
      <4>1. p \in r.unk
        BY <2>1, <2>4, <3>2 DEF Tables
      <4>2. Len(stream') = n + 1 /\ stream'[n] = r /\ n \in 1 .. (n + 1)
        BY <1>3, <2>1 DEF TopBecomesUnder
      <4> QED BY <4>1, <4>2 DEF Pending, Table
    <3>3. CASE "post" \notin flags
      BY <1>5, <2>1, <2>2, <2>4, <3>1, <3>3
    <3> QED BY <3>2, <3>3
  <2>5. CASE p # c
    BY <1>1, <1>2, <2>1, <2>3, <2>5, PendingGrows
  <2> QED BY <2>4, <2>5
<1>9. CASE ReadEmpty
  <2>1. /\ Len(stream') = n - 1 /\ \A k \in 1 .. (n - 1) : stream'[k] = stream[k]
        /\ Table(rec) = {} /\ out' = out
    BY <1>3, <1>9, EmptyRead DEF GivesNot
  <2>2. ASSUME Pending(p) PROVE Pending(p)'
    <3>1. PICK k \in 1 .. n : p \in Table(stream[k]) \/ \E d \in stream[k].dirs : IsPrefix(d, p)
      BY <1>3, <2>2 DEF Pending
    <3>2. k # n
      BY <1>3, <2>1, <3>1 DEF Table
    <3>3. k \in 1 .. (n - 1)
      BY <3>1, <3>2
    <3> QED BY <2>1, <3>1, <3>3 DEF Pending
  <2> QED BY <1>2, <2>1, <2>2
<1> QED BY <1>6, <1>7, <1>8, <1>9

\* A traversal that is at its end has reported everything.
LEMMA StepCover ==
    ASSUME TypeInv, CallInv, MkdirInv, StreamInv, KindInv, CoverInv, CompleteWalk, [Next]_vars
    PROVE  CoverInv' /\ CompleteWalk'
<1>1. CASE Open
  <2>1. /\ stable' = {p \in Path : fs[p] # "none"} /\ pc' \in {"walk", "given"}
        /\ UNCHANGED <<fs, locked, typed, flags>>
    BY <1>1 DEF Open, fsVars
  <2>2. ASSUME typed, NEW p \in stable', Due(p)' PROVE Pending(p)'
    <3>1. p \in Path /\ fs[p] # "none" /\ Root \notin locked /\ ~Excluded(p)
      BY <2>1, <2>2 DEF Due, Reachable, Excluded
    <3> QED BY <1>1, <2>2, <3>1, OpenCovers
  <2> QED BY <2>1, <2>2 DEF CoverInv, CompleteWalk, Ended
<1>2. CASE ~Open
  <2>1. /\ stable' \subseteq stable /\ typed' = typed /\ locked' = locked
        /\ \A p \in stable' : fs'[p] = fs[p]
    BY <1>2, Staying
  <2>2. CASE \E p \in Path \cup {Root}, parents \in BOOLEAN : Mkdir(p, parents)
    <3>1. pc' = "make"
      BY <2>2 DEF Mkdir
    <3> QED BY <3>1 DEF CoverInv, CompleteWalk, Ended, Walking
  <2>3. CASE flags' = flags /\ (ReadUnknown \/ ReadRegular \/ ReadDirectory \/ ReadEmpty)
    <3>1. pc' \in {"walk", "given"}
      BY <2>3, WalkTypes
    <3>2. ASSUME typed, NEW p \in stable', Due(p)' PROVE p \in ToSet(out') \/ Pending(p)'
      <4>1. p \in Path /\ p \in stable /\ fs[p] # "none" /\ Due(p)
        BY <1>2, <2>3, <3>2, DueBefore
      <4> QED BY <2>3, <3>2, <4>1, WalkCovers
    <3> QED BY <2>1, <3>1, <3>2 DEF CoverInv, CompleteWalk, Ended
  <2>4. CASE EndOfStream
    <3>1. pc = "walk" /\ Len(stream) = 0 /\ pc' = "done" /\ out' = out /\ flags' = flags
      BY <2>4 DEF EndOfStream
    <3>2. ASSUME typed, NEW p \in stable, Due(p) PROVE p \in ToSet(out)
      BY <3>1, <3>2 DEF CoverInv, Walking, Pending
    <3>3. ASSUME typed, NEW p \in stable', Due(p)' PROVE p \in ToSet(out')
      <4>1. p \in stable /\ Due(p)
        BY <1>2, <3>1, <3>3, DueBefore
      <4> QED BY <3>1, <3>2, <3>3, <4>1
    <3>4. CompleteWalk'
      BY <2>1, <3>3 DEF CompleteWalk, Due
    <3>5. ~Walking'
      BY <3>1 DEF Walking
    <3> QED BY <3>4, <3>5 DEF CoverInv
  <2>5. CASE DeletePlain \/ DeleteRecursive
    <3>1. stable' = {} /\ pc' \in {"open", "done"}
      BY <2>5 DEF DeletePlain, DeleteRecursive, CallInv
    <3> QED BY <3>1 DEF CoverInv, CompleteWalk, Walking
  <2>6. CASE IterCollect \/ MkdirTry \/ MkdirCheck
    <3>1. pc' = "closed" \/ (pc' \in {"make", "check", "done"} /\ job' = "mkdir")
      BY <2>6 DEF IterCollect, MkdirTry, MkdirCheck, NextPrefix, CallInv, Making
    <3> QED BY <3>1 DEF CoverInv, CompleteWalk, Walking, Ended
  <2>7. CASE DeleteEntry \/ IterNext
    <3>1. Walking /\ pc' = "walk" /\ UNCHANGED <<flags, out, stream>>
      BY <2>7 DEF DeleteEntry, IterNext, Walking
    <3>2. ASSUME typed, NEW p \in stable', Due(p)' PROVE p \in ToSet(out') \/ Pending(p)'
      <4>1. p \in stable /\ Due(p)
        BY <1>2, <3>1, <3>2, DueBefore
      <4> QED BY <3>1, <3>2, <4>1 DEF CoverInv, Pending
    <3> QED BY <2>1, <3>1, <3>2 DEF CoverInv, CompleteWalk, Ended
  <2>8. CASE Others \/ UNCHANGED vars
    <3>1. UNCHANGED <<pc, job, flags, out, stream>>
      BY <2>8 DEF Others, callVars, vars
    <3>2. ASSUME typed, Walking, NEW p \in stable', Due(p)' PROVE p \in ToSet(out') \/ Pending(p)'
      <4>1. p \in stable /\ Due(p)
        BY <1>2, <3>1, <3>2, DueBefore
      <4> QED BY <3>1, <3>2, <4>1 DEF CoverInv, Pending
    <3>3. ASSUME typed, Ended, NEW p \in stable', Due(p)' PROVE p \in ToSet(out')
      <4>1. p \in stable /\ Due(p)
        BY <1>2, <3>1, <3>3, DueBefore
      <4> QED BY <3>1, <3>3, <4>1 DEF CompleteWalk, Due
    <3>4. CompleteWalk'
      BY <2>1, <3>1, <3>3 DEF CompleteWalk, Ended, Due
    <3>5. CoverInv'
      BY <2>1, <3>1, <3>2 DEF CoverInv, Walking
    <3> QED BY <3>4, <3>5
  <2> QED BY <1>2, <2>2, <2>3, <2>4, <2>5, <2>6, <2>7, <2>8, FlagsChange DEF Next, Call, Walk
<1> QED BY <1>1, <1>2

-----------------------------------------------------------------------------
(***************************************************************************)
(* delete().                                                               *)
(***************************************************************************)
\* What has been reading since the call began is below a child of the root.
LEMMA OpenDeletes ==
    ASSUME TypeInv, CallInv, Open, flags = {"post"}, Root \notin locked,
           NEW p \in Path, fs[p] # "none"
    PROVE  UnderPending(p)'
<1>1. Root \in Paths /\ p # Root /\ IsPrefix(Root, p)
  BY RootFirst
<1>2. PICK d \in Path : fs[Root] = "dir" /\ Front(d) = Root /\ fs[d] # "none" /\ IsPrefix(d, p)
  BY <1>1, NextBelow
<1>3. PICK s \in Records : s = Record(Root)
  BY <1>1, RecordFacts
<1>4. d \in s.dirs \cup s.regs
  BY <1>1, <1>2, <1>3, RecordFacts
<1>5. stream' = <<s>>
  BY <1>3 DEF Open
<1>6. Len(stream') = 1 /\ stream'[1] = s
  BY <1>5
<1> QED BY <1>2, <1>4, <1>6 DEF UnderPending, Table

\* What stays is under something pending, or is being reported, after a step of
\* the traversal of delete().
LEMMA WalkDeletes ==
    ASSUME TypeInv, StreamInv, flags = {"post"}, pc = "walk",
           ReadUnknown \/ ReadRegular \/ ReadDirectory \/ ReadEmpty,
           NEW p \in Path, UnderPending(p)
    PROVE  UnderPending(p)' \/ (pc' = "given" /\ IsPrefix(Last(out'), p))
<1>1. /\ stream # <<>> /\ out \in Seq(Path) /\ rec \in Records
  BY TopRecord DEF ReadUnknown, ReadRegular, ReadDirectory, ReadEmpty, Reading, TypeInv
<1>2. PICK n \in Nat : n = Len(stream) /\ n >= 1 /\ rec = stream[n]
  BY <1>1, TopRecord
<1>9. PICK k \in 1 .. n : \E x \in Table(stream[k]) : IsPrefix(x, p)
  BY <1>2 DEF UnderPending
<1>3. PICK x \in Table(stream[k]) : IsPrefix(x, p)
  BY <1>9
<1>4. k = n \/ k \in 1 .. (n - 1)
  BY <1>3
<1>5. \A c \in Table(rec) : Gives(c) => pc' = "given" /\ Last(out') = c
  <2>1. \A c \in Path : Last(Append(out, c)) = c
    BY <1>1 DEF Last
  <2> QED BY <1>1, <2>1 DEF Gives, Table, Records
<1>6. CASE ReadUnknown \/ ReadRegular
  <2>1. PICK c \in Table(rec), r \in Records :
            TopBecomes(r) /\ Table(rec) \ {c} \subseteq Table(r) /\ Gives(c)
    <3>1. CASE ReadUnknown
      BY <3>1, UnknownRead DEF Tables, Table
    <3>2. CASE ReadRegular
      BY <3>2, RegularRead DEF Tables, Table
    <3> QED BY <1>6, <3>1, <3>2
  <2>2. /\ Len(stream') = n /\ stream'[n] = r
        /\ \A j \in 1 .. (n - 1) : stream'[j] = stream[j]
    BY <1>2, <2>1 DEF TopBecomes
  <2>3. CASE x = c
    BY <1>3, <1>5, <2>1, <2>3
  <2>4. CASE x # c
    <3>1. x \in Table(stream'[k])
      BY <1>2, <1>3, <1>4, <2>1, <2>2, <2>4
    <3> QED BY <1>3, <2>2, <3>1 DEF UnderPending
  <2> QED BY <2>3, <2>4
<1>7. CASE ReadDirectory
  <2>1. PICK c \in rec.dirs, r \in Records :
               /\ TopBecomesUnder(r, Record(c))
               /\ Tables(r, rec.unk \cup {c}, rec.dirs \ {c}, rec.regs)
    BY <1>7, DirectoryRead
  <2>2. Table(rec) \subseteq Table(r)
    BY <2>1 DEF Tables, Table
  <2>3. /\ Len(stream') = n + 1 /\ stream'[n] = r /\ k \in 1 .. (n + 1)
        /\ \A j \in 1 .. (n - 1) : stream'[j] = stream[j]
    BY <1>2, <2>1 DEF TopBecomesUnder
  <2>4. x \in Table(stream'[k])
    BY <1>2, <1>3, <1>4, <2>2, <2>3
  <2> QED BY <1>3, <2>3, <2>4 DEF UnderPending
<1>8. CASE ReadEmpty
  <2>1. /\ Len(stream') = n - 1 /\ \A j \in 1 .. (n - 1) : stream'[j] = stream[j]
        /\ Table(rec) = {}
    BY <1>2, <1>8, EmptyRead
  <2>2. k \in 1 .. (n - 1)
    BY <1>2, <1>3, <1>4, <2>1
  <2> QED BY <1>3, <2>1, <2>2 DEF UnderPending
<1> QED BY <1>6, <1>7, <1>8

\* An entry with something below it that stays cannot be removed.
LEMMA NotEmpty ==
    ASSUME TypeInv, NEW q \in Path, NEW p \in Path, fs[p] # "none", IsPrefix(q, p), q # p
    PROVE  ~Removable(q)
<1>1. PICK d \in Path : Front(d) = q /\ fs[d] # "none"
  BY NextBelow DEF Paths
<1> QED BY <1>1 DEF Removable, Children

\* Success is the truth: what was there all the time is gone.
LEMMA StepDelete ==
    ASSUME TypeInv, CallInv, MkdirInv, StreamInv, DeleteInv, DeleteTrueMeansGone, [Next]_vars
    PROVE  DeleteInv' /\ DeleteTrueMeansGone'
<1>1. CASE Open
  <2>1. /\ stable' = {p \in Path : fs[p] # "none"} /\ pc' \in {"walk", "given"}
        /\ UNCHANGED <<fs, locked, job>>
        /\ job = "delete" => flags = {"post"}
    BY <1>1 DEF Open, fsVars, CallInv
  <2>2. ASSUME job = "delete", Root \notin locked, NEW p \in stable' PROVE UnderPending(p)'
    <3>1. p \in Path /\ fs[p] # "none"
      BY <2>1, <2>2
    <3> QED BY <1>1, <2>1, <2>2, <3>1, OpenDeletes
  <2> QED BY <2>1, <2>2 DEF DeleteInv, DeleteTrueMeansGone, Ended
<1>2. CASE ~Open
  <2>1. /\ stable' \subseteq stable /\ locked' = locked
        /\ stable \subseteq Path /\ \A p \in stable : fs[p] # "none"
    BY <1>2, Staying DEF TypeInv, CallInv
  <2>2. CASE \E p \in Path \cup {Root}, parents \in BOOLEAN : Mkdir(p, parents)
    <3>1. pc' = "make"
      BY <2>2 DEF Mkdir
    <3> QED BY <3>1 DEF DeleteInv, DeleteTrueMeansGone, Ended, Walking
  <2>3. CASE ReadUnknown \/ ReadRegular \/ ReadDirectory \/ ReadEmpty
    <3>1. pc = "walk" /\ UNCHANGED <<job, ret, locked, stable>>
      BY <2>3 DEF ReadUnknown, ReadRegular, ReadDirectory, ReadEmpty, Reading, fsVars
    <3>2. pc' \in {"walk", "given"}
      BY <2>3, WalkTypes
    <3>3. ASSUME job = "delete", ret = "ok", Root \notin locked, NEW p \in stable
          PROVE  UnderPending(p)' \/ (pc' = "given" /\ IsPrefix(Last(out'), p))
      <4>1. flags = {"post"} /\ UnderPending(p)
        BY <3>1, <3>3 DEF CallInv, DeleteInv, Walking
      <4> QED BY <2>1, <2>3, <3>1, <3>3, <4>1, WalkDeletes
    <3> QED BY <3>1, <3>2, <3>3 DEF DeleteInv, DeleteTrueMeansGone, Ended
  <2>4. CASE EndOfStream
    <3>1. /\ pc = "walk" /\ Len(stream) = 0 /\ pc' = "done"
          /\ UNCHANGED <<job, ret, locked, stable>>
      BY <2>4 DEF EndOfStream, fsVars
    <3>2. (job = "delete" /\ ret = "ok" /\ Root \notin locked) => stable = {}
      BY <3>1 DEF DeleteInv, Walking, UnderPending
    <3> QED BY <3>1, <3>2 DEF DeleteInv, DeleteTrueMeansGone, Walking
  <2>5. CASE DeletePlain \/ DeleteRecursive
    <3>1. stable' = {} /\ pc' \in {"open", "done"}
      BY <2>5 DEF DeletePlain, DeleteRecursive, CallInv
    <3> QED BY <3>1 DEF DeleteInv, DeleteTrueMeansGone, Walking
  <2>6. CASE IterCollect \/ MkdirCheck
    <3>1. pc' = "closed" \/ (pc' \in {"make", "check", "done"} /\ job' = "mkdir")
      BY <2>6 DEF IterCollect, MkdirCheck, NextPrefix, CallInv, Making
    <3> QED BY <3>1 DEF DeleteInv, DeleteTrueMeansGone, Walking, Ended
  <2>7. CASE MkdirTry
    <3>1. pc' \in {"make", "check", "done"} /\ job' = "mkdir"
      <4>1. pc' \in {"make", "check", "done"}
        BY <2>7 DEF MkdirTry, NextPrefix
      <4> QED BY <2>7, <4>1 DEF MkdirTry, CallInv, Making
    <3> QED BY <3>1 DEF DeleteInv, DeleteTrueMeansGone, Walking
  <2>8. CASE IterNext
    BY <2>8 DEF IterNext, DeleteInv, DeleteTrueMeansGone, Ended
  <2>9. CASE DeleteEntry
    <3>1. /\ pc = "given" /\ job = "delete" /\ pc' = "walk"
          /\ UNCHANGED <<job, locked, stream, out>>
          /\ ret' # "failed" => Removable(Last(out)) /\ stable' = stable \ {Last(out)} /\ ret' = ret
      BY <2>9 DEF DeleteEntry
    <3>2. Last(out) \in Path
      BY <3>1 DEF CallInv, TypeInv, Last
    <3>3. ASSUME ret' = "ok", Root \notin locked, NEW p \in stable' PROVE UnderPending(p)'
      <4>1. p \in stable /\ p \in Path /\ p # Last(out) /\ fs[p] # "none"
        BY <2>1, <3>1, <3>3
      <4>2. UnderPending(p) \/ IsPrefix(Last(out), p)
        BY <3>1, <3>3, <4>1 DEF DeleteInv, Walking
      <4>3. ~IsPrefix(Last(out), p)
        BY <3>1, <3>2, <3>3, <4>1, NotEmpty
      <4> QED BY <3>1, <4>2, <4>3 DEF UnderPending
    <3> QED BY <3>1, <3>3 DEF DeleteInv, DeleteTrueMeansGone, Ended
  <2>10. CASE Others \/ UNCHANGED vars
    <3>1. UNCHANGED <<pc, job, flags, out, stream, ret>>
      BY <2>10 DEF Others, callVars, vars
    <3> QED BY <2>1, <3>1 DEF DeleteInv, DeleteTrueMeansGone, Ended, Walking, UnderPending
  <2> QED BY <1>2, <2>2, <2>3, <2>4, <2>5, <2>6, <2>7, <2>8, <2>9, <2>10 DEF Next, Call, Walk
<1> QED BY <1>1, <1>2

-----------------------------------------------------------------------------
(***************************************************************************)
(* The theorems.                                                           *)
(***************************************************************************)
\* Before the call nothing has been read.
LEMMA InitIInv == ASSUME Init PROVE IInv
<1>1. /\ fs \in [Paths -> Kinds] /\ WellFormed(fs)
  BY DEF Init, FsInit, Paths
<1>2. pc = "idle" /\ stream = <<>> /\ ret = "ok" /\ target = Root /\ at = 0
      /\ out = <<>> /\ stable = {} /\ vanished = FALSE
  BY DEF Init
<1>3. Len(stream) = 0 /\ DOMAIN out = {} /\ ToSet(out) = {} /\ Len(target) = 0
  BY <1>2 DEF ToSet, Root
<1>4. TypeInv
  <2>1. stream \in Seq(Records) /\ out \in Seq(Path)
    BY <1>2
  <2> QED BY <1>1, <1>2, <2>1 DEF TypeInv, Paths
<1>5. CallInv
  BY <1>2 DEF CallInv, Walking, Making
<1>6. MkdirInv /\ MkdirTellsTruth
  BY <1>2, <1>3 DEF MkdirInv, MkdirTellsTruth, Making
<1>7. StreamInv /\ OrderInv /\ OnceAndInOrder /\ KindInv
  BY <1>2, <1>3 DEF StreamInv, OrderInv, OnceAndInOrder, KindInv
<1>8. CoverInv /\ CompleteWalk /\ DeleteInv /\ DeleteTrueMeansGone
  BY <1>2 DEF CoverInv, CompleteWalk, DeleteInv, DeleteTrueMeansGone, Walking, Ended
<1> QED BY <1>4, <1>5, <1>6, <1>7, <1>8 DEF IInv

\* The invariant holds in every state of every call, whatever others do.
THEOREM Inductive == Spec => []IInv
<1>1. Init => IInv
  BY InitIInv
<1>2. IInv /\ [Next]_vars => IInv'
  <2> SUFFICES ASSUME IInv, [Next]_vars PROVE IInv'
    OBVIOUS
  <2> USE DEF IInv
  <2>1. TypeInv' /\ CallInv'
    BY StepType, StepCall
  <2>2. MkdirInv' /\ MkdirTellsTruth'
    BY StepMkdir
  <2>3. StreamInv' /\ OrderInv' /\ OnceAndInOrder'
    BY StepStream, StepOrder
  <2>4. KindInv' /\ CoverInv' /\ CompleteWalk'
    BY StepKind, StepCover
  <2>5. DeleteInv' /\ DeleteTrueMeansGone'
    BY StepDelete
  <2> QED BY <2>1, <2>2, <2>3, <2>4, <2>5
<1> QED BY <1>1, <1>2, PTL DEF Spec

\* Types, with the tree below the root: whatever exists is in a directory.
THEOREM TypeCorrect == Spec => []TypeInv
<1>1. IInv => TypeInv
  BY DEF IInv
<1> QED BY <1>1, Inductive, PTL

\* auto_fts_read hands out each entry at most once; in post order nothing
\* below an entry comes after it, otherwise nothing above it, whatever others
\* create and remove between two calls (fts.c, _fts_do_read).
THEOREM EntriesComeOnceAndInOrder == Spec => []OnceAndInOrder
<1>1. IInv => OnceAndInOrder
  BY DEF IInv
<1> QED BY <1>1, Inductive, PTL

\* When auto_fts_read returns NULL, each entry that was there all the time, in
\* directories that could be opened, was handed out, unless a flag excludes it.
THEOREM NothingIsMissed == Spec => []CompleteWalk
<1>1. IInv => CompleteWalk
  BY DEF IInv
<1> QED BY <1>1, Inductive, PTL

\* auto.fs_delete returns true only when nothing is left of what was in the
\* directory all the time (fs.c, auto_lua_fs_delete), in every file system,
\* those that do not tell directories from files included.
THEOREM SuccessMeansGone == Spec => []DeleteTrueMeansGone
<1>1. IInv => DeleteTrueMeansGone
  BY DEF IInv
<1> QED BY <1>1, Inductive, PTL

\* auto.fs_mkdir with parents: whoever makes the same directories meanwhile is
\* never the error; unless something was removed, success leaves a directory,
\* ENOTDIR has a file in the way, and any other error is a refusal by the file
\* system (mkdir.c, auto_mkdir and maybe_mkdir).
THEOREM MkdirResultIsTrue == Spec => []MkdirTellsTruth
<1>1. IInv => MkdirTellsTruth
  BY DEF IInv
<1> QED BY <1>1, Inductive, PTL
=============================================================================
