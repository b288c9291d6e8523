----------------------------- MODULE FileSystem -----------------------------
(***************************************************************************)
(* The file system as the calls in utils/fts.c, utils/mkdir.c and          *)
(* lua/fs.c find it (POSIX).  A path is a sequence of names (numbers, in   *)
(* the order strcmp gives them) below the path the script passes, <<>>.    *)
(* Other processes and coroutines change it at any time.                   *)
(***************************************************************************)
EXTENDS Naturals, Sequences, SequencesExt

CONSTANTS Path,        \* the paths below Root that may exist, with their prefixes
          MaxChanges   \* how often others change something

ASSUME PathAssumption ==
    /\ Path \subseteq Seq(Nat)
    /\ \A p \in Path : p # <<>> /\ (Len(p) = 1 \/ Front(p) \in Path)

VARIABLES fs,       \* fs[p]: "none", "reg" or "dir"
          locked,   \* directories that cannot be opened (EACCES)
          typed,    \* readdir tells files from directories (not DT_UNKNOWN)
          changes   \* changes others have made

fsVars == <<fs, locked, typed, changes>>

Root == <<>>
Kinds == {"none", "reg", "dir"}
Children(p) == {c \in Path : Front(c) = p /\ fs[c] # "none"}
Below(p, q) == IsStrictPrefix(p, q)

WellFormed(f) == \A p \in Path : f[p] # "none" => f[Front(p)] = "dir"

FsInit ==
    /\ fs \in {f \in [Path \cup {Root} -> Kinds] : WellFormed(f)}
    /\ locked \in SUBSET {p \in Path \cup {Root} : Len(p) <= 1}
    /\ typed \in BOOLEAN
    /\ changes = 0

(***************************************************************************)
(* Permissions, a file system that is full or read-only, a name that is    *)
(* too long: a call may fail for reasons the tree does not tell.  "refused"*)
(* stands for every such error (EACCES, EROFS, ENOSPC, ENAMETOOLONG...).   *)
(***************************************************************************)

\* Why a path is not found.
LookupError(p) ==
    IF \E n \in 0 .. Len(p) - 1 : fs[SubSeq(p, 1, n)] = "reg" THEN "ENOTDIR" ELSE "ENOENT"

\* stat(2): the kind of what is there, or an error
StatResults(p) == {"refused", IF fs[p] = "none" THEN LookupError(p) ELSE fs[p]}

\* mkdir(2)
MkdirResults(p) ==
    {"refused", IF fs[p] # "none" THEN "EEXIST"
                ELSE IF p = Root \/ fs[Front(p)] = "dir" THEN "ok"
                ELSE LookupError(p)}

\* What remove(3) can remove, when it is not refused: a file, or a directory
\* that is empty.
Removable(p) == fs[p] # "none" /\ Children(p) = {}

Appear(p, kind) ==
    /\ changes < MaxChanges
    /\ fs[p] = "none"
    /\ p # Root => fs[Front(p)] = "dir"
    /\ fs' = [fs EXCEPT ![p] = kind]
    /\ changes' = changes + 1
    /\ UNCHANGED <<locked, typed>>

Vanish(p) ==
    /\ changes < MaxChanges
    /\ Removable(p)
    /\ fs' = [fs EXCEPT ![p] = "none"]
    /\ changes' = changes + 1
    /\ UNCHANGED <<locked, typed>>
=============================================================================
