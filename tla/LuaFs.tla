------------------------------- MODULE LuaFs --------------------------------
(***************************************************************************)
(* auto.fs_iterdir, auto.fs_delete and auto.fs_mkdir (lua/fs.c) with the   *)
(* traversal of utils/fts.c and the loop of utils/mkdir.c under them,      *)
(* while others change the file system between any two system calls.       *)
(*                                                                         *)
(* A stream is the list dir_queue: one record per directory that is being  *)
(* read, with the children that are still to be reported in three ordered  *)
(* tables.  A child is its path.                                           *)
(*                                                                         *)
(* pc: "idle"    no call yet                                               *)
(*     "open"    inside fs_delete, before auto_fts_open                    *)
(*     "walk"    inside auto_fts_read                                      *)
(*     "given"   auto_fts_read returned an entry                           *)
(*     "make"    inside auto_mkdir, before a mkdir(2)                      *)
(*     "check"   inside auto_mkdir, after an EEXIST                        *)
(*     "done"    the call has returned (iterdir: its stream is at its end) *)
(*     "closed"  the iterator was collected, auto_fts_close                *)
(***************************************************************************)
EXTENDS FileSystem

CONSTANTS Jobs,       \* calls the script makes: "iterdir", "delete", "mkdir"
          FlagSets    \* sets of flags streams are opened with; iterdir and
                      \* delete pass {"post"}, fts.h offers the others, too

VARIABLES pc, job, flags,
          stream,    \* dir_queue: records of the directories being read
          ret,       \* delete: ret, mkdir: errcode
          target,    \* mkdir: the path to make
          at,        \* mkdir: how many names of it the current prefix has
          out,       \* history: the entries reported
          stable,    \* history: the paths that were there all the time
          vanished   \* history: others removed something during the call

vars == <<fs, locked, typed, changes, pc, job, flags, stream, ret, target, at, out, stable, vanished>>
callVars == <<pc, job, flags, stream, ret, target, at, out>>

Init ==
    /\ FsInit
    /\ pc = "idle" /\ job \in Jobs /\ flags \in FlagSets
    /\ stream = <<>> /\ ret = "ok" /\ target = Root /\ at = 0
    /\ out = <<>> /\ stable = {} /\ vanished = FALSE
-----------------------------------------------------------------------------
(***************************************************************************)
(* The stream.                                                             *)
(***************************************************************************)

\* Mutant of Record: AUTO_FTS_NO_REG is tested the way the code for Windows does.
RecordInverted(p) ==
    LET found == IF fs[p] = "dir" /\ p \notin locked THEN Children(p) ELSE {}
        isDir == {c \in found : fs[c] = "dir" /\ typed /\ "noreg" \notin flags}
        skip == {c \in found : fs[c] = "dir" /\ typed /\ "noreg" \in flags}
    IN  [path |-> p, unk |-> {}, dirs |-> isDir, regs |-> found \ (isDir \cup skip)]

\* _fts_read_record: what readdir reports, sorted into the two tables.  A
\* directory that cannot be opened has no children.
Record(p) ==
    LET found == IF fs[p] = "dir" /\ p \notin locked THEN Children(p) ELSE {}
        isDir == {c \in found : fs[c] = "dir" /\ typed}
        skip == {c \in found : fs[c] = "reg" /\ typed /\ "noreg" \in flags}
    IN  [path |-> p, unk |-> {}, dirs |-> isDir, regs |-> found \ (isDir \cup skip)]

\* ev_map_begin of a table: the child whose name comes first
FirstName(table) == CHOOSE c \in table : \A d \in table : Last(c) <= Last(d)

Reading == pc = "walk" /\ stream # <<>>
rec == Last(stream)
Update(r) == [stream EXCEPT ![Len(stream)] = r]

\* auto_fts_open in iterdir, and in delete after its test for a file.
Open ==
    /\ \/ pc = "idle" /\ job = "iterdir" /\ pc' = "given"
       \/ pc = "open" /\ pc' = "walk"
    /\ stream' = <<Record(Root)>>
    /\ stable' = {p \in Path : fs[p] # "none"}
    /\ UNCHANGED <<fsVars, job, flags, ret, target, at, out, vanished>>

\* An entry is handed out through the cache of the stream.
Give(c) ==
    /\ out' = Append(out, c)
    /\ pc' = "given"

\* Mutant of ReadUnknown: the directory is reported but stays in the table.
ReadUnknownTwice ==
    /\ Reading /\ rec.unk # {}
    /\ IF "nodir" \in flags THEN UNCHANGED <<out, pc>> ELSE Give(FirstName(rec.unk))
    /\ UNCHANGED <<fsVars, job, flags, stream, ret, target, at, stable, vanished>>

\* _fts_do_read, first table: directories whose contents have been reported.
ReadUnknown ==
    /\ Reading /\ rec.unk # {}
    /\ LET c == FirstName(rec.unk) IN
        /\ stream' = Update([rec EXCEPT !.unk = @ \ {c}])
        /\ IF "nodir" \in flags THEN UNCHANGED <<out, pc>> ELSE Give(c)
    /\ UNCHANGED <<fsVars, job, flags, ret, target, at, stable, vanished>>

ReadRegular ==
    /\ Reading /\ rec.unk = {} /\ rec.regs # {}
    /\ LET c == FirstName(rec.regs) IN
        /\ stream' = Update([rec EXCEPT !.regs = @ \ {c}])
        /\ Give(c)
    /\ UNCHANGED <<fsVars, job, flags, ret, target, at, stable, vanished>>

\* A directory is opened and read; with AUTO_FTS_POST_ORDER it is kept, to be
\* reported when its record is gone, otherwise it is reported now.
ReadDirectory ==
    /\ Reading /\ rec.unk = {} /\ rec.regs = {} /\ rec.dirs # {}
    /\ LET c == FirstName(rec.dirs)
           left == [rec EXCEPT !.dirs = @ \ {c},
                               !.unk = IF "post" \in flags THEN @ \cup {c} ELSE @]
       IN  /\ stream' = Append(Update(left), Record(c))
           /\ IF flags \cap {"post", "nodir"} = {} THEN Give(c) ELSE UNCHANGED <<out, pc>>
    /\ UNCHANGED <<fsVars, job, flags, ret, target, at, stable, vanished>>

\* Mutant of ReadEmpty: the record stays in the list.
ReadEmptyKeeps ==
    /\ Reading /\ rec.unk \cup rec.regs \cup rec.dirs = {}
    /\ UNCHANGED vars

\* _fts_destroy_record of a record without children.
ReadEmpty ==
    /\ Reading /\ rec.unk \cup rec.regs \cup rec.dirs = {}
    /\ stream' = Front(stream)
    /\ UNCHANGED <<fsVars, pc, job, flags, ret, target, at, out, stable, vanished>>

\* auto_fts_read returns NULL; delete returns.
EndOfStream ==
    /\ pc = "walk" /\ stream = <<>>
    /\ pc' = "done"
    /\ UNCHANGED <<fsVars, job, flags, stream, ret, target, at, out, stable, vanished>>
-----------------------------------------------------------------------------
(***************************************************************************)
(* The functions of the library.                                           *)
(***************************************************************************)

\* The iterator function is called again, or collected before its end.
IterNext ==
    /\ pc = "given" /\ job = "iterdir"
    /\ pc' = "walk"
    /\ UNCHANGED <<fsVars, job, flags, stream, ret, target, at, out, stable, vanished>>

IterCollect ==
    /\ pc = "given" /\ job = "iterdir"
    /\ pc' = "closed" /\ stream' = <<>>
    /\ UNCHANGED <<fsVars, job, flags, ret, target, at, out, stable, vanished>>

\* delete with recursion of what is not a file, or cannot be told to be one.
DeleteRecursive ==
    /\ pc = "idle" /\ job = "delete" /\ flags = {"post"}
    /\ \E result \in StatResults(Root) : result # "reg"
    /\ pc' = "open"
    /\ UNCHANGED <<fsVars, job, flags, stream, ret, target, at, out, stable, vanished>>

\* Mutant of DeleteEntry: the result is that of the last remove().
DeleteEntryForgets ==
    /\ pc = "given" /\ job = "delete"
    /\ LET p == Last(out) IN
        \/ /\ Removable(p) /\ fs' = [fs EXCEPT ![p] = "none"] /\ stable' = stable \ {p}
           /\ ret' = "ok"
        \/ ret' = "failed" /\ UNCHANGED <<fs, stable>>
    /\ pc' = "walk"
    /\ UNCHANGED <<locked, typed, changes, job, flags, stream, target, at, out, vanished>>

\* The body of the loop of auto_lua_fs_delete.  Any remove() may be refused.
DeleteEntry ==
    /\ pc = "given" /\ job = "delete"
    /\ LET p == Last(out) IN
        \/ /\ Removable(p) /\ fs' = [fs EXCEPT ![p] = "none"] /\ stable' = stable \ {p}
           /\ UNCHANGED ret
        \/ ret' = "failed" /\ UNCHANGED <<fs, stable>>
    /\ pc' = "walk"
    /\ UNCHANGED <<locked, typed, changes, job, flags, stream, target, at, out, vanished>>

\* delete of a file, or without recursion.
DeletePlain ==
    /\ pc = "idle" /\ job = "delete"
    /\ \/ Removable(Root) /\ fs' = [fs EXCEPT ![Root] = "none"] /\ UNCHANGED ret
       \/ ret' = "failed" /\ UNCHANGED fs
    /\ pc' = "done"
    /\ UNCHANGED <<locked, typed, changes, job, flags, stream, target, at, out, stable, vanished>>

\* auto_mkdir(p, parents): without parents a single mkdir(2) of p.
Mkdir(p, parents) ==
    /\ pc = "idle" /\ job = "mkdir"
    /\ target' = p
    /\ at' = IF parents THEN 0 ELSE Len(p)
    /\ pc' = "make"
    /\ flags' = IF parents THEN {"parents"} ELSE {}
    /\ UNCHANGED <<fsVars, job, stream, ret, out, stable, vanished>>

Prefix == SubSeq(target, 1, at)

\* The loop of auto_mkdir goes on to the next separator.
NextPrefix ==
    IF at = Len(target) THEN pc' = "done" /\ UNCHANGED at
    ELSE pc' = "make" /\ at' = at + 1

\* The mkdir(2) of maybe_mkdir.
MkdirTry ==
    /\ pc = "make"
    /\ \E result \in MkdirResults(Prefix) :
        CASE result = "ok" ->
                 fs' = [fs EXCEPT ![Prefix] = "dir"] /\ NextPrefix /\ UNCHANGED ret
          [] result = "EEXIST" /\ "parents" \in flags ->
                 pc' = "check" /\ UNCHANGED <<fs, ret, at>>
          [] OTHER -> pc' = "done" /\ ret' = result /\ UNCHANGED <<fs, at>>
    /\ UNCHANGED <<locked, typed, changes, job, flags, stream, target, out, stable, vanished>>

\* Mutant of MkdirCheck: whatever exists will do.
MkdirCheckAnything ==
    /\ pc = "check"
    /\ NextPrefix
    /\ UNCHANGED <<fsVars, job, flags, stream, ret, target, out, stable, vanished>>

\* auto_isdir on what exists.
MkdirCheck ==
    /\ pc = "check"
    /\ \E result \in StatResults(Prefix) :
        IF result = "dir" THEN NextPrefix /\ UNCHANGED ret
        ELSE /\ ret' = IF result = "reg" THEN "ENOTDIR" ELSE result
             /\ pc' = "done" /\ UNCHANGED at
    /\ UNCHANGED <<fsVars, job, flags, stream, target, out, stable, vanished>>
-----------------------------------------------------------------------------
Others ==
    /\ pc \notin {"idle", "done", "closed"}
    /\ \E p \in Path \cup {Root} :
        \/ Vanish(p) /\ stable' = stable \ {p} /\ vanished' = TRUE
        \/ \E kind \in {"reg", "dir"} : Appear(p, kind) /\ UNCHANGED <<stable, vanished>>
    /\ UNCHANGED callVars

Walk == ReadUnknown \/ ReadRegular \/ ReadDirectory \/ ReadEmpty \/ EndOfStream

Call == \/ Open \/ DeletePlain \/ DeleteRecursive
        \/ \E p \in Path \cup {Root}, parents \in BOOLEAN : Mkdir(p, parents)

Next == Call \/ Walk \/ DeleteEntry \/ IterNext \/ IterCollect \/ MkdirTry \/ MkdirCheck \/ Others

Spec == Init /\ [][Next]_vars

\* The C functions run; others make a bounded number of changes meanwhile.
Fairness == WF_vars((pc = "open" /\ Open) \/ Walk \/ DeleteEntry \/ MkdirTry \/ MkdirCheck)

FairSpec == Spec /\ Fairness
-----------------------------------------------------------------------------
(***************************************************************************)
(* Properties.                                                             *)
(***************************************************************************)
Ended == pc = "done" /\ job \in {"iterdir", "delete"}

\* Each entry is reported at most once, and in post order nothing below an
\* entry comes after it: an entry that delete() removes has been emptied
\* first, as far as it could be.  Whatever others create and remove meanwhile.
OnceAndInOrder ==
    \A i, j \in DOMAIN out : i < j =>
        /\ out[i] # out[j]
        /\ IF "post" \in flags THEN ~Below(out[i], out[j]) ELSE ~Below(out[j], out[i])

\* Nothing is missed: at its end the traversal has reported every entry that
\* was there all the time in directories that could be read, unless a flag
\* excludes its kind.
Reachable(p) ==
    Root \notin locked /\ \A n \in 1 .. Len(p) - 1 : SubSeq(p, 1, n) \in stable \ locked
Excluded(p) == IF fs[p] = "dir" THEN "nodir" \in flags ELSE "noreg" \in flags

CompleteWalk ==
    (Ended /\ typed) =>
        \A p \in stable : Reachable(p) /\ ~Excluded(p) => p \in ToSet(out)

\* docs/fs_delete.md: true "if success": nothing that was in the directory all
\* the time is left when delete() reports success, locked directories and
\* unknown types included.
DeleteTrueMeansGone ==
    (Ended /\ job = "delete" /\ ret = "ok" /\ Root \notin locked) => stable = {}

\* What mkdir(path, true) returns is true.  Another process that makes the same
\* directories meanwhile is never the error (mkdir.c:38-39).  Unless somebody
\* removed something, success leaves a directory, "not a directory" means that a
\* file is in the way, and a parent is never missing: any other error is one the
\* file system gave for reasons of its own (mkdir.c:32-36).
MkdirTellsTruth ==
    (pc = "done" /\ job = "mkdir" /\ "parents" \in flags) =>
        /\ ret # "EEXIST"
        /\ ~vanished => \/ ret = "ok" /\ fs[target] = "dir"
                        \/ ret = "ENOTDIR" /\ \E n \in 0 .. Len(target) :
                                                  fs[SubSeq(target, 1, n)] = "reg"
                        \/ ret = "refused"

\* Every call returns, whatever appears in its way; delete() goes on to its end.
Busy == pc \in {"open", "walk", "make", "check"} \/ (pc = "given" /\ job = "delete")

CallsEnd == Busy ~> ~Busy
=============================================================================
