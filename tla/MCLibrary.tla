---------------------------- MODULE MCLibrary -----------------------------
(***************************************************************************)
(* The building blocks under the scheduler, checked by TLC one at a time: *)
(* lists, maps, the script an executable carries, string_split, and the    *)
(* file system calls.  part says which one a behaviour is about; the       *)
(* others stay as they are.                                                *)
(***************************************************************************)
EXTENDS EvList, EvMap, SelfScript, StringSplit, LuaFs

VARIABLE part

mcVars == <<vars, listVars, mapVars, selfVars, splitVars, part>>

\* Map nodes are their keys; the last one has the key of another.
MapKey(n) == n % 20

\* Two bytes; codes and keys of any shape.
MCUnit == <<0, 1, 0>>
MCCode == {c \in SeqOf(Byte, 4) : c # <<>> /\ \A m \in 3 .. 5 : ~IsSuffix(SubSeq(Probe, 1, m), c)}
MCScript == {<<1>>, MCUnit, MCUnit \o MCUnit \o <<0>>}
MCSearchKey == SeqOf(Byte, 4) \ {<<>>}

MCPattern == {<<<<"x">>>>, <<<<"x", "y">>, <<"x">>>>, <<<<"y">>, <<"x", "y", "x">>>>, <<<<"x">>, <<>>>>}

\* A directory tree of depth three.
MCPath == {<<1>>, <<2>>, <<1, 1>>, <<1, 2>>, <<1, 1, 1>>}
MCFlagSets == {{"post"}, {}, {"nodir"}, {"post", "noreg"}}

\* What the parts that a behaviour is not about look like.
SelfIdle == program = <<>> /\ carried = NoScript /\ outcome = "none"

SplitIdle == subject = <<>> /\ pattern = <<>> /\ offset = 0 /\ pieces = <<>> /\ returned = TRUE

FsIdle ==
    /\ fs = [p \in Path \cup {Root} |-> "none"] /\ locked = {} /\ typed = FALSE /\ changes = 0
    /\ pc = "closed" /\ job = "iterdir" /\ flags = {} /\ stream = <<>>
    /\ ret = "ok" /\ target = Root /\ at = 0
    /\ out = <<>> /\ stable = {} /\ vanished = FALSE

MCInit ==
    /\ ListInit /\ MapInit
    /\ \/ part \in {"list", "map"} /\ SelfIdle /\ SplitIdle /\ FsIdle
       \/ part = "self" /\ SelfInit /\ SplitIdle /\ FsIdle
       \/ part = "split" /\ SelfIdle /\ SplitInit /\ FsIdle
       \/ part = "fs" /\ SelfIdle /\ SplitIdle /\ Init

MCNext ==
    /\ UNCHANGED part
    /\ \/ part = "list" /\ ListStep /\ UNCHANGED <<vars, mapVars, selfVars, splitVars>>
       \/ part = "map" /\ MapStep /\ UNCHANGED <<vars, listVars, selfVars, splitVars>>
       \/ part = "self" /\ SelfStep /\ UNCHANGED <<vars, listVars, mapVars, splitVars>>
       \/ part = "split" /\ SplitStep /\ UNCHANGED <<vars, listVars, mapVars, selfVars>>
       \/ part = "fs" /\ Next /\ UNCHANGED <<listVars, mapVars, selfVars, splitVars>>

\* The functions run to their end.
MCSpec == MCInit /\ [][MCNext]_mcVars /\ Fairness /\ WF_splitVars(SplitStep)
=============================================================================
