---------------------------- MODULE AwaitPromise ----------------------------
(***************************************************************************)
(* What await() promises (docs/coroutine.md:19-27), without scheduler and  *)
(* wait queues: a coroutine is settled at most once, by returning, by an   *)
(* error or by being closed; an await reports something only once it is    *)
(* settled; and all awaits of a coroutine report the same thing.           *)
(***************************************************************************)
CONSTANT Co

VARIABLES outcome,    \* outcome[c]: how c ended, or "pending"
          reported    \* reported[c]: what awaits of c have reported so far

vars == <<outcome, reported>>

Outcomes == {"ok", "error", "closed"}

Init ==
    /\ outcome = [c \in Co |-> "pending"]
    /\ reported = [c \in Co |-> {}]

Settle(c, o) ==
    /\ outcome[c] = "pending"
    /\ outcome' = [outcome EXCEPT ![c] = o]
    /\ UNCHANGED reported

Report(c) ==
    /\ outcome[c] # "pending"
    /\ reported' = [reported EXCEPT ![c] = @ \cup {outcome[c]}]
    /\ UNCHANGED outcome

Next == \E c \in Co : Report(c) \/ \E o \in Outcomes : Settle(c, o)

Spec == Init /\ [][Next]_vars
=============================================================================
