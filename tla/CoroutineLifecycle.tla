------------------------- MODULE CoroutineLifecycle -------------------------
(***************************************************************************)
(* What the scheduler promises the users of coroutines (autodo.h:544-566,  *)
(* 573-640), with no queue, cursor or pass in sight:                       *)
(*   - one coroutine runs at a time, and one starts to run only when it is *)
(*     registered and BUSY;                                                *)
(*   - a coroutine goes away only when it is DEAD, never while it runs;    *)
(*   - an unprotected error is fatal: nothing runs after it.               *)
(***************************************************************************)
CONSTANTS Co, NULL

VARIABLES phase,     \* phase[c]: "none" when c is not registered
          running,   \* the coroutine in control, or NULL
          fatal      \* an error is on its way out of the scheduler

vars == <<phase, running, fatal>>

Phases == {"none", "wait", "busy", "dead"}

Init ==
    /\ \E c \in Co : phase = [d \in Co |-> IF d = c THEN "busy" ELSE "none"]
    /\ running = NULL
    /\ fatal = FALSE

Host(c) ==
    /\ phase[c] = "none"
    /\ phase' = [phase EXCEPT ![c] = "busy"]
    /\ UNCHANGED <<running, fatal>>

\* Anyone may change the state of a registered coroutine, at any time.
Set(c, ph) ==
    /\ phase[c] # "none" /\ ph # "none"
    /\ phase' = [phase EXCEPT ![c] = ph]
    /\ UNCHANGED <<running, fatal>>

Start(c) ==
    /\ running = NULL /\ ~fatal
    /\ phase[c] = "busy"
    /\ running' = c
    /\ UNCHANGED <<phase, fatal>>

\* An error, either of the running coroutine or of one that cannot start.
Err(c) ==
    /\ ~fatal
    /\ \/ running = c
       \/ running = NULL /\ phase[c] = "busy"
    /\ running' = c
    /\ phase' = [phase EXCEPT ![c] = "dead"]
    /\ fatal' = TRUE

Stop ==
    /\ running # NULL
    /\ running' = NULL
    /\ UNCHANGED <<phase, fatal>>

Remove(c) ==
    /\ running # c
    /\ phase[c] = "dead"
    /\ phase' = [phase EXCEPT ![c] = "none"]
    /\ UNCHANGED <<running, fatal>>

\* The VM is closed, after the last coroutine or after an error.
Close ==
    /\ running = NULL
    /\ fatal \/ \A c \in Co : phase[c] = "none"
    /\ phase' = [c \in Co |-> "none"]
    /\ UNCHANGED <<running, fatal>>

Next ==
    \/ \E c \in Co :
        \/ Host(c) \/ Start(c) \/ Err(c) \/ Remove(c)
        \/ \E ph \in Phases : Set(c, ph)
    \/ Stop \/ Close

Spec == Init /\ [][Next]_vars
=============================================================================
