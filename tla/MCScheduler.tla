---------------------------- MODULE MCScheduler ----------------------------
(***************************************************************************)
(* Instances of Scheduler for TLC: the coroutines and the hook tokens that *)
(* are in use are chosen from a list of pairs, at the beginning.           *)
(***************************************************************************)
EXTENDS Scheduler, Naturals

CONSTANT Limits   \* pairs of a set of coroutines and a set of tokens

VARIABLE limit

Queues == <<{1, 2, 3}, {}>>
OwnHooks == <<{1}, {1, 2, 3}>>
HooksOfTwo == <<{1, 2}, {1, 2}>>
QueuesOnly == {Queues}
QueuesAndHooks == {Queues, OwnHooks, HooksOfTwo}

MCInit == Init /\ limit \in Limits

Within == sch.all \subseteq limit[1] /\ Registered \subseteq limit[2]

\* Tokens are interchangeable: a new one is the least that is free.
LeastToken ==
    \A h \in Registered' \ Registered : \A g \in limit[2] \ Registered : h <= g

MCNext == UNCHANGED limit /\ Next /\ Within' /\ LeastToken

MCFairSpec == MCInit /\ [][MCNext]_<<vars, limit>> /\ Fairness
=============================================================================
