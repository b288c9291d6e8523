---------------------------- MODULE CoroutineApi ----------------------------
(***************************************************************************)
(* The data the scheduler and the coroutine C API share (runtime.h:49-55), *)
(* and what each call of api/coroutine.c and each helper of runtime.c does *)
(* to it.  The operators are functions from a schedule record to the next  *)
(* one, so that the scheduler and the components above it (Lua coroutine   *)
(* objects, sleep) use the same definitions inside their own actions.      *)
(*                                                                         *)
(*   all      coroutines registered in all_table                           *)
(*   busy     busy_queue          wait    wait_queue                       *)
(*   iter     busy_iter           status  base.status of each coroutine    *)
(*                                                                         *)
(* A coroutine is identified with the Lua thread it manages.  Its status   *)
(* is a bit set; the code only tells apart WAIT = 0 from the rest, and the *)
(* DEAD bit: "busy" is BUSY, "dead" is DEAD, "error" is DEAD | ERROR.      *)
(***************************************************************************)
EXTENDS CursorList

CONSTANT Co        \* the Lua threads that can be managed

ASSUME NullAssumption == NULL \notin Co

Status == {"wait", "busy", "dead", "error"}

IsDead(st) == st \in {"dead", "error"}

\* Queue membership is decided by status # 0.
Waits(st) == st = "wait"

Schedules == [all    : SUBSET Co,
              busy   : Seq(Co),
              wait   : Seq(Co),
              iter   : Co \cup {NULL},
              status : [Co -> Status]]

\* The consistency every user of the two queues relies on: a registered
\* coroutine is linked once, in the queue its status selects, and nothing
\* else is linked.
QueuesMatch(s) ==
    /\ IsInjective(s.busy) /\ IsInjective(s.wait)
    /\ ToSet(s.busy) = {c \in s.all : ~Waits(s.status[c])}
    /\ ToSet(s.wait) = {c \in s.all : Waits(s.status[c])}

\* _init_runtime: both queues and the table are empty.  The status of an
\* unregistered thread is never read; it is "dead" until host() sets it.
EmptySchedule == [all    |-> {},
                  busy   |-> <<>>,
                  wait   |-> <<>>,
                  iter   |-> NULL,
                  status |-> [c \in Co |-> "dead"]]

\* coroutine.host(): a thread is registered once; it starts out runnable.
Host(s, c) ==
    IF c \in s.all
    THEN s
    ELSE [s EXCEPT !.all = @ \cup {c},
                   !.busy = Append(@, c),
                   !.status[c] = "busy"]

\* Mutant of SetState: the bits are added to base.status (|=), so that a
\* coroutine that ends while it is runnable is both.
SetStateAddsBits(s, c, st) ==
    LET bits == IF Waits(st) THEN s.status[c]
                ELSE IF s.status[c] \in {"wait", st} THEN st
                ELSE "busy | ended"
    IN  CASE Waits(s.status[c]) /\ ~Waits(st) ->
                [s EXCEPT !.status[c] = bits, !.wait = Erase(@, c), !.busy = Append(@, c)]
          [] ~Waits(s.status[c]) /\ Waits(st) ->
                [s EXCEPT !.status[c] = bits, !.iter = SkipErased(s.busy, @, c),
                          !.busy = Erase(@, c), !.wait = Append(@, c)]
          [] OTHER -> [s EXCEPT !.status[c] = bits]

\* Mutant of SetState: only BUSY, not DEAD, takes a coroutine out of the wait
\* queue.
SetStateTestsBusy(s, c, st) ==
    CASE Waits(s.status[c]) /\ st = "busy" ->
            [s EXCEPT !.status[c] = st, !.wait = Erase(@, c), !.busy = Append(@, c)]
      [] ~Waits(s.status[c]) /\ Waits(st) ->
            [s EXCEPT !.status[c] = st, !.iter = SkipErased(s.busy, @, c),
                      !.busy = Erase(@, c), !.wait = Append(@, c)]
      [] OTHER -> [s EXCEPT !.status[c] = st]

\* Mutant of SetState: the node is erased, and its links cleared, before the
\* cursor that points at it moves on.
SetStateErasesFirst(s, c, st) ==
    CASE Waits(s.status[c]) /\ ~Waits(st) ->
            [s EXCEPT !.status[c] = st, !.wait = Erase(@, c), !.busy = Append(@, c)]
      [] ~Waits(s.status[c]) /\ Waits(st) ->
            [s EXCEPT !.status[c] = st, !.iter = IF @ = c THEN NULL ELSE @,
                      !.busy = Erase(@, c), !.wait = Append(@, c)]
      [] OTHER -> [s EXCEPT !.status[c] = st]

\* Mutant of SetState: the cursor is not moved.
SetStateKeepsCursor(s, c, st) ==
    CASE Waits(s.status[c]) /\ ~Waits(st) ->
            [s EXCEPT !.status[c] = st, !.wait = Erase(@, c), !.busy = Append(@, c)]
      [] ~Waits(s.status[c]) /\ Waits(st) ->
            [s EXCEPT !.status[c] = st, !.busy = Erase(@, c), !.wait = Append(@, c)]
      [] OTHER -> [s EXCEPT !.status[c] = st]

\* coroutine.set_state(): WAIT and not-WAIT live in different queues; a move
\* to the wait queue must not pull the node away under the scheduler's cursor.
SetState(s, c, st) ==
    CASE Waits(s.status[c]) /\ ~Waits(st) ->
            [s EXCEPT !.status[c] = st,
                      !.wait = Erase(@, c),
                      !.busy = Append(@, c)]
      [] ~Waits(s.status[c]) /\ Waits(st) ->
            [s EXCEPT !.status[c] = st,
                      !.iter = SkipErased(s.busy, @, c),
                      !.busy = Erase(@, c),
                      !.wait = Append(@, c)]
      [] OTHER ->
            [s EXCEPT !.status[c] = st]

\* _runtime_destroy_thread: out of the table and of the queue it is in.
Destroy(s, c) ==
    IF Waits(s.status[c])
    THEN [s EXCEPT !.all = @ \ {c}, !.wait = Erase(@, c)]
    ELSE [s EXCEPT !.all = @ \ {c}, !.busy = Erase(@, c)]

\* busy_iter = ev_list_begin(&busy_queue)
StartIteration(s) == [s EXCEPT !.iter = First(s.busy)]

\* busy_iter = ev_list_next(busy_iter): the link of whichever queue the node
\* is in, since a node has only one pair of links.
Advance(s) ==
    [s EXCEPT !.iter = IF Waits(s.status[@])
                       THEN Successor(s.wait, @)
                       ELSE Successor(s.busy, @)]
=============================================================================
