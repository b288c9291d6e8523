------------------------------- MODULE Async --------------------------------
(***************************************************************************)
(* Calls into Lua from other threads (api/async.c) over the notifier of    *)
(* api/notify.c and the semaphores of libuv.                               *)
(*                                                                         *)
(* The record of a call lives on the stack of the calling thread, so that  *)
(* a thread stands for its record.  One step of a thread is what it does   *)
(* under the mutex of the queue, or one call of libuv.                     *)
(***************************************************************************)
EXTENDS Naturals, Sequences

CONSTANTS NULL,
          Thread,    \* threads other than the Lua thread
          MaxCalls   \* calls each of them makes

VARIABLES queue,     \* call_queue
          at,        \* where each thread is: "own" code, "called", "wait"ing,
                     \* or "lost" in a handle that is gone
          calls,     \* how many calls each thread has made
          sem,       \* the semaphore of each record
          answer,    \* history: what the last call of each thread came to
          pending,   \* uv_async_send was called, its callback was not yet
          lua,       \* what the Lua thread does: "other" things, "drain",
                     \* "post"ed, "cancel"; "ub" after a use of a dead record
                     \* or of a dead handle
          record,    \* the record in its hands
          life       \* the handle: "open", "closing", "closed"

vars == <<queue, at, calls, sem, answer, pending, lua, record, life>>

Init ==
    /\ queue = <<>>
    /\ at = [t \in Thread |-> "own"]
    /\ calls = [t \in Thread |-> 0]
    /\ sem = [t \in Thread |-> 0]
    /\ answer = [t \in Thread |-> "none"]
    /\ pending = FALSE
    /\ lua = "other" /\ record = NULL
    /\ life = "open"
-----------------------------------------------------------------------------
(***************************************************************************)
(* call_in_lua, on its thread.                                             *)
(***************************************************************************)
Call(t) ==
    /\ at[t] = "own" /\ calls[t] < MaxCalls /\ life = "open"
    /\ at' = [at EXCEPT ![t] = "called"]
    /\ calls' = [calls EXCEPT ![t] = @ + 1]
    /\ sem' = [sem EXCEPT ![t] = 0]
    /\ answer' = [answer EXCEPT ![t] = "none"]
    /\ UNCHANGED <<queue, pending, lua, record, life>>

\* destroy was faster: the mutex that is locked is none any more.
EnqueueLate(t) ==
    /\ at[t] = "called" /\ life = "closed"
    /\ at' = [at EXCEPT ![t] = "lost"]
    /\ lua' = "ub"
    /\ UNCHANGED <<queue, calls, sem, answer, pending, record, life>>

\* The record is queued; nothing is sent to the Lua thread.
Enqueue(t) ==
    /\ at[t] = "called" /\ life # "closed"
    /\ queue' = Append(queue, t)
    /\ at' = [at EXCEPT ![t] = "wait"]
    /\ UNCHANGED <<calls, sem, answer, pending, lua, record, life>>

CallReturn(t) ==
    /\ at[t] = "wait" /\ sem[t] > 0
    /\ at' = [at EXCEPT ![t] = "own"]
    /\ UNCHANGED <<queue, calls, sem, answer, pending, lua, record, life>>
-----------------------------------------------------------------------------
(***************************************************************************)
(* The Lua thread.                                                         *)
(***************************************************************************)

\* The event loop calls _async_on_notify.
OnNotify ==
    /\ pending /\ lua = "other"
    /\ pending' = FALSE /\ lua' = "drain"
    /\ UNCHANGED <<queue, at, calls, sem, answer, record, life>>

\* A round of _async_do_call: the callback runs, then _async_after_call posts
\* the semaphore.
DoCall ==
    /\ lua = "drain" /\ queue # <<>>
    /\ LET t == Head(queue) IN
        /\ record' = t
        /\ sem' = [sem EXCEPT ![t] = @ + 1]
        /\ answer' = [answer EXCEPT ![t] = "called"]
    /\ queue' = Tail(queue)
    /\ lua' = "post"
    /\ UNCHANGED <<at, calls, pending, life>>

\* _async_after_call reads the record again.
AfterCall ==
    /\ lua = "post"
    /\ lua' = IF at[record] = "wait" THEN "drain" ELSE "ub"
    /\ record' = NULL
    /\ UNCHANGED <<queue, at, calls, sem, answer, pending, life>>

\* cancel_all, on its own or from destroy.
StartCancel(closing) ==
    /\ lua = "other" /\ life = "open"
    /\ lua' = "cancel"
    /\ life' = IF closing THEN "closing" ELSE life
    /\ UNCHANGED <<queue, at, calls, sem, answer, pending, record>>

CancelOne ==
    /\ lua = "cancel" /\ queue # <<>>
    /\ sem' = [sem EXCEPT ![Head(queue)] = @ + 1]
    /\ answer' = [answer EXCEPT ![Head(queue)] = "cancelled"]
    /\ queue' = Tail(queue)
    /\ UNCHANGED <<at, calls, pending, lua, record, life>>

\* The end of the loop; destroy goes on with the notifier and the mutex.
DrainEnd ==
    /\ lua \in {"drain", "cancel"} /\ queue = <<>>
    /\ lua' = "other"
    /\ life' = IF life = "closing" THEN "closed" ELSE life
    /\ UNCHANGED <<queue, at, calls, sem, answer, pending, record>>
-----------------------------------------------------------------------------
ThreadRuns(t) == Enqueue(t) \/ EnqueueLate(t) \/ CallReturn(t)

LuaRuns == OnNotify \/ DoCall \/ AfterCall \/ CancelOne \/ DrainEnd

Next ==
    \/ \E t \in Thread : Call(t) \/ ThreadRuns(t)
    \/ LuaRuns
    \/ \E closing \in BOOLEAN : StartCancel(closing)

Spec == Init /\ [][Next]_vars

\* Threads that are in a call, and the event loop, run.
Fairness == WF_vars(LuaRuns) /\ \A t \in Thread : WF_vars(ThreadRuns(t))

FairSpec == Spec /\ Fairness
-----------------------------------------------------------------------------
\* autodo.h:1491: call_in_lua "Call[s] cb in lua thread": unless somebody
\* cancels it, the callback is called.
CallIsMade == \A t \in Thread : (at[t] = "wait") ~> (answer[t] \in {"called", "cancelled"})
=============================================================================
