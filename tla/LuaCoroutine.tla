---------------------------- MODULE LuaCoroutine ----------------------------
(***************************************************************************)
(* The coroutine objects a Lua script works with (lua/coroutine.c) and     *)
(* auto.sleep (lua/sleep.c over api/timer.c), on top of the scheduler.     *)
(*                                                                         *)
(* A script is any sequence of the calls it can make.  Between two of them *)
(* nothing else runs, so that each call is one action; the loop that wakes *)
(* the waiters of a finished coroutine is one action per waiter.  The only *)
(* schedule hook is the one every coroutine object registers (its own), so *)
(* a coroutine has a hook or it has none.                                  *)
(*                                                                         *)
(* What a script may do is restricted by two constants, so that a run can  *)
(* say which calls it is about and which rules the scripts respect:        *)
(*   "LiveTarget"   suspend, resume and close only what is neither         *)
(*                  finished nor closed                                    *)
(*   "CloseLast"    close only the running coroutine, and then only yield  *)
(*                  or return                                              *)
(*   "AwaitOthers"  do not await the running coroutine                     *)
(*   "NoEarlyWake"  never resume() a coroutine that is inside auto.sleep   *)
(*                                                                         *)
(* pc is "pass", "run", "poll", "returned", "thrown", "closed", "aborted"  *)
(* as in Scheduler, and                                                    *)
(*   "wake"   in the loop of _on_coroutine_state_change(cur)               *)
(*   "ub"     a pointer to a destroyed coroutine was used                  *)
(***************************************************************************)
EXTENDS CoroutineApi

CONSTANTS Main,        \* the coroutine main.c hosts for the script
          Timer,       \* sleep_ctx objects with an armed timer
          Calls,       \* the calls scripts make
          Rules,       \* the rules scripts respect
          MaxWaiters   \* bound on the records in one wait queue

ASSUME MainAssumption == Main \in Co
ASSUME TimerAssumption == NULL \notin Timer
ASSUME BoundAssumption == MaxWaiters \in Nat

VARIABLES
    sch,        \* the schedule, see CoroutineApi
    pc,         \* where the scheduler is
    cur,        \* the coroutine being served
    failing,    \* the hook being called precedes lua_error()
    waking,     \* waiters the loop of the hook has still to wake
    obj,        \* obj[c]: the lua_coroutine_t of c
    at,         \* at[c]: where the Lua thread of c is
    armed,      \* armed[k]: the coroutine timer k will wake, or NULL
    over,       \* coroutines whose Lua thread has returned or failed
    blocking,   \* uv_run was called with UV_RUN_ONCE and nothing happened yet
    suspended,  \* history: suspended by a script and not running since
    poked,      \* history: sleepers whose timer fired or that were resumed
    reported    \* history: reported[c]: what awaits of c returned

vars == <<sch, pc, cur, failing, waking, obj, at, armed, over, blocking,
          suspended, poked, reported>>

\* The script that creates a coroutine gets its object; the main coroutine
\* has none.  wq holds the coroutine of each record in wait_queue.
NoObject == [life |-> "none", hooked |-> FALSE, wq |-> <<>>,
             have |-> FALSE, closed |-> FALSE, out |-> "pending"]

\* Where a Lua thread continues when it is resumed.
Script == [in |-> "script", on |-> NULL]
Awaiting(t) == [in |-> "await", on |-> t]
Sleeping(k) == [in |-> "sleep", on |-> k]

Stopped == pc \in {"returned", "thrown", "closed", "aborted", "ub"}

Init ==
    /\ sch = StartIteration(Host(EmptySchedule, Main))
    /\ pc = "pass"
    /\ cur = NULL
    /\ failing = FALSE
    /\ waking = <<>>
    /\ obj = [c \in Co |-> NoObject]
    /\ at = [c \in Co |-> Script]
    /\ armed = [k \in Timer |-> NULL]
    /\ over = {}
    /\ blocking = FALSE
    /\ suspended = {}
    /\ poked = {}
    /\ reported = [c \in Co |-> {}]
-----------------------------------------------------------------------------
\* Mutant of Leave: the loop over the waiters starts at the second record.
LeaveSkipsFirst(s, c, isError) ==
    /\ sch' = s
    /\ failing' = isError
    /\ IF obj[c].hooked /\ IsDead(s.status[c])
       THEN /\ pc' = "wake"
            /\ waking' = SubSeq(obj[c].wq, 2, Len(obj[c].wq))
            /\ obj' = [obj EXCEPT ![c].hooked = FALSE]
            /\ cur' = c
       ELSE /\ pc' = IF isError THEN "thrown" ELSE "pass"
            /\ cur' = NULL
            /\ UNCHANGED <<waking, obj>>

(***************************************************************************)
(* Giving control back to the scheduler: _thread_trigger_hook(cur) calls   *)
(* _on_coroutine_state_change, which does nothing unless cur is dead, and  *)
(* otherwise unhooks itself and starts waking the waiters.                 *)
(***************************************************************************)
Leave(s, c, isError) ==
    /\ sch' = s
    /\ failing' = isError
    /\ IF obj[c].hooked /\ IsDead(s.status[c])
       THEN /\ pc' = "wake"
            /\ waking' = obj[c].wq
            /\ obj' = [obj EXCEPT ![c].hooked = FALSE]
            /\ cur' = c
       ELSE /\ pc' = IF isError THEN "thrown" ELSE "pass"
            /\ cur' = NULL
            /\ UNCHANGED <<waking, obj>>

\* Mutant of WakeNext: only the first waiter is woken.
WakeFirst ==
    /\ pc = "wake" /\ waking # <<>>
    /\ waking' = <<>>
    /\ IF Head(waking) \in sch.all
       THEN sch' = SetState(sch, Head(waking), "busy") /\ pc' = pc
       ELSE pc' = "ub" /\ UNCHANGED sch
    /\ UNCHANGED <<cur, failing, obj, at, armed, over, blocking, suspended, poked, reported>>

WakeNext ==
    /\ pc = "wake" /\ waking # <<>>
    /\ waking' = Tail(waking)
    /\ IF Head(waking) \in sch.all
       THEN sch' = SetState(sch, Head(waking), "busy") /\ pc' = pc
       ELSE pc' = "ub" /\ UNCHANGED sch
    /\ UNCHANGED <<cur, failing, obj, at, armed, over, blocking, suspended, poked, reported>>

\* All are awake: the result is stored.  An object that was closed while its
\* coroutine ran stores what the coroutine last yielded or returned.
WakeEnd ==
    /\ pc = "wake" /\ waking = <<>>
    /\ obj' = [obj EXCEPT ![cur].have = TRUE,
                          ![cur].out = IF sch.status[cur] = "error" THEN "error" ELSE "ok"]
    /\ pc' = IF failing THEN "thrown" ELSE "pass"
    /\ cur' = NULL
    /\ UNCHANGED <<sch, failing, waking, at, armed, over, blocking, suspended, poked, reported>>
-----------------------------------------------------------------------------
(***************************************************************************)
(* The scheduler (runtime.c), serving the coroutine under its cursor.      *)
(***************************************************************************)
Serving(thr) == pc = "pass" /\ sch.iter # NULL /\ thr = sch.iter

ReapDead ==
    /\ \E thr \in Co :
        /\ Serving(thr) /\ IsDead(sch.status[thr])
        /\ IF obj[thr].hooked
           THEN pc' = "aborted" /\ UNCHANGED sch
           ELSE pc' = pc /\ sch' = Destroy(Advance(sch), thr)
    /\ UNCHANGED <<cur, failing, waking, obj, at, armed, over, blocking,
                   suspended, poked, reported>>

\* lua_resume on a thread that is already over fails.
ResumeFinished ==
    /\ \E thr \in Co :
        /\ Serving(thr) /\ ~IsDead(sch.status[thr])
        /\ thr \in over
        /\ Leave(SetState(Advance(sch), thr, "error"), thr, TRUE)
    /\ UNCHANGED <<at, armed, over, blocking, suspended, poked, reported>>

\* Control returns to the script: a plain yield, or _sleep_on_resume.
ResumeScript ==
    /\ \E thr \in Co :
        /\ Serving(thr) /\ ~IsDead(sch.status[thr])
        /\ thr \notin over
        /\ at[thr].in \in {"script", "sleep"}
        /\ at' = [at EXCEPT ![thr] = Script]
        /\ cur' = thr
        /\ suspended' = suspended \ {thr}
    /\ sch' = Advance(sch)
    /\ pc' = "run"
    /\ UNCHANGED <<failing, waking, obj, armed, over, blocking, poked, reported>>

\* What _coroutine_on_resume reports of t: closed wins over a result.
Verdict(t) == IF obj[t].closed THEN "closed" ELSE obj[t].out

\* Mutant of AwaitDone: flag_have_result is not tested.
AwaitDoneEarly(c, t) ==
    /\ at' = [at EXCEPT ![c] = Script]
    /\ reported' = [reported EXCEPT ![t] = @ \cup {Verdict(t)}]

\* _coroutine_on_resume once t is closed or has a result, for the record of c:
\* a closed t leaves the record in the wait queue.
AwaitDone(c, t) ==
    /\ obj[t].closed \/ obj[t].have
    /\ at' = [at EXCEPT ![c] = Script]
    /\ reported' = [reported EXCEPT ![t] = @ \cup {Verdict(t)}]

\* Control returns to _coroutine_on_resume, which has an answer.
ResumeAwaitDone ==
    /\ \E thr \in Co :
        /\ Serving(thr) /\ ~IsDead(sch.status[thr])
        /\ thr \notin over /\ at[thr].in = "await"
        /\ LET t == at[thr].on IN
            /\ AwaitDone(thr, t)
            /\ obj' = IF obj[t].closed THEN obj ELSE [obj EXCEPT ![t].wq = Erase(@, thr)]
        /\ cur' = thr
        /\ suspended' = suspended \ {thr}
    /\ sch' = Advance(sch)
    /\ pc' = "run"
    /\ UNCHANGED <<failing, waking, armed, over, blocking, poked>>

\* Mutant of ResumeAwaitAgain: await returns although nothing happened.
ResumeAwaitGivesUp ==
    /\ \E thr \in Co :
        /\ Serving(thr) /\ ~IsDead(sch.status[thr])
        /\ thr \notin over /\ at[thr].in = "await"
        /\ LET t == at[thr].on IN ~obj[t].closed /\ ~obj[t].have
        /\ at' = [at EXCEPT ![thr] = Script]
        /\ cur' = thr
        /\ suspended' = suspended \ {thr}
    /\ sch' = Advance(sch)
    /\ pc' = "run"
    /\ UNCHANGED <<failing, waking, obj, armed, over, blocking, poked, reported>>

\* Control returns to _coroutine_on_resume, which goes on waiting.
ResumeAwaitAgain ==
    /\ \E thr \in Co :
        /\ Serving(thr) /\ ~IsDead(sch.status[thr])
        /\ thr \notin over /\ at[thr].in = "await"
        /\ LET t == at[thr].on IN ~obj[t].closed /\ ~obj[t].have
        /\ Leave(SetState(Advance(sch), thr, "wait"), thr, FALSE)
        /\ suspended' = suspended \ {thr}
    /\ UNCHANGED <<at, armed, over, blocking, poked, reported>>

EndPass ==
    /\ pc = "pass" /\ sch.iter = NULL
    /\ IF sch.all = {}
       THEN pc' = "returned" /\ UNCHANGED blocking
       ELSE pc' = "poll" /\ blocking' = (sch.busy = <<>>)
    /\ UNCHANGED <<sch, cur, failing, waking, obj, at, armed, over,
                   suspended, poked, reported>>


\* _on_sleep_timer: the sleeper is made runnable and the timer destroyed.
TimerFires(k) ==
    /\ pc = "poll" /\ armed[k] # NULL
    /\ armed' = [armed EXCEPT ![k] = NULL]
    /\ blocking' = FALSE
    /\ LET c == armed[k] IN
        /\ IF c \in sch.all
           THEN sch' = SetState(sch, c, "busy") /\ pc' = pc
           ELSE pc' = "ub" /\ UNCHANGED sch
        /\ poked' = IF at[c] = Sleeping(k) THEN poked \cup {c} ELSE poked
    /\ UNCHANGED <<cur, failing, waking, obj, at, over, suspended, reported>>

PollReturn ==
    /\ pc = "poll" /\ ~blocking
    /\ pc' = "pass"
    /\ sch' = StartIteration(sch)
    /\ UNCHANGED <<cur, failing, waking, obj, at, armed, over, blocking,
                   suspended, poked, reported>>

\* lua_close: the finalizers of the objects unhook and those of the sleep
\* contexts destroy their timers, then _runtime_exit destroys the coroutines.
Shutdown ==
    /\ pc \in {"returned", "thrown"}
    /\ pc' = "closed"
    /\ sch' = [sch EXCEPT !.all = {}, !.busy = <<>>, !.wait = <<>>]
    /\ obj' = [c \in Co |-> [obj[c] EXCEPT !.hooked = FALSE]]
    /\ armed' = [k \in Timer |-> NULL]
    /\ UNCHANGED <<cur, failing, waking, at, over, blocking, suspended, poked, reported>>
-----------------------------------------------------------------------------
(***************************************************************************)
(* What the running script does.                                           *)
(***************************************************************************)
Running(call) ==
    /\ pc = "run" /\ call \in Calls
    /\ ("CloseLast" \in Rules /\ obj[cur].closed) => call \in {"yield", "return", "error"}

\* auto.coroutine(f): a new Lua thread, hosted and hooked.
Spawn(c) ==
    /\ Running("spawn")
    /\ obj[c].life = "none" /\ c # Main
    /\ sch' = Host(sch, c)
    /\ obj' = [obj EXCEPT ![c].life = "live", ![c].hooked = TRUE]
    /\ UNCHANGED <<pc, cur, failing, waking, at, armed, over, blocking,
                   suspended, poked, reported>>

\* The wait queue t:await() links a record to.
Awaitable(t) ==
    /\ obj[t].life = "live" /\ Len(obj[t].wq) < MaxWaiters
    /\ "AwaitOthers" \in Rules => t # cur

\* t:await() with an answer at hand.  The record is linked and, unless t is
\* closed, unlinked again.
AwaitNow(t) ==
    /\ Running("await") /\ Awaitable(t)
    /\ AwaitDone(cur, t)
    /\ obj' = IF obj[t].closed THEN [obj EXCEPT ![t].wq = Append(@, cur)] ELSE obj
    /\ UNCHANGED <<sch, pc, cur, failing, waking, armed, over, blocking, suspended, poked>>

\* t:await() without one: cur is linked as a waiter and yields in WAIT.
AwaitBlocks(t) ==
    /\ Running("await") /\ Awaitable(t)
    /\ ~obj[t].closed /\ ~obj[t].have
    /\ obj' = [obj EXCEPT ![t].wq = Append(@, cur)]
    /\ at' = [at EXCEPT ![cur] = Awaiting(t)]
    /\ sch' = SetState(sch, cur, "wait")
    /\ pc' = "pass"
    /\ cur' = NULL
    /\ UNCHANGED <<failing, waking, armed, over, blocking, suspended, poked, reported>>

\* suspend, resume and close go through the handle whatever became of it.
SetTarget(t, st) ==
    IF t \in sch.all
    THEN sch' = SetState(sch, t, st) /\ pc' = pc
    ELSE pc' = "ub" /\ UNCHANGED sch

Targets == {t \in Co : /\ obj[t].life = "live"
                       /\ "LiveTarget" \in Rules => t \notin over /\ ~obj[t].closed}

Suspend(t) ==
    /\ Running("suspend") /\ t \in Targets
    /\ SetTarget(t, "wait")
    /\ suspended' = suspended \cup {t}
    /\ UNCHANGED <<cur, failing, waking, obj, at, armed, over, blocking, poked, reported>>

Resume(t) ==
    /\ Running("resume") /\ t \in Targets
    /\ "NoEarlyWake" \in Rules => at[t].in # "sleep"
    /\ SetTarget(t, "busy")
    /\ suspended' = suspended \ {t}
    /\ poked' = IF at[t].in = "sleep" THEN poked \cup {t} ELSE poked
    /\ UNCHANGED <<cur, failing, waking, obj, at, armed, over, blocking, reported>>

Close(t) ==
    /\ Running("close") /\ t \in Targets
    /\ "CloseLast" \in Rules => t = cur
    /\ obj' = [obj EXCEPT ![t].closed = TRUE]
    /\ SetTarget(t, "dead")
    /\ UNCHANGED <<cur, failing, waking, at, armed, over, blocking, suspended, poked, reported>>

\* Mutant of Sleep: the coroutine yields without being set to WAIT.
SleepStaysBusy(k) ==
    /\ Running("sleep")
    /\ armed[k] = NULL /\ \A c \in Co : at[c] # Sleeping(k)
    /\ armed' = [armed EXCEPT ![k] = cur]
    /\ at' = [at EXCEPT ![cur] = Sleeping(k)]
    /\ poked' = poked \ {cur}
    /\ pc' = "pass"
    /\ cur' = NULL
    /\ UNCHANGED <<sch, failing, waking, obj, over, blocking, suspended, reported>>

\* auto.sleep(): a timer is armed, cur yields in WAIT.
Sleep(k) ==
    /\ Running("sleep")
    /\ armed[k] = NULL /\ \A c \in Co : at[c] # Sleeping(k)
    /\ armed' = [armed EXCEPT ![k] = cur]
    /\ at' = [at EXCEPT ![cur] = Sleeping(k)]
    /\ sch' = SetState(sch, cur, "wait")
    /\ poked' = poked \ {cur}
    /\ pc' = "pass"
    /\ cur' = NULL
    /\ UNCHANGED <<failing, waking, obj, over, blocking, suspended, reported>>

\* Mutant of Yield: hooks are called only when the coroutine has finished.
YieldWithoutHook ==
    /\ Running("yield")
    /\ pc' = "pass"
    /\ cur' = NULL
    /\ UNCHANGED <<sch, failing, waking, obj, at, armed, over, blocking,
                   suspended, poked, reported>>

\* coroutine.yield() keeps whatever state the coroutine is in.
Yield ==
    /\ Running("yield")
    /\ Leave(sch, cur, FALSE)
    /\ UNCHANGED <<at, armed, over, blocking, suspended, poked, reported>>

Return ==
    /\ Running("return")
    /\ over' = over \cup {cur}
    /\ Leave(SetState(sch, cur, "dead"), cur, FALSE)
    /\ UNCHANGED <<at, armed, blocking, suspended, poked, reported>>

Error ==
    /\ Running("error")
    /\ over' = over \cup {cur}
    /\ Leave(SetState(sch, cur, "error"), cur, TRUE)
    /\ UNCHANGED <<at, armed, blocking, suspended, poked, reported>>

(***************************************************************************)
(* The garbage collector, which may run whenever the script does.  An      *)
(* object stays reachable from the stack of a registered waiter, a sleep   *)
(* context from the stack of its sleeper.                                  *)
(***************************************************************************)
CollectObject(t) ==
    /\ Running("collect")
    /\ obj[t].life = "live"
    /\ \A c \in sch.all : at[c] # Awaiting(t)
    /\ obj' = [obj EXCEPT ![t].life = "collected", ![t].hooked = FALSE]
    /\ UNCHANGED <<sch, pc, cur, failing, waking, at, armed, over, blocking,
                   suspended, poked, reported>>

\* Mutant of CollectTimer: the sleep context is not kept on the stack.
CollectTimerInUse(k) ==
    /\ Running("collect")
    /\ armed[k] # NULL
    /\ armed' = [armed EXCEPT ![k] = NULL]
    /\ UNCHANGED <<sch, pc, cur, failing, waking, obj, at, over, blocking,
                   suspended, poked, reported>>

CollectTimer(k) ==
    /\ Running("collect")
    /\ armed[k] # NULL
    /\ armed[k] \in sch.all => at[armed[k]] # Sleeping(k)
    /\ armed' = [armed EXCEPT ![k] = NULL]
    /\ UNCHANGED <<sch, pc, cur, failing, waking, obj, at, over, blocking,
                   suspended, poked, reported>>
-----------------------------------------------------------------------------
Scheduling ==
    \/ WakeNext \/ WakeEnd
    \/ ReapDead \/ ResumeFinished \/ ResumeScript \/ ResumeAwaitDone \/ ResumeAwaitAgain
    \/ EndPass

\* The calls that end the script's turn, and those that do not.
LeaveRun ==
    \/ Yield \/ Return \/ Error
    \/ \E t \in Co : AwaitBlocks(t)
    \/ \E k \in Timer : Sleep(k)

StayInRun ==
    \/ \E c \in Co : \/ Spawn(c) \/ AwaitNow(c) \/ Suspend(c) \/ Resume(c)
                     \/ Close(c) \/ CollectObject(c)
    \/ \E k \in Timer : CollectTimer(k)

FireTimer == \E k \in Timer : TimerFires(k)

Next == Scheduling \/ LeaveRun \/ StayInRun \/ FireTimer \/ PollReturn \/ Shutdown

Spec == Init /\ [][Next]_vars

\* Scripts are cooperative: each turn ends.  Timers expire: the event loop
\* that is entered again and again calls every armed timer sooner or later.
Fairness ==
    /\ WF_vars(Scheduling)
    /\ WF_vars(LeaveRun)
    /\ SF_vars(PollReturn)
    /\ \A k \in Timer : SF_vars(TimerFires(k))

FairSpec == Spec /\ Fairness
-----------------------------------------------------------------------------
(***************************************************************************)
(* Properties.                                                             *)
(***************************************************************************)

\* The type invariant of the coroutine objects and the scheduler under them.
TypeOK ==
    /\ sch \in Schedules
    /\ pc \in {"pass", "run", "wake", "poll", "returned", "thrown", "closed",
               "aborted", "ub"}
    /\ cur \in Co \cup {NULL}
    /\ failing \in BOOLEAN
    /\ waking \in Seq(Co)
    /\ obj \in [Co -> [life : {"none", "live", "collected"}, hooked : BOOLEAN,
                       wq : Seq(Co), have : BOOLEAN, closed : BOOLEAN,
                       out : {"pending", "ok", "error"}]]
    /\ at \in [Co -> [in : {"script", "await", "sleep"}, on : Co \cup Timer \cup {NULL}]]
    /\ armed \in [Timer -> Co \cup {NULL}]
    /\ over \in SUBSET Co
    /\ blocking \in BOOLEAN
    /\ suspended \in SUBSET Co
    /\ poked \in SUBSET Co
    /\ reported \in [Co -> SUBSET {"ok", "error", "closed"}]

\* The calls of the coroutine objects keep the scheduler's queues consistent
\* with the status of every coroutine, whatever scripts do.
QueuesMatchStatus == QueuesMatch(sch)

\* A coroutine that waits is never forgotten: unless a script suspended it,
\* the thing that will wake it exists, is linked to it and has not happened
\* yet: the armed timer of its sleep, or the hook of a registered, unfinished
\* coroutine in whose wait queue it is (lua/coroutine.c:63-69, 108).
NoLostWakeup ==
    \A c \in sch.all :
        (sch.status[c] = "wait" /\ c # cur /\ c \notin suspended /\ pc # "ub") =>
            \/ at[c].in = "sleep" /\ armed[at[c].on] = c
            \/ /\ at[c].in = "await"
               /\ LET t == at[c].on IN
                   /\ t \in sch.all
                   /\ c \in ToSet(obj[t].wq)
                   /\ ~obj[t].have
                   /\ \/ obj[t].hooked
                      \/ pc = "wake" /\ cur = t /\ c \in ToSet(waking)

\* As long as a coroutine can still settle, its wait queue holds exactly who
\* is inside await() for it: the wake-up loop reaches no record whose waiter
\* has gone on, finished or been destroyed (lua/coroutine.c:64-69, 112).
WaitersAreWaiting ==
    \A t \in Co : obj[t].hooked =>
        \A c \in ToSet(obj[t].wq) : c \in sch.all /\ at[c] = Awaiting(t)

\* _runtime_destroy_thread's assertion (runtime.c:38): a coroutine is only
\* destroyed when its hooks are gone.
NoAssertFailure == pc # "aborted"

\* autodo.h:579-581: a coroutine object is not used after the scheduler has
\* destroyed it.
NoUseAfterDestroy == pc # "ub"

\* Whomever the coroutines in S await is in S.
AwaitClosed(S) == \A c \in S : at[c].in = "await" => at[c].on \in S

\* c can still be woken: its own timer runs, or a script suspended it.
Expected(c) ==
    /\ c \in sch.all
    /\ c \in suspended \/ (at[c].in = "sleep" /\ armed[at[c].on] = c)

\* Registered coroutines that all await each other.
Circle(S) == S # {} /\ S \subseteq sch.all /\ AwaitClosed(S) /\ \A c \in S : at[c].in = "await"

\* When the event loop blocks, nobody waits for nothing: who every coroutine
\* left awaits, and whom that one awaits, and so on, ends at one whose timer
\* runs or that a script has suspended, or in a circle of awaits (autodo.h:588,
\* lua/coroutine.c:106-109, runtime.c:291).
BlocksOnlyForEvents ==
    (pc = "poll" /\ blocking) =>
        \A c \in sch.all : \A S \in SUBSET Co : (c \in S /\ AwaitClosed(S)) =>
            (\E d \in S : Expected(d)) \/ (\E C \in SUBSET S : Circle(C))

\* await() keeps the promise of docs/coroutine.md:27.
Promise == INSTANCE AwaitPromise WITH
    outcome <- [c \in Co |-> IF obj[c].closed THEN "closed" ELSE obj[c].out]

\* Refinement: a coroutine is settled once, and awaits report just that.
ImplementsPromise == Promise!Spec

\* autodo.h:558: a DEAD coroutine whose Lua thread is over "will be destroy
\* soon": it never becomes schedulable again.
DeadStaysDead ==
    [][\A c \in Co : (c \in over /\ c \in sch.all /\ IsDead(sch.status[c])) =>
          IsDead(sch'.status[c])]_vars

\* docs/sleep.md:11: auto.sleep returns when its own timer has fired, or when
\* a script resumed the sleeper on purpose.
SleepNotCutShort ==
    [][\A c \in Co : (at[c].in = "sleep" /\ at'[c].in # "sleep") => c \in poked]_vars

\* Three scripts that resume each other's sleeps in turn can keep one pass
\* going for ever (runtime.c:124): then no timer is looked at any more.
PassesEnd == []<>(pc = "poll" \/ Stopped)

\* As long as passes keep ending, whoever awaits a coroutine that has finished
\* gets its answer, however often it was woken for nothing (lua/coroutine.c:106).
AwaitReturns ==
    PassesEnd =>
        \A t \in Co \ {Main} : \A c \in Co \ {t} :
            (at[c] = Awaiting(t) /\ t \in over) ~> (at[c] # Awaiting(t) \/ Stopped)

=============================================================================
