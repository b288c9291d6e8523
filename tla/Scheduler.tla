----------------------------- MODULE Scheduler ------------------------------
(***************************************************************************)
(* The cooperative scheduler of runtime.c and the coroutine C API of       *)
(* api/coroutine.c, under every sequence of API calls a client can make at *)
(* the three places where code that is not the scheduler's runs: inside a  *)
(* resumed coroutine, inside a schedule hook, and inside an event callback *)
(* of uv_run().                                                            *)
(*                                                                         *)
(* pc is the scheduler's program counter:                                  *)
(*   "pass"      head of the loop of _runtime_schedule_one_pass            *)
(*   "run"       inside lua_resume(cur)                                    *)
(*   "trigger"   head of the loop of _thread_trigger_hook(cur)             *)
(*   "hook"      inside a hook callback of cur                             *)
(*   "poll"      inside uv_run, no callback active                         *)
(*   "callback"  inside an event callback                                  *)
(*   "returned"  auto_schedule returned: no coroutine is left              *)
(*   "thrown"    lua_error left the scheduler; lua_close runs finalizers   *)
(*   "closed"    _runtime_exit released everything                         *)
(*   "aborted"   the assertion of _runtime_destroy_thread failed           *)
(***************************************************************************)
EXTENDS CoroutineApi

CONSTANTS Main,    \* the coroutine main.c hosts for the script
          Hook     \* hook tokens (addresses of auto_coroutine_hook_t)

ASSUME MainAssumption == Main \in Co
ASSUME HookAssumption == NULL \notin Hook

VARIABLES
    sch,        \* the schedule of the runtime, see CoroutineApi
    pc,         \* where the scheduler is
    cur,        \* thr, the coroutine being served, NULL between two
    failing,    \* the hooks being triggered precede lua_error()
    hooks,      \* hooks[c]: hook.queue of c
    hookIt,     \* hookIt[c]: hook.it of c
    over,       \* coroutines whose Lua thread has returned or failed
    blocking,   \* uv_run was called with UV_RUN_ONCE and nothing happened yet
    passDue,    \* history: coroutines the current pass still has to serve
    hookDue     \* history: hooks the current trigger still has to call

vars == <<sch, pc, cur, failing, hooks, hookIt, over, blocking, passDue, hookDue>>

PCs == {"pass", "run", "trigger", "hook", "poll", "callback",
        "returned", "thrown", "closed", "aborted"}

\* Where the scheduler has handed control to a client of the API.
InClient == pc \in {"run", "hook", "callback"}

\* Where auto_schedule is over.
Stopped == pc \in {"returned", "thrown", "closed", "aborted"}

Registered == UNION {ToSet(hooks[c]) : c \in Co}

Init ==
    /\ sch = StartIteration(Host(EmptySchedule, Main))
    /\ pc = "pass"
    /\ cur = NULL
    /\ failing = FALSE
    /\ hooks = [c \in Co |-> <<>>]
    /\ hookIt = [c \in Co |-> NULL]
    /\ over = {}
    /\ blocking = FALSE
    /\ passDue = {Main}
    /\ hookDue = {}
-----------------------------------------------------------------------------
(***************************************************************************)
(* The scheduler.                                                          *)
(***************************************************************************)

\* A dead coroutine is destroyed when the pass reaches it.
ReapDead ==
    /\ pc = "pass" /\ sch.iter # NULL
    /\ LET thr == sch.iter IN
        /\ IsDead(sch.status[thr])
        /\ IF hooks[thr] = <<>>
           THEN /\ sch' = Destroy(Advance(sch), thr)
                /\ passDue' = passDue \ {thr}
                /\ pc' = pc
           ELSE /\ pc' = "aborted"
                /\ UNCHANGED <<sch, passDue>>
    /\ UNCHANGED <<cur, failing, hooks, hookIt, over, blocking, hookDue>>

\* _thread_trigger_hook(c), up to the first test of its loop.
StartTrigger(c) ==
    /\ pc' = "trigger"
    /\ hookIt' = [hookIt EXCEPT ![c] = First(hooks[c])]
    /\ hookDue' = ToSet(hooks[c])

\* lua_resume on a thread that can run.
Resume ==
    /\ pc = "pass" /\ sch.iter # NULL
    /\ LET thr == sch.iter IN
        /\ ~IsDead(sch.status[thr])
        /\ thr \notin over
        /\ cur' = thr
        /\ passDue' = passDue \ {thr}
    /\ sch' = Advance(sch)
    /\ pc' = "run"
    /\ UNCHANGED <<failing, hooks, hookIt, over, blocking, hookDue>>

\* lua_resume on a finished thread fails at once ("cannot resume dead
\* coroutine"), like an error raised by the coroutine itself.
ResumeFinished ==
    /\ pc = "pass" /\ sch.iter # NULL
    /\ LET thr == sch.iter IN
        /\ ~IsDead(sch.status[thr])
        /\ thr \in over
        /\ cur' = thr
        /\ passDue' = passDue \ {thr}
        /\ sch' = SetState(Advance(sch), thr, "error")
        /\ StartTrigger(thr)
    /\ failing' = TRUE
    /\ UNCHANGED <<hooks, over, blocking>>

\* The running coroutine yields: its status stays what it was set to.
Yield ==
    /\ pc = "run"
    /\ StartTrigger(cur)
    /\ UNCHANGED <<sch, cur, failing, hooks, over, blocking, passDue>>

\* The running coroutine returns.
Finish ==
    /\ pc = "run"
    /\ sch' = SetState(sch, cur, "dead")
    /\ over' = over \cup {cur}
    /\ StartTrigger(cur)
    /\ UNCHANGED <<cur, failing, hooks, blocking, passDue>>

\* The running coroutine raises an error (flags.protect is never set).
Fail ==
    /\ pc = "run"
    /\ sch' = SetState(sch, cur, "error")
    /\ over' = over \cup {cur}
    /\ failing' = TRUE
    /\ StartTrigger(cur)
    /\ UNCHANGED <<cur, hooks, blocking, passDue>>

\* One round of the trigger loop: the cursor moves on, then the hook runs.
TriggerNext ==
    /\ pc = "trigger" /\ hookIt[cur] # NULL
    /\ LET token == hookIt[cur] IN
        /\ hookIt' = [hookIt EXCEPT ![cur] = Successor(hooks[cur], token)]
        /\ hookDue' = hookDue \ {token}
    /\ pc' = "hook"
    /\ UNCHANGED <<sch, cur, failing, hooks, over, blocking, passDue>>

HookReturn ==
    /\ pc = "hook"
    /\ pc' = "trigger"
    /\ UNCHANGED <<sch, cur, failing, hooks, hookIt, over, blocking, passDue, hookDue>>

\* Mutant of TriggerEnd: the error is not raised after the hooks.
TriggerEndSwallows ==
    /\ pc = "trigger" /\ hookIt[cur] = NULL
    /\ pc' = "pass"
    /\ cur' = NULL
    /\ UNCHANGED <<sch, failing, hooks, hookIt, over, blocking, passDue, hookDue>>

TriggerEnd ==
    /\ pc = "trigger" /\ hookIt[cur] = NULL
    /\ pc' = IF failing THEN "thrown" ELSE "pass"
    /\ cur' = NULL
    /\ UNCHANGED <<sch, failing, hooks, hookIt, over, blocking, passDue, hookDue>>

\* Mutant of EndPass: UV_RUN_ONCE even when a coroutine is runnable.
EndPassBlocks ==
    /\ pc = "pass" /\ sch.iter = NULL
    /\ blocking' = (sch.all # {})
    /\ pc' = IF sch.all = {} THEN "returned" ELSE "poll"
    /\ UNCHANGED <<sch, cur, failing, hooks, hookIt, over, passDue, hookDue>>

\* The pass is over: auto_schedule returns, or lets the event loop run and
\* blocks in it when no coroutine is runnable.
EndPass ==
    /\ pc = "pass" /\ sch.iter = NULL
    /\ IF sch.all = {}
       THEN pc' = "returned" /\ UNCHANGED blocking
       ELSE pc' = "poll" /\ blocking' = (sch.busy = <<>>)
    /\ UNCHANGED <<sch, cur, failing, hooks, hookIt, over, passDue, hookDue>>

\* The event loop calls back: a timer, a process, a notification.
PollEvent ==
    /\ pc = "poll"
    /\ pc' = "callback"
    /\ blocking' = FALSE
    /\ UNCHANGED <<sch, cur, failing, hooks, hookIt, over, passDue, hookDue>>

CallbackReturn ==
    /\ pc = "callback"
    /\ pc' = "poll"
    /\ UNCHANGED <<sch, cur, failing, hooks, hookIt, over, blocking, passDue, hookDue>>

\* uv_run returns and the next pass starts at the head of the busy queue.
PollReturn ==
    /\ pc = "poll" /\ ~blocking
    /\ pc' = "pass"
    /\ sch' = StartIteration(sch)
    /\ passDue' = ToSet(sch.busy)
    /\ UNCHANGED <<cur, failing, hooks, hookIt, over, blocking, hookDue>>
-----------------------------------------------------------------------------
(***************************************************************************)
(* Calls a client makes while it has control.  It passes only coroutines   *)
(* that are still registered and tokens that are still linked: the handles *)
(* are plain pointers.                                                     *)
(***************************************************************************)

\* coroutine.host() on a fresh Lua thread.
CallHost(c) ==
    /\ InClient
    /\ c \notin sch.all
    /\ sch' = Host(sch, c)
    /\ over' = over \ {c}
    /\ UNCHANGED <<pc, cur, failing, hooks, hookIt, blocking, passDue, hookDue>>

\* coroutine.set_state().  A coroutine that leaves the busy queue is no
\* longer due in this pass; coming back it queues up behind the others.
CallSetState(c, st) ==
    /\ InClient
    /\ c \in sch.all
    /\ sch' = SetState(sch, c, st)
    /\ passDue' = IF Waits(st) THEN passDue \ {c} ELSE passDue
    /\ UNCHANGED <<pc, cur, failing, hooks, hookIt, over, blocking, hookDue>>

\* coroutine.hook()
CallHook(c, token) ==
    /\ InClient
    /\ c \in sch.all
    /\ token \notin Registered
    /\ hooks' = [hooks EXCEPT ![c] = Append(@, token)]
    /\ UNCHANGED <<sch, pc, cur, failing, hookIt, over, blocking, passDue, hookDue>>

\* Mutant of CallUnhook: the cursor of the trigger loop is not looked at.
UnhookKeepsCursor(c, token) ==
    /\ InClient \/ pc = "thrown"
    /\ c \in sch.all
    /\ token \in ToSet(hooks[c])
    /\ hooks' = [hooks EXCEPT ![c] = Erase(@, token)]
    /\ hookDue' = hookDue \ {token}
    /\ UNCHANGED <<sch, pc, cur, failing, hookIt, over, blocking, passDue>>

\* Mutant of CallUnhook: the token is erased before the cursor moves on.
UnhookErasesFirst(c, token) ==
    /\ InClient \/ pc = "thrown"
    /\ c \in sch.all
    /\ token \in ToSet(hooks[c])
    /\ hookIt' = [hookIt EXCEPT ![c] = IF @ = token THEN NULL ELSE @]
    /\ hooks' = [hooks EXCEPT ![c] = Erase(@, token)]
    /\ hookDue' = hookDue \ {token}
    /\ UNCHANGED <<sch, pc, cur, failing, over, blocking, passDue>>

\* coroutine.unhook(): if the token is the next to be called, the cursor of
\* the trigger loop moves on first.  Finalizers that lua_close() runs after
\* an error unhook as well (lua/coroutine.c:37-41).
CallUnhook(c, token) ==
    /\ InClient \/ pc = "thrown"
    /\ c \in sch.all
    /\ token \in ToSet(hooks[c])
    /\ hookIt' = [hookIt EXCEPT ![c] = SkipErased(hooks[c], @, token)]
    /\ hooks' = [hooks EXCEPT ![c] = Erase(@, token)]
    /\ hookDue' = hookDue \ {token}
    /\ UNCHANGED <<sch, pc, cur, failing, over, blocking, passDue>>

\* _runtime_exit, from lua_close(): every coroutine is destroyed.
Release ==
    /\ pc \in {"returned", "thrown"}
    /\ IF \A c \in sch.all : hooks[c] = <<>>
       THEN /\ pc' = "closed"
            /\ sch' = [sch EXCEPT !.all = {}, !.busy = <<>>, !.wait = <<>>]
       ELSE /\ pc' = "aborted"
            /\ UNCHANGED sch
    /\ UNCHANGED <<cur, failing, hooks, hookIt, over, blocking, passDue, hookDue>>
-----------------------------------------------------------------------------
Scheduling ==
    \/ ReapDead \/ Resume \/ ResumeFinished
    \/ TriggerNext \/ TriggerEnd
    \/ EndPass

ClientReturn == Yield \/ Finish \/ Fail \/ HookReturn \/ CallbackReturn

ClientCall ==
    \E c \in Co :
        \/ CallHost(c)
        \/ \E st \in Status : CallSetState(c, st)
        \/ \E token \in Hook : CallHook(c, token) \/ CallUnhook(c, token)

Next == Scheduling \/ PollEvent \/ PollReturn \/ ClientReturn \/ ClientCall \/ Release

Spec == Init /\ [][Next]_vars

\* The scheduler's own code runs to its next hand-over, every client gives
\* control back, and uv_run returns once it may: one call of it serves the
\* events that are ready, a finite number, however many callbacks that takes.
Fairness ==
    /\ WF_vars(Scheduling)
    /\ WF_vars(ClientReturn)
    /\ SF_vars(PollReturn)

FairSpec == Spec /\ Fairness
-----------------------------------------------------------------------------
(***************************************************************************)
(* Properties.                                                             *)
(***************************************************************************)

\* The type invariant of the scheduler's state.
TypeOK ==
    /\ sch \in Schedules
    /\ pc \in PCs
    /\ cur \in Co \cup {NULL}
    /\ failing \in BOOLEAN
    /\ hooks \in [Co -> Seq(Hook)]
    /\ hookIt \in [Co -> Hook \cup {NULL}]
    /\ over \in SUBSET Co
    /\ blocking \in BOOLEAN
    /\ passDue \in SUBSET Co
    /\ hookDue \in SUBSET Hook

\* Every registered coroutine is linked exactly once, in the queue its status
\* selects, and nothing else is linked: _runtime_destroy_thread and set_state
\* pick the list to erase from by looking at the status alone, and erasing a
\* node from a list it is not in corrupts that list.
QueuesMatchStatus == QueuesMatch(sch)

\* The two cursors kept across calls into client code never dangle: busy_iter
\* points into the busy queue and hook.it into its hook queue, whatever the
\* client erased meanwhile; and no hook token outlives its coroutine.
CursorsLinked ==
    /\ pc # "closed" => sch.iter \in ToSet(sch.busy) \cup {NULL}
    /\ \A c \in Co : /\ hookIt[c] \in ToSet(hooks[c]) \cup {NULL}
                     /\ hooks[c] # <<>> => c \in sch.all

\* A pass serves every coroutine that was runnable when it began, except the
\* ones somebody suspended meanwhile: when the event loop runs none is left
\* over, although queues are edited under the cursor (api/coroutine.c:137).
NoBusySkipped == pc \in {"poll", "callback", "returned"} => passDue = {}

\* A trigger calls every hook that was registered when it began, except the
\* ones unregistered meanwhile, although callbacks unhook themselves and each
\* other under the cursor (api/coroutine.c:91-100).
NoHookSkipped == pc \notin {"trigger", "hook"} => hookDue = {}

\* Once a coroutine raised an error the scheduler only calls that coroutine's
\* hooks before the error leaves it (docs/coroutine.md:15).
ErrorIsFatal == failing => pc \in {"trigger", "hook", "thrown", "closed", "aborted"}

\* The scheduler implements what autodo.h promises of coroutines.
PhaseOf(c) ==
    IF c \notin sch.all THEN "none"
    ELSE IF IsDead(sch.status[c]) THEN "dead" ELSE sch.status[c]

Lifecycle == INSTANCE CoroutineLifecycle WITH
    phase <- [c \in Co |-> PhaseOf(c)], running <- cur, fatal <- failing

\* Refinement: every step of the scheduler is one the life cycle allows.
ImplementsLifecycle == Lifecycle!Spec

Served(c) == cur = c \/ c \notin sch.all \/ sch.status[c] # "busy" \/ Stopped

\* autodo.h:551-552: of a BUSY coroutine, "scheduler will process this coroutine
\* soon".  Coroutines that queue each other up behind the cursor keep a pass
\* going (runtime.c:124), and whoever was served in it before is not any more.
BusyServed == \A c \in Co : (c \in sch.all /\ sch.status[c] = "busy") ~> Served(c)

\* As long as passes keep ending, every runnable coroutine is served, and the
\* event loop is never left to block while there is one.
BusyServedIfPassesEnd == []<>(pc = "poll" \/ Stopped) => BusyServed

\* From some time on nobody registers a hook.
HooksSettle == <>[][\A c \in Co : ToSet(hooks'[c]) \subseteq ToSet(hooks[c])]_vars

\* An error reaches the caller of the scheduler, provided that hooks do not go
\* on to register hooks for ever: then the loop at runtime.c:112 would not end.
ErrorReachesCaller == HooksSettle => (failing ~> Stopped)
=============================================================================
