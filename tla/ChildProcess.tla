---------------------------- MODULE ChildProcess ----------------------------
(***************************************************************************)
(* auto.process (lua/process.c): a child process with pipes, and coroutines*)
(* that write to it, read its output and wait for its end, on top of the   *)
(* passes of the scheduler.                                                *)
(*                                                                         *)
(* The two output streams are handled by twin functions (..._stdout and    *)
(* ..._stderr); a stream is a parameter here.  A chunk of output is its    *)
(* number in the stream.  The child itself, and libuv between it and the   *)
(* callbacks, are the environment: data, end of file, the end of the child *)
(* and the report of it come in any order a pipe and a process allow.      *)
(*                                                                         *)
(* pc is "pass", "run", "poll", "returned", "thrown", "closed" and "ub" as *)
(* in LuaCoroutine, and                                                    *)
(*   "closing"  in the last uv_run of _runtime_exit                        *)
(* The hooks of coroutines are left to LuaCoroutine.                       *)
(***************************************************************************)
EXTENDS CoroutineApi, FiniteSets

CONSTANTS Main,         \* the coroutine main.c hosts for the script
          Calls,        \* the calls scripts make
          Configs,      \* the sets of output streams scripts enable
          MaxChunks,    \* bound: chunks the child writes to a stream
          MaxRecords,   \* bound: wait records in one queue
          MaxWrites     \* bound: uv_write requests under way

Streams == {"out", "err"}
Handles == {"process", "in"} \cup Streams

ASSUME MainAssumption == Main \in Co
ASSUME ConfigAssumption == Configs \subseteq SUBSET Streams
ASSUME BoundAssumption == {MaxChunks, MaxRecords, MaxWrites} \subseteq Nat

VARIABLES
    sch,        \* the schedule, see CoroutineApi
    pc,         \* where the scheduler is
    cur,        \* the coroutine being served
    over,       \* coroutines whose Lua thread has returned or failed
    at,         \* at[c]: the call c is in: a stream, "cin", "join" or "script"
    blocking,   \* uv_run was called with UV_RUN_ONCE and nothing happened yet
    proc,       \* the process object and its atd_process_t
    writes,     \* uv_write requests libuv holds, oldest first
    child       \* the environment: the child and its pipes

vars == <<sch, pc, cur, over, at, blocking, proc, writes, child>>

Nothing == [s \in Streams |-> <<>>]

\* have     flag.have_stdout, have_stderr     running  flag.process_running
\* error    flag.have_error                   cache    stdout_cache, stderr_cache
\* readers  stdout_wait_queue, ...            joiners  join_wait_queue
\* closing  handles uv_close was called for   closed   handles whose close flag is set
NoProcess == [life |-> "none", have |-> {}, running |-> FALSE, error |-> FALSE,
              cache |-> Nothing, readers |-> Nothing, joiners |-> <<>>,
              closing |-> {}, closed |-> {}, freed |-> FALSE]

\* reported: the exit callback was called; eof, sent: what the read callbacks
\* were told of each stream; got: what cout and cerr have returned.
NoChild == [alive |-> FALSE, reported |-> FALSE, eof |-> {},
            sent |-> [s \in Streams |-> 0], got |-> Nothing]

Stopped == pc \in {"returned", "thrown", "closing", "closed", "ub"}

Init ==
    /\ sch = StartIteration(Host(EmptySchedule, Main))
    /\ pc = "pass"
    /\ cur = NULL
    /\ over = {}
    /\ at = [c \in Co |-> "script"]
    /\ blocking = FALSE
    /\ proc = NoProcess
    /\ writes = <<>>
    /\ child = NoChild
-----------------------------------------------------------------------------
(***************************************************************************)
(* The pass (runtime.c), and the continuations it resumes.                 *)
(***************************************************************************)
ReapDead ==
    /\ pc = "pass" /\ sch.iter # NULL
    /\ IsDead(sch.status[sch.iter])
    /\ sch' = Destroy(Advance(sch), sch.iter)
    /\ UNCHANGED <<pc, cur, over, at, blocking, proc, writes, child>>

\* The pass serves c, which will continue in a given call.
Serve(c, call) ==
    /\ pc = "pass" /\ c = sch.iter
    /\ ~IsDead(sch.status[c])
    /\ c \notin over /\ at[c] = call

\* c is back in the script.
Continue(c) ==
    /\ sch' = Advance(sch)
    /\ at' = [at EXCEPT ![c] = "script"]
    /\ cur' = c
    /\ pc' = "run"

\* lua_resume on a thread that is over fails, and the error is fatal.
ResumeFinished ==
    /\ pc = "pass" /\ sch.iter # NULL
    /\ ~IsDead(sch.status[sch.iter]) /\ sch.iter \in over
    /\ sch' = SetState(Advance(sch), sch.iter, "error")
    /\ pc' = "thrown"
    /\ UNCHANGED <<cur, over, at, blocking, proc, writes, child>>

ResumeScript(c) ==
    /\ Serve(c, "script")
    /\ Continue(c)
    /\ UNCHANGED <<over, blocking, proc, writes, child>>

EndPass ==
    /\ pc = "pass" /\ sch.iter = NULL
    /\ IF sch.all = {}
       THEN pc' = "returned" /\ UNCHANGED blocking
       ELSE pc' = "poll" /\ blocking' = (sch.busy = <<>>)
    /\ UNCHANGED <<sch, cur, over, at, proc, writes, child>>

PollReturn ==
    /\ pc = "poll" /\ ~blocking
    /\ pc' = "pass"
    /\ sch' = StartIteration(sch)
    /\ UNCHANGED <<cur, over, at, blocking, proc, writes, child>>
-----------------------------------------------------------------------------
(***************************************************************************)
(* cout() and cerr().  A call links a record, then looks at the cache, and *)
(* so does every resumption.  The record of a call is the last of its      *)
(* coroutine: earlier ones were left behind.                               *)
(***************************************************************************)
Link(p, c, s) == [p EXCEPT !.readers[s] = Append(@, c)]

Unlink(p, c, s) ==
    [p EXCEPT !.readers[s] = RemoveAt(@, SelectLastInSeq(@, LAMBDA x : x = c))]

\* Mutant of TakeOutput: one chunk is returned, the cache is emptied.
TakeOneChunk(p, c, s) ==
    /\ p.cache[s] # <<>>
    /\ proc' = Unlink([p EXCEPT !.cache[s] = <<>>], c, s)
    /\ child' = [child EXCEPT !.got[s] = Append(@, Head(p.cache[s]))]

\* The whole cache is returned and the record unlinked.
TakeOutput(p, c, s) ==
    /\ p.cache[s] # <<>>
    /\ proc' = Unlink([p EXCEPT !.cache[s] = <<>>], c, s)
    /\ child' = [child EXCEPT !.got[s] = @ \o p.cache[s]]

\* Mutant of NoOutput: whoever is woken returns, even if another reader was
\* faster.
NoOutputWhenWoken(p, s) ==
    /\ p.cache[s] = <<>>
    /\ proc' = p
    /\ UNCHANGED child

\* Nothing is returned, and the record stays linked.
NoOutput(p, s) ==
    /\ p.cache[s] = <<>>
    /\ p.error \/ ~p.running
    /\ proc' = p
    /\ UNCHANGED child

MustWait(p, s) == p.cache[s] = <<>> /\ ~p.error /\ p.running

ResumeReader(c, s) ==
    /\ Serve(c, s)
    /\ Continue(c)
    /\ TakeOutput(proc, c, s) \/ NoOutput(proc, s)
    /\ UNCHANGED <<over, blocking, writes>>

ResumeReaderAgain(c, s) ==
    /\ Serve(c, s)
    /\ MustWait(proc, s)
    /\ sch' = SetState(Advance(sch), c, "wait")
    /\ UNCHANGED <<pc, cur, over, at, blocking, proc, writes, child>>

(***************************************************************************)
(* cin(): the coroutine yields without being set to WAIT, so that it is    *)
(* resumed in the next pass, and then frees its write record whether libuv *)
(* is through with it or not.                                              *)
(***************************************************************************)
ResumeWriter(c) ==
    /\ Serve(c, "cin")
    /\ Continue(c)
    /\ writes' = [i \in DOMAIN writes |->
                     IF writes[i].co = c THEN [writes[i] EXCEPT !.live = FALSE] ELSE writes[i]]
    /\ UNCHANGED <<over, blocking, proc, child>>

(***************************************************************************)
(* join() asks again in every pass.                                        *)
(***************************************************************************)
ResumeJoiner(c) ==
    /\ Serve(c, "join")
    /\ ~proc.running
    /\ Continue(c)
    /\ proc' = [proc EXCEPT !.joiners = Erase(@, c)]
    /\ UNCHANGED <<over, blocking, writes, child>>

ResumeJoinerAgain(c) ==
    /\ Serve(c, "join")
    /\ proc.running
    /\ sch' = Advance(sch)
    /\ UNCHANGED <<pc, cur, over, at, blocking, proc, writes, child>>
-----------------------------------------------------------------------------
(***************************************************************************)
(* What the running script does.                                           *)
(***************************************************************************)
Running(call) == pc = "run" /\ call \in Calls

\* The running coroutine gives control back from inside a call.
LeaveIn(call, s) ==
    /\ at' = [at EXCEPT ![cur] = call]
    /\ sch' = s
    /\ pc' = "pass"
    /\ cur' = NULL

Spawn(c) ==
    /\ Running("spawn")
    /\ c \notin sch.all \cup over
    /\ sch' = Host(sch, c)
    /\ UNCHANGED <<pc, cur, over, at, blocking, proc, writes, child>>

\* Mutant of Release: the pipe of stderr is not closed.
ReleaseForgetsStderr(p) == [p EXCEPT !.closing = Handles \ (p.closed \cup {"err"})]

\* _process_release of a process with these streams: a stream that was not
\* enabled counts as closed from the start.
Release(p) == [p EXCEPT !.closing = Handles \ p.closed]

\* auto.process{...}
Create(have) ==
    /\ Running("process")
    /\ proc.life = "none"
    /\ LET p == [NoProcess EXCEPT !.have = have, !.closed = Streams \ have] IN
        \/ /\ proc' = [p EXCEPT !.life = "live", !.running = TRUE]
           /\ child' = [child EXCEPT !.alive = TRUE]
        \/ /\ proc' = [Release(p) EXCEPT !.life = "failed"]
           /\ UNCHANGED child
    /\ UNCHANGED <<sch, pc, cur, over, at, blocking, writes>>

\* The object has the stream enabled; otherwise the call is an Error.
Readable(s) ==
    /\ Running("read")
    /\ proc.life = "live" /\ s \in proc.have
    /\ Len(proc.readers[s]) < MaxRecords

ReadNow(s) ==
    /\ Readable(s)
    /\ TakeOutput(Link(proc, cur, s), cur, s) \/ NoOutput(Link(proc, cur, s), s)
    /\ UNCHANGED <<sch, pc, cur, over, at, blocking, writes>>

ReadWaits(s) ==
    /\ Readable(s)
    /\ MustWait(proc, s)
    /\ proc' = Link(proc, cur, s)
    /\ LeaveIn(s, SetState(sch, cur, "wait"))
    /\ UNCHANGED <<over, blocking, writes, child>>

\* uv_write accepts the request; when it does not, cin() returns 0 and
\* nothing has changed.
Write ==
    /\ Running("cin")
    /\ proc.life = "live" /\ Len(writes) < MaxWrites
    /\ writes' = Append(writes, [co |-> cur, live |-> TRUE])
    /\ LeaveIn("cin", sch)
    /\ UNCHANGED <<over, blocking, proc, child>>

\* join() of a process that does not run returns at once and changes nothing.
JoinWaits ==
    /\ Running("join")
    /\ proc.life = "live" /\ proc.running
    /\ proc' = [proc EXCEPT !.joiners = Append(@, cur)]
    /\ LeaveIn("join", sch)
    /\ UNCHANGED <<over, blocking, writes, child>>

\* kill(): a signal is sent, which may or may not end the child.
Kill ==
    /\ Running("kill")
    /\ proc.life = "live" /\ proc.running
    /\ proc' = [proc EXCEPT !.running = FALSE]
    /\ UNCHANGED <<sch, pc, cur, over, at, blocking, writes, child>>

\* _lua_process_gc: the object, its queues and its caches are gone.
Finalize(p) ==
    [Release(p) EXCEPT !.life = "collected", !.running = FALSE, !.error = FALSE,
                       !.cache = Nothing, !.readers = Nothing, !.joiners = <<>>]

\* The object is on the stack of everybody inside one of its calls.
Collect ==
    /\ Running("collect")
    /\ proc.life = "live"
    /\ \A c \in sch.all : at[c] = "script"
    /\ proc' = Finalize(proc)
    /\ UNCHANGED <<sch, pc, cur, over, at, blocking, writes, child>>

Yield ==
    /\ Running("yield")
    /\ LeaveIn("script", sch)
    /\ UNCHANGED <<over, blocking, proc, writes, child>>

Return ==
    /\ Running("return")
    /\ over' = over \cup {cur}
    /\ LeaveIn("script", SetState(sch, cur, "dead"))
    /\ UNCHANGED <<blocking, proc, writes, child>>

Error ==
    /\ Running("error")
    /\ over' = over \cup {cur}
    /\ sch' = SetState(sch, cur, "error")
    /\ pc' = "thrown"
    /\ cur' = NULL
    /\ UNCHANGED <<at, blocking, proc, writes, child>>
-----------------------------------------------------------------------------
(***************************************************************************)
(* The event loop.                                                         *)
(***************************************************************************)
\* set_state(BUSY) for the coroutine of each record of q, in order.
Woken(s, q) ==
    LET after[i \in 0 .. Len(q)] ==
            IF i = 0 THEN s ELSE SetState(after[i - 1], q[i], "busy")
    IN  after[Len(q)]

\* _process_wakeup_..._queue, for the records of q: whoever has one becomes
\* runnable, if it still exists.
Wake(q) ==
    IF ToSet(q) \subseteq sch.all
    THEN sch' = Woken(sch, q) /\ pc' = pc
    ELSE pc' = "ub" /\ UNCHANGED sch

Polling == pc = "poll" /\ proc.life = "live"

OnData(s) ==
    /\ Polling
    /\ s \in proc.have \ child.eof /\ child.sent[s] < MaxChunks
    /\ child' = [child EXCEPT !.sent[s] = @ + 1]
    /\ proc' = [proc EXCEPT !.cache[s] = Append(@, child.sent[s] + 1)]
    /\ Wake(proc.readers[s])
    /\ blocking' = FALSE
    /\ UNCHANGED <<cur, over, at, writes>>

\* Mutant of OnEof: nread < 0 is not tested, and an end of file is cached as a
\* chunk that was never sent.
OnEofCached(s) ==
    /\ Polling
    /\ s \in proc.have \ child.eof
    /\ child' = [child EXCEPT !.eof = @ \cup {s}]
    /\ \/ /\ proc' = [proc EXCEPT !.cache[s] = Append(@, 0)]
          /\ Wake(proc.readers[s])
       \/ UNCHANGED <<proc, sch, pc>>
    /\ blocking' = FALSE
    /\ UNCHANGED <<cur, over, at, writes>>

\* End of file, or an error: with a buffer at hand the object is told.
OnEof(s) ==
    /\ Polling
    /\ s \in proc.have \ child.eof
    /\ child' = [child EXCEPT !.eof = @ \cup {s}]
    /\ \/ /\ proc' = [proc EXCEPT !.error = TRUE]
          /\ Wake(proc.readers[s])
       \/ UNCHANGED <<proc, sch, pc>>
    /\ blocking' = FALSE
    /\ UNCHANGED <<cur, over, at, writes>>

ChildExits ==
    /\ pc = "poll" /\ child.alive
    /\ child' = [child EXCEPT !.alive = FALSE]
    /\ UNCHANGED <<sch, pc, cur, over, at, blocking, proc, writes>>

\* Mutant of OnExit: the readers of stderr are not woken.
OnExitForgetsStderr ==
    /\ Polling
    /\ ~child.alive /\ ~child.reported
    /\ child' = [child EXCEPT !.reported = TRUE]
    /\ proc' = [proc EXCEPT !.running = FALSE]
    /\ Wake(proc.readers["out"] \o proc.joiners)
    /\ blocking' = FALSE
    /\ UNCHANGED <<cur, over, at, writes>>

OnExit ==
    /\ Polling
    /\ ~child.alive /\ ~child.reported
    /\ child' = [child EXCEPT !.reported = TRUE]
    /\ proc' = [proc EXCEPT !.running = FALSE]
    /\ Wake(proc.readers["out"] \o proc.readers["err"] \o proc.joiners)
    /\ blocking' = FALSE
    /\ UNCHANGED <<cur, over, at, writes>>

\* _process_on_write_done: the request was carried out, has failed, or was
\* cancelled because the pipe is closed.
OnWriteDone ==
    /\ pc \in {"poll", "closing"} /\ writes # <<>>
    /\ writes' = Tail(writes)
    /\ IF Head(writes).live
       THEN Wake(<<Head(writes).co>>)
       ELSE pc' = "ub" /\ UNCHANGED sch
    /\ blocking' = FALSE
    /\ UNCHANGED <<cur, over, at, proc, child>>

\* Mutant of OnClose: the output pipes are not waited for.
OnCloseEarly(h) ==
    /\ pc \in {"poll", "closing"} /\ h \in proc.closing
    /\ h = "in" => writes = <<>>
    /\ proc' = [proc EXCEPT !.closing = @ \ {h},
                            !.closed = @ \cup {h},
                            !.freed = {"process", "in"} \subseteq proc.closed \cup {h}]
    /\ blocking' = FALSE
    /\ UNCHANGED <<sch, pc, cur, over, at, writes, child>>

\* The close callbacks, and _process_on_close after each of them.
OnClose(h) ==
    /\ pc \in {"poll", "closing"} /\ h \in proc.closing
    /\ h = "in" => writes = <<>>
    /\ proc' = [proc EXCEPT !.closing = @ \ {h},
                            !.closed = @ \cup {h},
                            !.freed = proc.closed \cup {h} = Handles]
    /\ blocking' = FALSE
    /\ UNCHANGED <<sch, pc, cur, over, at, writes, child>>

\* lua_close: the finalizer of the object, then _runtime_exit destroys the
\* coroutines and lets the event loop close what is left.
Shutdown ==
    /\ pc \in {"returned", "thrown"}
    /\ pc' = "closing"
    /\ proc' = IF proc.life = "live" THEN Finalize(proc) ELSE proc
    /\ sch' = [sch EXCEPT !.all = {}, !.busy = <<>>, !.wait = <<>>]
    /\ UNCHANGED <<cur, over, at, blocking, writes, child>>

Closed ==
    /\ pc = "closing" /\ proc.closing = {}
    /\ pc' = "closed"
    /\ UNCHANGED <<sch, cur, over, at, blocking, proc, writes, child>>
-----------------------------------------------------------------------------
Scheduling ==
    \/ ReapDead \/ ResumeFinished \/ EndPass
    \/ \E c \in Co :
        \/ ResumeScript(c) \/ ResumeWriter(c) \/ ResumeJoiner(c) \/ ResumeJoinerAgain(c)
        \/ \E s \in Streams : ResumeReader(c, s) \/ ResumeReaderAgain(c, s)

\* The calls that end the script's turn, and those that do not.
LeaveRun ==
    \/ Write \/ JoinWaits \/ Yield \/ Return \/ Error
    \/ \E s \in Streams : ReadWaits(s)

StayInRun ==
    \/ Kill \/ Collect
    \/ \E c \in Co : Spawn(c)
    \/ \E have \in Configs : Create(have)
    \/ \E s \in Streams : ReadNow(s)

Events ==
    \/ OnExit \/ OnWriteDone \/ ChildExits
    \/ \E s \in Streams : OnData(s) \/ OnEof(s)
    \/ \E h \in Handles : OnClose(h)

Next == Scheduling \/ LeaveRun \/ StayInRun \/ Events \/ PollReturn \/ Shutdown \/ Closed

Spec == Init /\ [][Next]_vars

\* Scripts are cooperative; libuv reports the end of a child that has ended,
\* completes what it was asked to close, and returns from uv_run.  Nothing is
\* assumed of the child.
Fairness ==
    /\ WF_vars(Scheduling)
    /\ WF_vars(LeaveRun)
    /\ SF_vars(PollReturn)
    /\ SF_vars(OnExit)
    /\ SF_vars(OnWriteDone)
    /\ \A h \in Handles : SF_vars(OnClose(h))
    /\ WF_vars(Shutdown \/ Closed)

FairSpec == Spec /\ Fairness
-----------------------------------------------------------------------------
(***************************************************************************)
(* Properties.                                                             *)
(***************************************************************************)

\* The type invariant of the process object and what surrounds it.
TypeOK ==
    /\ sch \in Schedules
    /\ pc \in {"pass", "run", "poll", "returned", "thrown", "closing", "closed", "ub"}
    /\ cur \in Co \cup {NULL}
    /\ over \in SUBSET Co
    /\ at \in [Co -> Streams \cup {"script", "cin", "join"}]
    /\ blocking \in BOOLEAN
    /\ proc \in [life : {"none", "live", "failed", "collected"}, have : SUBSET Streams,
                 running : BOOLEAN, error : BOOLEAN,
                 cache : [Streams -> Seq(1 .. MaxChunks)],
                 readers : [Streams -> Seq(Co)], joiners : Seq(Co),
                 closing : SUBSET Handles, closed : SUBSET Handles, freed : BOOLEAN]
    /\ writes \in Seq([co : Co, live : BOOLEAN])
    /\ child \in [alive : BOOLEAN, reported : BOOLEAN, eof : SUBSET Streams,
                  sent : [Streams -> 0 .. MaxChunks],
                  got : [Streams -> Seq(1 .. MaxChunks)]]

\* Every chunk that was read from a pipe is returned to a script once, in
\* order, or still cached, however many coroutines read the stream.
OutputInOrder ==
    proc.life = "live" => \A s \in Streams :
        child.got[s] \o proc.cache[s] = [i \in 1 .. child.sent[s] |-> i]

\* A coroutine that waits for output has a record that will wake it, there is
\* nothing to return to it, and the exit of the child, which wakes everybody,
\* is still to be reported (lua/process.c:445-454, 616-619).
NoLostReader ==
    \A c \in sch.all, s \in Streams :
        (at[c] = s /\ sch.status[c] = "wait" /\ pc # "ub") =>
            /\ proc.life = "live" /\ ~child.reported
            /\ c \in ToSet(proc.readers[s])
            /\ proc.cache[s] = <<>>

\* The atd_process_t is freed when the last of its four close callbacks has
\* come, and not before: each of them, and the callback of every write under
\* way, still reaches it (lua/process.c:316-325).
NoCallbackAfterFree == proc.freed => proc.closing = {} /\ writes = <<>>

\* A read of stream s, resumed or called, returns nothing.
ReturnsNothing(s) ==
    \/ \E c \in Co : at[c] = s /\ at'[c] = "script" /\ child'.got[s] = child.got[s]
    \/ pc' = "run" /\ Len(proc'.readers[s]) > Len(proc.readers[s])

\* docs/process.md:53: "If nothing returned, either process exited or stdout
\* is not opened."
NothingMeansEnd ==
    [][\A s \in Streams : ReturnsNothing(s) => s \in child.eof \/ ~child.alive]_vars

\* What holds instead, for however many readers are woken by one chunk: nothing
\* is returned only when nothing is there, and an end of either stream, the exit
\* or kill() came before (lua/process.c:445-450).
NothingOnlyAtEnd ==
    [][\A s \in Streams : ReturnsNothing(s) =>
          /\ proc.cache[s] = <<>>
          /\ child.eof # {} \/ ~proc.running]_vars

\* docs/process.md:43: "Return the number of bytes written."  When cin()
\* returns, its data has been written, or could not be.
WrittenWhenReturned ==
    [][\A c \in Co : (at[c] = "cin" /\ at'[c] = "script") =>
          \A i \in DOMAIN writes : ~(writes[i].co = c /\ writes[i].live)]_vars

\* autodo.h:579-581: a coroutine is not used after the scheduler has destroyed
\* it; nor is a write record that was freed.
NoUseAfterDestroy == pc # "ub"

\* cout(), cerr() and join() return once the child is gone.
CallsReturn ==
    \A c \in Co : (at[c] \in Streams \cup {"join"} /\ ~child.alive) ~>
                      (at[c] \notin Streams \cup {"join"} \/ Stopped)

\* What a process object held is freed after the object is gone.
HandlesAreFreed == (proc.life \in {"failed", "collected"}) ~> (proc.freed \/ pc = "ub")
=============================================================================
