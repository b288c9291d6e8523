-------------------------- MODULE SchedulerProofs ---------------------------
(***************************************************************************)
(* Proofs about Scheduler for every set of coroutines and hook tokens.     *)
(*                                                                         *)
(* None of the properties is inductive by itself: that a pass or a trigger *)
(* skips nobody follows from what its cursor has ahead of it, which every  *)
(* call of the API that edits a queue has to maintain.  IInv says so.      *)
(***************************************************************************)
EXTENDS Scheduler, CoroutineApiProofs

Triggering == pc \in {"trigger", "hook"}

\* The queues are sound, and whoever is due is ahead of busy_iter.
QueueInv ==
    /\ QueuesMatch(sch)
    /\ pc # "closed" => Sound(sch) /\ passDue \subseteq StillAhead(sch)
    /\ pc \in {"poll", "callback", "returned"} => passDue = {}
    /\ pc = "returned" => sch.all = {}

\* The hook queues are sound, and whichever hook is due is ahead of hook.it;
\* only the coroutine whose hooks are being called has such a cursor.
HookInv ==
    /\ \A c \in Co :
        /\ IsInjective(hooks[c])
        /\ hookIt[c] \in ToSet(hooks[c]) \cup {NULL}
        /\ hooks[c] # <<>> => c \in sch.all
        /\ hookIt[c] # NULL => c = cur /\ Triggering
    /\ Triggering => hookDue \subseteq Ahead(hooks[cur], hookIt[cur])
    /\ ~Triggering => hookDue = {}

\* A coroutine is being served exactly while it or its hooks have control.
ControlInv ==
    /\ cur # NULL <=> pc \in {"run", "trigger", "hook"}
    /\ cur # NULL => cur \in sch.all
    /\ failing => pc \in {"trigger", "hook", "thrown", "closed", "aborted"}
    /\ pc = "thrown" => failing

IInv == TypeOK /\ QueueInv /\ HookInv /\ ControlInv

\* The first pass begins with the script's coroutine alone in the busy queue.
LEMMA InitIInv == Init => IInv
<1> SUFFICES ASSUME Init PROVE IInv
  OBVIOUS
<1> DEFINE s == Host(EmptySchedule, Main)
<1>1. Sound(EmptySchedule) /\ Main \notin EmptySchedule.all
  <2>1. EmptySchedule \in Schedules
    BY DEF EmptySchedule, Schedules, Status
  <2>2. QueuesMatch(EmptySchedule)
    BY DEF EmptySchedule, QueuesMatch, IsInjective, ToSet
  <2> QED BY <2>1, <2>2 DEF Sound, EmptySchedule
<1>2. /\ Sound(s) /\ s.all = {Main} /\ s.status[Main] = "busy"
  <2>1. EmptySchedule.all = {} /\ EmptySchedule.status \in [Co -> Status]
    BY DEF EmptySchedule, Status
  <2>2. /\ Sound(s) /\ s.all = EmptySchedule.all \cup {Main}
        /\ s.status = [EmptySchedule.status EXCEPT ![Main] = "busy"]
    BY <1>1, HostSound, MainAssumption
  <2> HIDE DEF s
  <2> QED BY <2>1, <2>2, MainAssumption
<1>3. ToSet(s.busy) = {Main}
  BY <1>2 DEF Sound, QueuesMatch, Waits
<1> HIDE DEF s
<1>4. sch = StartIteration(s)
  BY DEF Init, s
<1>5. Sound(sch) /\ StillAhead(sch) = {Main}
  BY <1>2, <1>3, <1>4, StartIterationSound
<1>6. TypeOK
  <2>1. sch \in Schedules
    BY <1>5 DEF Sound
  <2>2. /\ hooks \in [Co -> Seq(Hook)]
        /\ hookIt \in [Co -> Hook \cup {NULL}]
        /\ pc \in PCs
    BY DEF Init, PCs
  <2> QED BY <2>1, <2>2, MainAssumption DEF Init, TypeOK
<1>7. QueueInv
  BY <1>5 DEF Init, QueueInv, Sound
<1>8. HookInv
  BY DEF Init, HookInv, Triggering, IsInjective, ToSet
<1>9. ControlInv
  BY DEF Init, ControlInv
<1> QED BY <1>6, <1>7, <1>8, <1>9 DEF IInv

\* Steps that call no client and edit no hook queue leave the hooks alone.
LEMMA HooksUntouched ==
    ASSUME HookInv, UNCHANGED <<hooks, hookIt, hookDue>>,
           ~Triggering, ~Triggering',
           \A c \in Co : hooks[c] # <<>> /\ c \in sch.all => c \in sch'.all
    PROVE  HookInv'
  BY DEF HookInv

\* Starting to trigger the hooks of the coroutine that was just served.
LEMMA StartTriggerHooks ==
    ASSUME TypeOK, HookInv, ~Triggering, NEW c \in Co,
           StartTrigger(c), UNCHANGED hooks, cur' = c, sch'.all = sch.all
    PROVE  /\ HookInv'
           /\ hookIt' \in [Co -> Hook \cup {NULL}]
           /\ hookDue' \in SUBSET Hook
<1>1. hooks[c] \in Seq(Hook) /\ NULL \notin Hook
  BY HookAssumption DEF TypeOK
<1>2. /\ First(hooks[c]) \in ToSet(hooks[c]) \cup {NULL}
      /\ Ahead(hooks[c], First(hooks[c])) = ToSet(hooks[c])
      /\ ToSet(hooks[c]) \subseteq Hook
  BY <1>1, AheadOfFirst, AheadBounds
<1>3. /\ pc' = "trigger" /\ hooks' = hooks
      /\ hookDue' = ToSet(hooks[c])
      /\ hookIt' = [hookIt EXCEPT ![c] = First(hooks[c])]
      /\ hookIt \in [Co -> Hook \cup {NULL}]
  BY DEF StartTrigger, TypeOK
<1>4. hookIt'[c] = First(hooks[c]) /\ \A d \in Co : d # c => hookIt'[d] = hookIt[d]
  BY <1>3
<1>5. HookInv'
  BY <1>2, <1>3, <1>4 DEF HookInv, Triggering
<1> QED BY <1>2, <1>3, <1>5

\* The coroutine under the cursor is registered, and the cursor can move on.
LEMMA ServeNext ==
    ASSUME IInv, pc = "pass", sch.iter # NULL
    PROVE  /\ sch.iter \in sch.all /\ sch.iter \in Co
           /\ Sound(sch) /\ Sound(Advance(sch))
           /\ Advance(sch).iter # sch.iter
           /\ Advance(sch).all = sch.all
           /\ Advance(sch).status = sch.status
           /\ passDue \ {sch.iter} \subseteq StillAhead(Advance(sch))
           /\ cur = NULL /\ ~failing /\ ~Triggering
<1>1. Sound(sch) /\ passDue \subseteq StillAhead(sch)
  BY DEF IInv, QueueInv
<1>2. /\ Sound(Advance(sch))
      /\ StillAhead(sch) \ {sch.iter} \subseteq StillAhead(Advance(sch))
      /\ Advance(sch).iter # sch.iter
      /\ Advance(sch).all = sch.all
      /\ Advance(sch).status = sch.status
  BY <1>1, AdvanceSound
<1>3. sch.iter \in sch.all /\ sch.iter \in Co
  BY <1>1 DEF Sound, QueuesMatch, Schedules
<1>4. cur = NULL /\ ~failing /\ ~Triggering
  BY DEF IInv, ControlInv, Triggering
<1> QED BY <1>1, <1>2, <1>3, <1>4

\* Destroying a dead coroutine, after the cursor has moved past it.
LEMMA ReapDeadStep == ASSUME IInv, ReapDead PROVE IInv'
<1> DEFINE thr == sch.iter
           A == Advance(sch)
<1>1. /\ pc = "pass" /\ sch.iter # NULL
      /\ UNCHANGED <<cur, failing, hooks, hookIt, over, blocking, hookDue>>
  BY DEF ReapDead
<1>2. /\ thr \in sch.all /\ thr \in Co /\ Sound(sch) /\ Sound(A)
      /\ A.iter # thr /\ A.all = sch.all
      /\ passDue \ {thr} \subseteq StillAhead(A)
      /\ cur = NULL /\ ~failing /\ ~Triggering
  BY <1>1, ServeNext
<1>3. CASE hooks[thr] = <<>>
  <2>1. sch' = Destroy(A, thr) /\ passDue' = passDue \ {thr} /\ pc' = pc
    BY <1>3 DEF ReapDead
  <2> HIDE DEF A, thr
  <2>2. /\ Sound(Destroy(A, thr))
        /\ StillAhead(A) \ {thr} \subseteq StillAhead(Destroy(A, thr))
        /\ Destroy(A, thr).all = A.all \ {thr}
    BY <1>2, DestroySound
  <2>3. Sound(sch') /\ sch' \in Schedules /\ QueuesMatch(sch')
    BY <2>1, <2>2 DEF Sound
  <2>4. TypeOK'
    BY <1>1, <2>1, <2>3 DEF IInv, TypeOK
  <2>5. QueueInv'
    BY <1>1, <1>2, <2>1, <2>2, <2>3 DEF QueueInv, StillAhead
  <2>6. HookInv'
    BY <1>1, <1>2, <1>3, <2>1, <2>2, HooksUntouched DEF IInv, Triggering
  <2>7. ControlInv'
    BY <1>1, <1>2, <2>1 DEF IInv, ControlInv
  <2> QED BY <2>4, <2>5, <2>6, <2>7 DEF IInv
<1>4. CASE hooks[thr] # <<>>
  <2>1. pc' = "aborted" /\ UNCHANGED <<sch, passDue>>
    BY <1>4 DEF ReapDead
  <2>2. TypeOK'
    BY <1>1, <2>1 DEF IInv, TypeOK, PCs
  <2>3. QueueInv'
    BY <1>1, <2>1 DEF IInv, QueueInv, StillAhead
  <2>4. HookInv'
    BY <1>1, <1>2, <2>1, HooksUntouched DEF IInv, Triggering
  <2>5. ControlInv'
    BY <1>1, <1>2, <2>1 DEF IInv, ControlInv
  <2> QED BY <2>2, <2>3, <2>4, <2>5 DEF IInv
<1> QED BY <1>3, <1>4

\* Resuming a coroutine takes it off the list of those still due.
LEMMA ResumeStep == ASSUME IInv, Resume PROVE IInv'
<1>1. /\ pc = "pass" /\ sch.iter # NULL /\ pc' = "run"
      /\ cur' = sch.iter /\ passDue' = passDue \ {sch.iter}
      /\ sch' = Advance(sch)
      /\ UNCHANGED <<failing, hooks, hookIt, over, blocking, hookDue>>
  BY DEF Resume
<1>2. /\ sch.iter \in sch.all /\ sch.iter \in Co
      /\ Sound(sch') /\ sch'.all = sch.all
      /\ passDue' \subseteq StillAhead(sch')
      /\ ~failing /\ ~Triggering
  BY <1>1, ServeNext
<1>3. sch' \in Schedules /\ QueuesMatch(sch')
  BY <1>2 DEF Sound
<1>4. TypeOK'
  BY <1>1, <1>2, <1>3 DEF IInv, TypeOK, PCs
<1>5. QueueInv'
  BY <1>1, <1>2, <1>3 DEF QueueInv, StillAhead
<1>6. HookInv'
  BY <1>1, <1>2, HooksUntouched DEF IInv, Triggering
<1>7. ControlInv'
  BY <1>1, <1>2, NullAssumption DEF IInv, ControlInv
<1> QED BY <1>4, <1>5, <1>6, <1>7 DEF IInv

\* A resume that fails at once: the cursor moves on, then the status changes,
\* then the hooks start.
LEMMA ResumeFinishedStep == ASSUME IInv, ResumeFinished PROVE IInv'
<1> DEFINE thr == sch.iter
           A == Advance(sch)
<1>1. /\ pc = "pass" /\ sch.iter # NULL
      /\ cur' = thr /\ passDue' = passDue \ {thr}
      /\ sch' = SetState(A, thr, "error")
      /\ StartTrigger(thr) /\ failing' = TRUE
      /\ UNCHANGED <<hooks, over, blocking>>
  BY DEF ResumeFinished
<1>2. /\ thr \in sch.all /\ thr \in Co /\ Sound(A) /\ A.all = sch.all
      /\ passDue \ {thr} \subseteq StillAhead(A)
      /\ ~Triggering
  BY <1>1, ServeNext
<1> HIDE DEF A, thr
<1>3. /\ Sound(sch') /\ sch'.all = sch.all
      /\ StillAhead(A) \ {d \in {thr} : Waits("error")} \subseteq StillAhead(sch')
  <2>1. thr \in A.all /\ "error" \in Status
    BY <1>2 DEF Status
  <2>2. /\ Sound(SetState(A, thr, "error"))
        /\ StillAhead(A) \ {d \in {thr} : Waits("error")}
              \subseteq StillAhead(SetState(A, thr, "error"))
        /\ SetState(A, thr, "error").all = A.all
    BY <1>2, <2>1, SetStateSound
  <2> QED BY <1>1, <1>2, <2>2
<1>4. /\ sch' \in Schedules /\ QueuesMatch(sch')
      /\ passDue' \subseteq StillAhead(sch')
  BY <1>1, <1>2, <1>3 DEF Sound, Waits
<1>5. HookInv' /\ hookIt' \in [Co -> Hook \cup {NULL}] /\ hookDue' \in SUBSET Hook
  BY <1>1, <1>2, <1>3, StartTriggerHooks DEF IInv
<1>6. pc' = "trigger"
  BY <1>1 DEF StartTrigger
<1>7. TypeOK'
  BY <1>1, <1>2, <1>4, <1>5, <1>6 DEF IInv, TypeOK, PCs
<1>8. QueueInv'
  BY <1>3, <1>4, <1>6 DEF QueueInv, StillAhead
<1>9. ControlInv'
  BY <1>1, <1>2, <1>3, <1>6, NullAssumption DEF ControlInv
<1> QED BY <1>5, <1>7, <1>8, <1>9 DEF IInv

\* The three ways control comes back from lua_resume.
LEMMA LeaveRun ==
    ASSUME IInv, pc = "run", StartTrigger(cur), cur' = cur,
           UNCHANGED <<hooks, blocking, passDue>>,
           over' \in SUBSET Co, failing' \in BOOLEAN,
           sch' = sch \/ (\E st \in Status \ {"wait"} : sch' = SetState(sch, cur, st))
    PROVE  IInv'
<1>1. cur \in sch.all /\ cur \in Co /\ ~Triggering /\ ~failing
  BY NullAssumption DEF IInv, TypeOK, ControlInv, Triggering
<1>2. Sound(sch) /\ passDue \subseteq StillAhead(sch)
  BY DEF IInv, QueueInv
<1>3. Sound(sch') /\ sch'.all = sch.all /\ passDue \subseteq StillAhead(sch')
  <2>1. CASE sch' = sch
    BY <1>2, <2>1
  <2>2. ASSUME NEW st \in Status \ {"wait"}, sch' = SetState(sch, cur, st)
        PROVE  Sound(sch') /\ sch'.all = sch.all /\ passDue \subseteq StillAhead(sch')
    <3>1. /\ Sound(SetState(sch, cur, st)) /\ SetState(sch, cur, st).all = sch.all
          /\ StillAhead(sch) \ {d \in {cur} : Waits(st)}
                \subseteq StillAhead(SetState(sch, cur, st))
      BY <1>1, <1>2, SetStateSound
    <3>2. /\ Sound(sch') /\ sch'.all = sch.all
          /\ StillAhead(sch) \ {d \in {cur} : Waits(st)} \subseteq StillAhead(sch')
      BY <2>2, <3>1
    <3> QED BY <1>2, <3>2 DEF Waits
  <2> QED BY <2>1, <2>2
<1>4. sch' \in Schedules /\ QueuesMatch(sch')
  BY <1>3 DEF Sound
<1>5. HookInv' /\ hookIt' \in [Co -> Hook \cup {NULL}] /\ hookDue' \in SUBSET Hook
  BY <1>1, <1>3, StartTriggerHooks DEF IInv
<1>6. pc' = "trigger"
  BY DEF StartTrigger
<1>7. TypeOK'
  BY <1>4, <1>5, <1>6 DEF IInv, TypeOK, PCs
<1>8. QueueInv'
  BY <1>3, <1>4, <1>6 DEF QueueInv, StillAhead
<1>9. ControlInv'
  BY <1>1, <1>3, <1>6, NullAssumption DEF ControlInv
<1> QED BY <1>5, <1>7, <1>8, <1>9 DEF IInv

\* A yield leaves the schedule alone.
LEMMA YieldStep == ASSUME IInv, Yield PROVE IInv'
<1>1. over \in SUBSET Co /\ failing \in BOOLEAN
  BY DEF IInv, TypeOK
<1> QED BY <1>1, LeaveRun DEF Yield

\* A coroutine that returns becomes dead.
LEMMA FinishStep == ASSUME IInv, Finish PROVE IInv'
<1>1. over' \in SUBSET Co /\ failing \in BOOLEAN
  BY NullAssumption DEF IInv, TypeOK, ControlInv, Finish
<1>2. sch' = SetState(sch, cur, "dead") /\ "dead" \in Status \ {"wait"}
  BY DEF Finish, Status
<1> QED BY <1>1, <1>2, LeaveRun DEF Finish

\* A coroutine that raises an error becomes dead and makes the error fatal.
LEMMA FailStep == ASSUME IInv, Fail PROVE IInv'
<1>1. over' \in SUBSET Co
  BY NullAssumption DEF IInv, TypeOK, ControlInv, Fail
<1>2. sch' = SetState(sch, cur, "error") /\ "error" \in Status \ {"wait"}
  BY DEF Fail, Status
<1> QED BY <1>1, <1>2, LeaveRun DEF Fail

\* The hook about to be called is the only one the cursor leaves behind.
LEMMA TriggerNextStep == ASSUME IInv, TriggerNext PROVE IInv'
<1> DEFINE q == hooks[cur]
           token == hookIt[cur]
<1>1. /\ pc = "trigger" /\ token # NULL /\ pc' = "hook"
      /\ hookIt' = [hookIt EXCEPT ![cur] = Successor(q, token)]
      /\ hookDue' = hookDue \ {token}
      /\ UNCHANGED <<sch, cur, failing, hooks, over, blocking, passDue>>
  BY DEF TriggerNext
<1>2. cur \in Co /\ Triggering
  BY <1>1, NullAssumption DEF IInv, TypeOK, ControlInv, Triggering
<1>3. /\ q \in Seq(Hook) /\ IsInjective(q) /\ NULL \notin Hook /\ token \in ToSet(q)
      /\ hookDue \subseteq Ahead(q, token)
      /\ hookIt \in [Co -> Hook \cup {NULL}] /\ hookDue \in SUBSET Hook
  BY <1>1, <1>2, HookAssumption DEF IInv, TypeOK, HookInv
<1>4. \A c \in Co : c # cur => hookIt[c] = NULL
  BY DEF IInv, HookInv
<1> HIDE DEF q, token
<1>5. /\ Successor(q, token) \in ToSet(q) \cup {NULL}
      /\ Ahead(q, Successor(q, token)) = Ahead(q, token) \ {token}
      /\ ToSet(q) \subseteq Hook
  BY <1>3, AheadOfSuccessor, AheadBounds
<1>6. hookIt'[cur] = Successor(q, token) /\ \A c \in Co : c # cur => hookIt'[c] = hookIt[c]
  BY <1>1, <1>2, <1>3
<1>7. HookInv'
  <2>1. Triggering' /\ hookDue' \subseteq Ahead(q, hookIt'[cur])
    BY <1>1, <1>3, <1>5, <1>6 DEF Triggering
  <2>2. \A c \in Co : hookIt'[c] \in ToSet(hooks[c]) \cup {NULL}
    BY <1>4, <1>5, <1>6 DEF q
  <2>3. \A c \in Co : hookIt'[c] # NULL => c = cur
    BY <1>4, <1>6
  <2>4. \A c \in Co : IsInjective(hooks[c]) /\ (hooks[c] # <<>> => c \in sch.all)
    BY DEF IInv, HookInv
  <2> QED BY <1>1, <2>1, <2>2, <2>3, <2>4 DEF HookInv, q
<1>8. TypeOK'
  <2>1. hookIt' \in [Co -> Hook \cup {NULL}]
    BY <1>1, <1>3, <1>5
  <2> QED BY <1>1, <1>3, <2>1 DEF IInv, TypeOK, PCs
<1>9. QueueInv'
  BY <1>1 DEF IInv, QueueInv, StillAhead
<1>10. ControlInv'
  BY <1>1 DEF IInv, ControlInv
<1> QED BY <1>7, <1>8, <1>9, <1>10 DEF IInv

\* When the cursor of a trigger is NULL no hook is due any more.
LEMMA TriggerEndStep == ASSUME IInv, TriggerEnd PROVE IInv'
<1>1. /\ pc = "trigger" /\ hookIt[cur] = NULL
      /\ pc' = (IF failing THEN "thrown" ELSE "pass") /\ cur' = NULL
      /\ UNCHANGED <<sch, failing, hooks, hookIt, over, blocking, passDue, hookDue>>
  BY DEF TriggerEnd
<1>2. cur \in Co /\ Triggering /\ ~Triggering'
  BY <1>1, NullAssumption DEF IInv, TypeOK, ControlInv, Triggering
<1>3. Ahead(hooks[cur], NULL) = {}
  <2>1. hooks[cur] \in Seq(Hook) /\ NULL \notin Hook
    BY <1>2, HookAssumption DEF IInv, TypeOK
  <2> QED BY <2>1, AheadBounds
<1>4. HookInv'
  BY <1>1, <1>2, <1>3 DEF IInv, HookInv
<1>5. TypeOK'
  BY <1>1 DEF IInv, TypeOK, PCs
<1>6. QueueInv'
  BY <1>1 DEF IInv, QueueInv, StillAhead
<1>7. ControlInv'
  BY <1>1 DEF IInv, ControlInv
<1> QED BY <1>4, <1>5, <1>6, <1>7 DEF IInv

\* A hook that returns leaves its trigger where it was.
LEMMA HookReturnStep == ASSUME IInv, HookReturn PROVE IInv'
<1>1. TypeOK'
  BY DEF HookReturn, IInv, TypeOK, PCs
<1>2. QueueInv'
  BY DEF HookReturn, IInv, QueueInv, StillAhead
<1>3. HookInv'
  BY DEF HookReturn, IInv, HookInv, Triggering
<1>4. ControlInv'
  BY DEF HookReturn, IInv, ControlInv
<1> QED BY <1>1, <1>2, <1>3, <1>4 DEF IInv

\* When the cursor of a pass is NULL no coroutine is due any more.
LEMMA EndPassStep == ASSUME IInv, EndPass PROVE IInv'
<1>1. /\ pc = "pass" /\ sch.iter = NULL
      /\ \/ sch.all = {} /\ pc' = "returned" /\ blocking' = blocking
         \/ pc' = "poll" /\ blocking' = (sch.busy = <<>>)
      /\ UNCHANGED <<sch, cur, failing, hooks, hookIt, over, passDue, hookDue>>
  BY DEF EndPass
<1>2. passDue = {}
  <2>1. passDue \subseteq Ahead(sch.busy, NULL) /\ sch.busy \in Seq(Co)
    BY <1>1 DEF IInv, QueueInv, Sound, Schedules, StillAhead
  <2> QED BY <2>1, NullAssumption, AheadBounds
<1>3. TypeOK'
  BY <1>1 DEF IInv, TypeOK, PCs
<1>4. QueueInv'
  BY <1>1, <1>2 DEF IInv, QueueInv, StillAhead
<1>5. HookInv'
  BY <1>1, HooksUntouched DEF IInv, Triggering
<1>6. ControlInv'
  BY <1>1 DEF IInv, ControlInv
<1> QED BY <1>3, <1>4, <1>5, <1>6 DEF IInv

\* Entering and leaving an event callback.
LEMMA CallbackSteps == ASSUME IInv, PollEvent \/ CallbackReturn PROVE IInv'
<1>1. /\ pc \in {"poll", "callback"} /\ pc' \in {"poll", "callback"}
      /\ blocking' \in {FALSE, blocking}
      /\ UNCHANGED <<sch, cur, failing, hooks, hookIt, over, passDue, hookDue>>
  BY DEF PollEvent, CallbackReturn
<1>2. TypeOK'
  BY <1>1 DEF IInv, TypeOK, PCs
<1>3. QueueInv'
  BY <1>1 DEF IInv, QueueInv, StillAhead
<1>4. HookInv'
  BY <1>1, HooksUntouched DEF IInv, Triggering
<1>5. ControlInv'
  BY <1>1 DEF IInv, ControlInv
<1> QED BY <1>2, <1>3, <1>4, <1>5 DEF IInv

\* A new pass has everybody who is due ahead of its cursor.
LEMMA PollReturnStep == ASSUME IInv, PollReturn PROVE IInv'
<1>1. /\ pc = "poll" /\ pc' = "pass" /\ sch' = StartIteration(sch)
      /\ passDue' = ToSet(sch.busy)
      /\ UNCHANGED <<cur, failing, hooks, hookIt, over, blocking, hookDue>>
  BY DEF PollReturn
<1>2. Sound(sch)
  BY <1>1 DEF IInv, QueueInv
<1>3. Sound(sch') /\ StillAhead(sch') = ToSet(sch.busy) /\ sch'.all = sch.all
  BY <1>1, <1>2, StartIterationSound
<1>4. sch' \in Schedules /\ QueuesMatch(sch') /\ ToSet(sch.busy) \subseteq Co
  BY <1>2, <1>3 DEF Sound, Schedules, QueuesMatch
<1>5. TypeOK'
  BY <1>1, <1>4 DEF IInv, TypeOK, PCs
<1>6. QueueInv'
  BY <1>1, <1>3, <1>4 DEF QueueInv, StillAhead
<1>7. HookInv'
  BY <1>1, <1>3, HooksUntouched DEF IInv, Triggering
<1>8. ControlInv'
  BY <1>1 DEF IInv, ControlInv
<1> QED BY <1>5, <1>6, <1>7, <1>8 DEF IInv

\* Calls that edit the schedule, made by a client at any of its three places.
LEMMA ScheduleCall ==
    ASSUME IInv, InClient, Sound(sch'), sch.all \subseteq sch'.all,
           passDue' \subseteq passDue, passDue' \subseteq StillAhead(sch'),
           over' \in SUBSET Co,
           UNCHANGED <<pc, cur, failing, hooks, hookIt, blocking, hookDue>>
    PROVE  IInv'
<1>1. sch' \in Schedules /\ QueuesMatch(sch')
  BY DEF Sound
<1>2. TypeOK'
  BY <1>1 DEF IInv, TypeOK
<1>3. QueueInv'
  BY <1>1 DEF IInv, QueueInv, InClient, StillAhead
<1>4. HookInv'
  BY DEF IInv, HookInv, Triggering
<1>5. ControlInv'
  BY DEF IInv, ControlInv
<1> QED BY <1>2, <1>3, <1>4, <1>5 DEF IInv

\* host() adds a coroutine behind the cursor's.
LEMMA CallHostStep == ASSUME IInv, NEW c \in Co, CallHost(c) PROVE IInv'
<1>1. /\ InClient /\ c \notin sch.all /\ sch' = Host(sch, c)
      /\ over' = over \ {c}
      /\ UNCHANGED <<pc, cur, failing, hooks, hookIt, blocking, passDue, hookDue>>
  BY DEF CallHost
<1>2. Sound(sch) /\ passDue \subseteq StillAhead(sch) /\ over \in SUBSET Co
  BY <1>1 DEF IInv, QueueInv, InClient, TypeOK
<1>3. Sound(sch') /\ StillAhead(sch) \subseteq StillAhead(sch') /\ sch'.all = sch.all \cup {c}
  BY <1>1, <1>2, HostSound
<1> QED BY <1>1, <1>2, <1>3, ScheduleCall

\* set_state() keeps whoever is due ahead of the cursor, fix included.
LEMMA CallSetStateStep ==
    ASSUME IInv, NEW c \in Co, NEW st \in Status, CallSetState(c, st)
    PROVE  IInv'
<1>1. /\ InClient /\ c \in sch.all /\ sch' = SetState(sch, c, st)
      /\ passDue' = (IF Waits(st) THEN passDue \ {c} ELSE passDue)
      /\ UNCHANGED <<pc, cur, failing, hooks, hookIt, over, blocking, hookDue>>
  BY DEF CallSetState
<1>2. Sound(sch) /\ passDue \subseteq StillAhead(sch) /\ over \in SUBSET Co
  BY <1>1 DEF IInv, QueueInv, InClient, TypeOK
<1>3. /\ Sound(sch') /\ sch'.all = sch.all
      /\ StillAhead(sch) \ {d \in {c} : Waits(st)} \subseteq StillAhead(sch')
  BY <1>1, <1>2, SetStateSound
<1>4. passDue' \subseteq passDue /\ passDue' \subseteq StillAhead(sch')
  BY <1>1, <1>2, <1>3
<1> QED BY <1>1, <1>2, <1>3, <1>4, ScheduleCall

\* hook() appends a fresh token, which no cursor points at.
LEMMA CallHookStep ==
    ASSUME IInv, NEW c \in Co, NEW token \in Hook, CallHook(c, token)
    PROVE  IInv'
<1> DEFINE q == hooks[c]
<1>1. /\ c \in sch.all /\ token \notin Registered
      /\ hooks' = [hooks EXCEPT ![c] = Append(q, token)]
      /\ UNCHANGED <<sch, pc, cur, failing, hookIt, over, blocking, passDue, hookDue>>
  BY DEF CallHook
<1>2. /\ q \in Seq(Hook) /\ IsInjective(q) /\ token \notin ToSet(q)
      /\ hooks \in [Co -> Seq(Hook)]
  BY <1>1 DEF IInv, TypeOK, HookInv, Registered
<1> HIDE DEF q
<1>3. /\ Append(q, token) \in Seq(Hook)
      /\ IsInjective(Append(q, token))
      /\ ToSet(Append(q, token)) = ToSet(q) \cup {token}
      /\ \A it : Ahead(q, it) \subseteq Ahead(Append(q, token), it)
  BY <1>2, AppendNode
<1>4. /\ hooks'[c] = Append(q, token)
      /\ \A d \in Co : d # c => hooks'[d] = hooks[d]
      /\ hooks' \in [Co -> Seq(Hook)]
  BY <1>1, <1>2, <1>3
<1>5. HookInv'
  <2>1. \A d \in Co : IsInjective(hooks'[d]) /\ (hooks'[d] # <<>> => d \in sch.all)
    BY <1>1, <1>3, <1>4 DEF IInv, HookInv
  <2>2. \A d \in Co : hookIt[d] \in ToSet(hooks'[d]) \cup {NULL}
    BY <1>3, <1>4 DEF IInv, HookInv, q
  <2>3. Triggering => hookDue \subseteq Ahead(hooks'[cur], hookIt[cur])
    <3>1. SUFFICES ASSUME Triggering
                   PROVE  hookDue \subseteq Ahead(hooks'[cur], hookIt[cur])
      OBVIOUS
    <3>2. cur \in Co /\ hookDue \subseteq Ahead(hooks[cur], hookIt[cur])
      BY <3>1, NullAssumption DEF IInv, HookInv, ControlInv, Triggering, TypeOK
    <3>3. Ahead(hooks[cur], hookIt[cur]) \subseteq Ahead(hooks'[cur], hookIt[cur])
      BY <3>2, <1>3, <1>4 DEF q
    <3> QED BY <3>2, <3>3
  <2> QED BY <1>1, <2>1, <2>2, <2>3 DEF IInv, HookInv, Triggering
<1>6. TypeOK'
  BY <1>1, <1>4 DEF IInv, TypeOK
<1>7. QueueInv'
  BY <1>1 DEF IInv, QueueInv, StillAhead
<1>8. ControlInv'
  BY <1>1 DEF IInv, ControlInv
<1> QED BY <1>5, <1>6, <1>7, <1>8 DEF IInv

\* unhook() keeps the hooks that are due ahead of hook.it, fix included.
LEMMA CallUnhookStep ==
    ASSUME IInv, NEW c \in Co, NEW token \in Hook, CallUnhook(c, token)
    PROVE  IInv'
<1> DEFINE q == hooks[c]
           it == hookIt[c]
<1>1. /\ token \in ToSet(q)
      /\ hooks' = [hooks EXCEPT ![c] = Erase(q, token)]
      /\ hookIt' = [hookIt EXCEPT ![c] = SkipErased(q, it, token)]
      /\ hookDue' = hookDue \ {token}
      /\ UNCHANGED <<sch, pc, cur, failing, over, blocking, passDue>>
  BY DEF CallUnhook
<1>2. /\ q \in Seq(Hook) /\ IsInjective(q) /\ it \in ToSet(q) \cup {NULL}
      /\ NULL \notin Hook
      /\ hooks \in [Co -> Seq(Hook)] /\ hookIt \in [Co -> Hook \cup {NULL}]
  BY HookAssumption DEF IInv, TypeOK, HookInv
<1>3. (q # <<>> => c \in sch.all) /\ (it # NULL => c = cur /\ Triggering)
  BY DEF IInv, HookInv
<1>4. q # <<>> /\ token # NULL
  BY <1>1, <1>2 DEF ToSet
<1> HIDE DEF q, it
<1>5. /\ Erase(q, token) \in Seq(Hook)
      /\ IsInjective(Erase(q, token))
      /\ SkipErased(q, it, token) \in ToSet(Erase(q, token)) \cup {NULL}
      /\ Ahead(Erase(q, token), SkipErased(q, it, token)) = Ahead(q, it) \ {token}
  BY <1>1, <1>2, EraseNode
<1>6. ToSet(Erase(q, token)) \subseteq Hook
  BY <1>2, <1>5, AheadBounds
<1>7. it = NULL => SkipErased(q, it, token) = NULL
  BY <1>4 DEF SkipErased
<1>8. /\ hooks'[c] = Erase(q, token) /\ hookIt'[c] = SkipErased(q, it, token)
      /\ \A d \in Co : d # c => hooks'[d] = hooks[d] /\ hookIt'[d] = hookIt[d]
      /\ hooks' \in [Co -> Seq(Hook)] /\ hookIt' \in [Co -> Hook \cup {NULL}]
  BY <1>1, <1>2, <1>5, <1>6
<1>9. HookInv'
  <2>1. \A d \in Co : IsInjective(hooks'[d]) /\ (hooks'[d] # <<>> => d \in sch.all)
    BY <1>3, <1>4, <1>5, <1>8 DEF IInv, HookInv
  <2>2. \A d \in Co : hookIt'[d] \in ToSet(hooks'[d]) \cup {NULL}
    BY <1>5, <1>8 DEF IInv, HookInv
  <2>3. \A d \in Co : hookIt'[d] # NULL => d = cur /\ Triggering
    BY <1>3, <1>7, <1>8 DEF IInv, HookInv
  <2>4. Triggering => hookDue' \subseteq Ahead(hooks'[cur], hookIt'[cur])
    <3>1. SUFFICES ASSUME Triggering
                   PROVE  hookDue' \subseteq Ahead(hooks'[cur], hookIt'[cur])
      OBVIOUS
    <3>2. cur \in Co /\ hookDue \subseteq Ahead(hooks[cur], hookIt[cur])
      BY <3>1, NullAssumption DEF IInv, HookInv, ControlInv, Triggering, TypeOK
    <3>3. CASE cur = c
      BY <3>2, <3>3, <1>1, <1>5, <1>8 DEF q, it
    <3>4. CASE cur # c
      BY <3>2, <3>4, <1>1, <1>8
    <3> QED BY <3>3, <3>4
  <2>5. ~Triggering => hookDue' = {}
    BY <1>1 DEF IInv, HookInv
  <2> QED BY <1>1, <2>1, <2>2, <2>3, <2>4, <2>5 DEF HookInv, Triggering
<1>10. TypeOK'
  BY <1>1, <1>8 DEF IInv, TypeOK
<1>11. QueueInv'
  BY <1>1 DEF IInv, QueueInv, StillAhead
<1>12. ControlInv'
  BY <1>1 DEF IInv, ControlInv
<1> QED BY <1>9, <1>10, <1>11, <1>12 DEF IInv

\* Releasing everything empties the schedule, and only without hooks.
LEMMA ReleaseStep == ASSUME IInv, Release PROVE IInv'
<1>1. /\ pc \in {"returned", "thrown"}
      /\ UNCHANGED <<cur, failing, hooks, hookIt, over, blocking, passDue, hookDue>>
  BY DEF Release
<1>2. ~Triggering /\ cur = NULL
  BY <1>1 DEF IInv, ControlInv, Triggering
<1>3. CASE \A c \in sch.all : hooks[c] = <<>>
  <2>1. /\ pc' = "closed"
        /\ sch' = [sch EXCEPT !.all = {}, !.busy = <<>>, !.wait = <<>>]
    BY <1>3 DEF Release
  <2>2. sch \in Schedules
    BY DEF IInv, TypeOK
  <2>3. sch' \in Schedules /\ sch'.all = {} /\ sch'.busy = <<>> /\ sch'.wait = <<>>
    <3>1. /\ sch'.all = {} /\ sch'.busy = <<>> /\ sch'.wait = <<>>
          /\ sch'.iter = sch.iter /\ sch'.status = sch.status
          /\ sch' = [all |-> sch'.all, busy |-> sch'.busy, wait |-> sch'.wait,
                      iter |-> sch'.iter, status |-> sch'.status]
      BY <2>1, <2>2 DEF Schedules
    <3>2. sch.iter \in Co \cup {NULL} /\ sch.status \in [Co -> Status]
      BY <2>2 DEF Schedules
    <3>3. <<>> \in Seq(Co)
      OBVIOUS
    <3> QED BY <3>1, <3>2, <3>3, MakeSchedule
  <2>4. QueuesMatch(sch')
    BY <2>3 DEF QueuesMatch, IsInjective, ToSet
  <2>5. TypeOK'
    BY <1>1, <2>1, <2>3 DEF IInv, TypeOK, PCs
  <2>6. QueueInv'
    BY <2>1, <2>4 DEF QueueInv
  <2>7. HookInv'
    BY <1>1, <1>2, <1>3, <2>1, HooksUntouched DEF IInv, Triggering
  <2>8. ControlInv'
    BY <1>1, <1>2, <2>1 DEF IInv, ControlInv
  <2> QED BY <2>5, <2>6, <2>7, <2>8 DEF IInv
<1>4. CASE ~(\A c \in sch.all : hooks[c] = <<>>)
  <2>1. pc' = "aborted" /\ sch' = sch
    BY <1>4 DEF Release
  <2>2. TypeOK'
    BY <1>1, <2>1 DEF IInv, TypeOK, PCs
  <2>3. QueueInv'
    BY <1>1, <2>1 DEF IInv, QueueInv, StillAhead
  <2>4. HookInv'
    BY <1>1, <1>2, <2>1, HooksUntouched DEF IInv, Triggering
  <2>5. ControlInv'
    BY <1>1, <1>2, <2>1 DEF IInv, ControlInv
  <2> QED BY <2>2, <2>3, <2>4, <2>5 DEF IInv
<1> QED BY <1>3, <1>4

\* A stuttering step changes no part of the invariant.
LEMMA StutterStep == ASSUME IInv, UNCHANGED vars PROVE IInv'
<1>1. TypeOK'
  BY DEF vars, IInv, TypeOK
<1>2. QueueInv'
  BY DEF vars, IInv, QueueInv, StillAhead
<1>3. HookInv'
  BY DEF vars, IInv, HookInv, Triggering
<1>4. ControlInv'
  BY DEF vars, IInv, ControlInv
<1> QED BY <1>1, <1>2, <1>3, <1>4 DEF IInv

\* IInv is inductive.
THEOREM Inductive == Spec => []IInv
<1>1. ASSUME IInv, [Next]_vars PROVE IInv'
  <2>1. CASE Scheduling
    BY <1>1, <2>1, ReapDeadStep, ResumeStep, ResumeFinishedStep,
       TriggerNextStep, TriggerEndStep, EndPassStep DEF Scheduling
  <2>2. CASE ClientReturn
    BY <1>1, <2>2, YieldStep, FinishStep, FailStep, HookReturnStep,
       CallbackSteps DEF ClientReturn
  <2>3. CASE ClientCall
    BY <1>1, <2>3, CallHostStep, CallSetStateStep, CallHookStep,
       CallUnhookStep DEF ClientCall
  <2>4. CASE PollEvent \/ PollReturn \/ Release \/ UNCHANGED vars
    BY <1>1, <2>4, CallbackSteps, PollReturnStep, ReleaseStep, StutterStep
  <2> QED BY <1>1, <2>1, <2>2, <2>3, <2>4 DEF Next
<1> QED BY <1>1, InitIInv, PTL DEF Spec

\* The scheduler's state always has its type.
THEOREM TypeCorrect == Spec => []TypeOK
<1>1. IInv => TypeOK
  BY DEF IInv
<1> QED BY <1>1, Inductive, PTL

\* Whatever clients do, the queues match the status of every coroutine: no
\* coroutine is ever erased from a list it is not in.
THEOREM QueuesAlwaysMatch == Spec => []QueuesMatchStatus
<1>1. IInv => QueuesMatchStatus
  BY DEF IInv, QueueInv, QueuesMatchStatus
<1> QED BY <1>1, Inductive, PTL

\* busy_iter and hook.it never dangle, and no hook outlives its coroutine.
THEOREM CursorsAlwaysLinked == Spec => []CursorsLinked
<1>1. IInv => CursorsLinked
  BY DEF IInv, QueueInv, HookInv, CursorsLinked, Sound
<1> QED BY <1>1, Inductive, PTL

\* No pass skips a coroutine that stayed runnable.
THEOREM PassSkipsNobody == Spec => []NoBusySkipped
<1>1. IInv => NoBusySkipped
  BY DEF IInv, QueueInv, NoBusySkipped
<1> QED BY <1>1, Inductive, PTL

\* No trigger skips a hook that stayed registered.
THEOREM TriggerSkipsNobody == Spec => []NoHookSkipped
<1>1. IInv => NoHookSkipped
  BY DEF IInv, HookInv, NoHookSkipped, Triggering
<1> QED BY <1>1, Inductive, PTL

\* After an error nothing but the hooks of the failed coroutine is run.
THEOREM ErrorsAreFatal == Spec => []ErrorIsFatal
<1>1. IInv => ErrorIsFatal
  BY DEF IInv, ControlInv, ErrorIsFatal
<1> QED BY <1>1, Inductive, PTL

-----------------------------------------------------------------------------
(***************************************************************************)
(* The scheduler implements the abstract life cycle of a coroutine.        *)
(***************************************************************************)

Phase == [c \in Co |-> PhaseOf(c)]

\* A step that edits neither the table nor any status leaves the phases alone.
LEMMA SamePhases ==
    ASSUME sch'.all = sch.all, sch'.status = sch.status
    PROVE  Phase' = Phase
  BY DEF Phase, PhaseOf

\* set_state() on one coroutine changes that coroutine's phase only.
LEMMA PhaseSet ==
    ASSUME TypeOK, NEW c \in sch.all, NEW st \in Status,
           sch'.all = sch.all, sch'.status = [sch.status EXCEPT ![c] = st]
    PROVE  /\ Phase[c] # "none"
           /\ Phase' = [Phase EXCEPT ![c] = IF IsDead(st) THEN "dead" ELSE st]
           /\ (IF IsDead(st) THEN "dead" ELSE st) \in Lifecycle!Phases \ {"none"}
<1>1. c \in Co /\ sch.status \in [Co -> Status] /\ sch.all \in SUBSET Co
  BY DEF TypeOK, Schedules
<1>2. \A d \in Co : sch'.status[d] = IF d = c THEN st ELSE sch.status[d]
  BY <1>1
<1>3. Phase[c] # "none"
  BY <1>1 DEF Phase, PhaseOf, Status, IsDead
<1>4. Phase' = [Phase EXCEPT ![c] = IF IsDead(st) THEN "dead" ELSE st]
  <2>1. \A d \in Co : PhaseOf(d)' = IF d = c THEN (IF IsDead(st) THEN "dead" ELSE st)
                                    ELSE PhaseOf(d)
    BY <1>1, <1>2 DEF PhaseOf
  <2> QED BY <2>1, <1>1 DEF Phase
<1> QED BY <1>3, <1>4 DEF IsDead, Status, Lifecycle!Phases

\* The coroutine a pass resumes is runnable in the abstract sense.
LEMMA NextIsBusy ==
    ASSUME IInv, pc = "pass", sch.iter # NULL, ~IsDead(sch.status[sch.iter])
    PROVE  Phase[sch.iter] = "busy"
<1>1. sch.iter \in sch.all /\ sch.iter \in Co /\ Sound(sch)
  BY ServeNext
<1>2. ~Waits(sch.status[sch.iter]) /\ sch.status[sch.iter] \in Status
  BY <1>1 DEF Sound, QueuesMatch, Schedules
<1>3. sch.status[sch.iter] = "busy"
  BY <1>2 DEF Waits, IsDead, Status
<1> QED BY <1>1, <1>3 DEF Phase, PhaseOf, IsDead

\* Initially the script's coroutine is BUSY and nothing runs.
LEMMA InitImplements == Init => Lifecycle!Init
<1> SUFFICES ASSUME Init PROVE Lifecycle!Init
  OBVIOUS
<1> DEFINE s == Host(EmptySchedule, Main)
<1>1. sch.all = s.all /\ sch.status = s.status
  <2>1. sch = [s EXCEPT !.iter = First(s.busy)]
    BY DEF Init, StartIteration
  <2>2. s = [all |-> s.all, busy |-> s.busy, wait |-> s.wait,
             iter |-> s.iter, status |-> s.status]
    BY DEF Host, EmptySchedule
  <2> HIDE DEF s
  <2> QED BY <2>1, <2>2
<1>2. s.all = {Main} /\ s.status[Main] = "busy"
  BY MainAssumption DEF Host, EmptySchedule
<1> HIDE DEF s
<1>3. Phase = [d \in Co |-> IF d = Main THEN "busy" ELSE "none"]
  BY <1>1, <1>2, MainAssumption DEF Phase, PhaseOf, IsDead
<1> QED BY <1>3, MainAssumption DEF Lifecycle!Init, Init, Phase

\* Every step of the scheduler is a step of the life cycle, or none at all.
LEMMA StepImplements ==
    ASSUME IInv, [Next]_vars
    PROVE  [Lifecycle!Next]_(Lifecycle!vars)
<1> DEFINE Abstract == [Lifecycle!Next]_(Lifecycle!vars)
<1>0. TypeOK /\ sch \in Schedules /\ sch.status \in [Co -> Status] /\ sch.all \in SUBSET Co
  BY DEF IInv, TypeOK, Schedules
<1>1. CASE ReapDead
  <2>1. /\ pc = "pass" /\ sch.iter # NULL /\ IsDead(sch.status[sch.iter])
        /\ UNCHANGED <<cur, failing>>
        /\ sch' = sch \/ sch' = Destroy(Advance(sch), sch.iter)
    BY <1>1 DEF ReapDead
  <2>2. CASE sch' = sch
    BY <2>1, <2>2, SamePhases DEF Lifecycle!vars, Phase
  <2>3. CASE sch' = Destroy(Advance(sch), sch.iter)
    <3>1. /\ sch.iter \in sch.all /\ sch.iter \in Co /\ Sound(Advance(sch))
          /\ Advance(sch).iter # sch.iter
          /\ Advance(sch).all = sch.all /\ Advance(sch).status = sch.status
          /\ cur = NULL
      BY <2>1, ServeNext
    <3>2. sch'.all = sch.all \ {sch.iter} /\ sch'.status = sch.status
      BY <2>3, <3>1, DestroySound
    <3>3. Phase' = [Phase EXCEPT ![sch.iter] = "none"]
      BY <3>1, <3>2 DEF Phase, PhaseOf
    <3>4. Phase[sch.iter] = "dead"
      BY <2>1, <3>1 DEF Phase, PhaseOf
    <3>5. Lifecycle!Remove(sch.iter)
      BY <2>1, <3>1, <3>3, <3>4, NullAssumption DEF Lifecycle!Remove, Phase
    <3> QED BY <3>1, <3>5 DEF Lifecycle!Next
  <2> QED BY <2>1, <2>2, <2>3
<1>2. CASE Resume
  <2>1. /\ pc = "pass" /\ sch.iter # NULL /\ ~IsDead(sch.status[sch.iter])
        /\ cur' = sch.iter /\ sch' = Advance(sch) /\ failing' = failing
    BY <1>2 DEF Resume
  <2>2. /\ sch.iter \in Co /\ sch'.all = sch.all /\ sch'.status = sch.status
        /\ cur = NULL /\ ~failing
    BY <2>1, ServeNext
  <2>3. Lifecycle!Start(sch.iter)
    BY <2>1, <2>2, NextIsBusy, SamePhases DEF Lifecycle!Start, Phase
  <2> QED BY <2>2, <2>3 DEF Lifecycle!Next
<1>3. CASE ResumeFinished
  <2>1. /\ pc = "pass" /\ sch.iter # NULL /\ ~IsDead(sch.status[sch.iter])
        /\ cur' = sch.iter /\ failing' = TRUE
        /\ sch' = SetState(Advance(sch), sch.iter, "error")
    BY <1>3 DEF ResumeFinished
  <2>2. /\ sch.iter \in sch.all /\ sch.iter \in Co /\ Sound(Advance(sch))
        /\ Advance(sch).all = sch.all /\ Advance(sch).status = sch.status
        /\ cur = NULL /\ ~failing
    BY <2>1, ServeNext
  <2>3. "error" \in Status /\ IsDead("error") /\ sch.iter \in Advance(sch).all
    BY <2>2 DEF Status, IsDead
  <2>4. sch'.all = sch.all /\ sch'.status = [sch.status EXCEPT ![sch.iter] = "error"]
    <3> DEFINE A == Advance(sch)
               thr == sch.iter
    <3>1. Sound(A) /\ thr \in A.all /\ "error" \in Status
      BY <2>2, <2>3
    <3> HIDE DEF A, thr
    <3>2. /\ SetState(A, thr, "error").all = A.all
          /\ SetState(A, thr, "error").status = [A.status EXCEPT ![thr] = "error"]
      BY <3>1, SetStateSound
    <3> QED BY <2>1, <2>2, <3>2 DEF A, thr
  <2>5. Phase' = [Phase EXCEPT ![sch.iter] = "dead"]
    BY <1>0, <2>2, <2>3, <2>4, PhaseSet
  <2>6. Lifecycle!Err(sch.iter)
    BY <2>1, <2>2, <2>5, NextIsBusy DEF Lifecycle!Err, Phase
  <2> QED BY <2>2, <2>6 DEF Lifecycle!Next
<1>4. CASE Yield
  BY <1>4, SamePhases DEF Yield, Lifecycle!vars, Phase
<1>5. CASE Finish \/ Fail
  <2>1. PICK st \in {"dead", "error"} :
           /\ sch' = SetState(sch, cur, st)
           /\ failing' = IF st = "error" THEN TRUE ELSE failing
    BY <1>5 DEF Finish, Fail
  <2>2. pc = "run" /\ cur' = cur
    BY <1>5 DEF Finish, Fail
  <2>3. Sound(sch) /\ cur \in sch.all /\ cur \in Co /\ ~failing
    BY <2>2, <1>0, NullAssumption DEF IInv, QueueInv, ControlInv
  <2>4. st \in Status /\ IsDead(st)
    BY DEF Status, IsDead
  <2>5. sch'.all = sch.all /\ sch'.status = [sch.status EXCEPT ![cur] = st]
    BY <2>1, <2>3, <2>4, SetStateSound
  <2>6. Phase[cur] # "none" /\ Phase' = [Phase EXCEPT ![cur] = "dead"]
    BY <1>0, <2>3, <2>4, <2>5, PhaseSet
  <2>7. CASE st = "error"
    <3>1. Lifecycle!Err(cur)
      BY <2>1, <2>2, <2>3, <2>6, <2>7 DEF Lifecycle!Err, Phase
    <3> QED BY <2>3, <3>1 DEF Lifecycle!Next
  <2>8. CASE st = "dead"
    <3>1. Lifecycle!Set(cur, "dead")
      BY <2>1, <2>2, <2>6, <2>8 DEF Lifecycle!Set, Phase
    <3> QED BY <2>3, <3>1 DEF Lifecycle!Next, Lifecycle!Phases
  <2> QED BY <2>7, <2>8
<1>6. CASE TriggerEnd
  <2>1. pc = "trigger" /\ cur' = NULL /\ UNCHANGED <<sch, failing>>
    BY <1>6 DEF TriggerEnd
  <2>2. cur # NULL
    BY <2>1 DEF IInv, ControlInv
  <2>3. Lifecycle!Stop
    BY <2>1, <2>2, SamePhases DEF Lifecycle!Stop, Phase
  <2> QED BY <2>3 DEF Lifecycle!Next
<1>7. CASE TriggerNext \/ HookReturn \/ EndPass \/ PollEvent \/ CallbackReturn
  <2>1. UNCHANGED <<sch, cur, failing>>
    BY <1>7 DEF TriggerNext, HookReturn, EndPass, PollEvent, CallbackReturn
  <2> QED BY <2>1, SamePhases DEF Lifecycle!vars, Phase
<1>8. CASE PollReturn
  <2>1. pc = "poll" /\ sch' = StartIteration(sch) /\ UNCHANGED <<cur, failing>>
    BY <1>8 DEF PollReturn
  <2>2. sch'.all = sch.all /\ sch'.status = sch.status
    BY <2>1, StartIterationSound DEF IInv, QueueInv
  <2> QED BY <2>1, <2>2, SamePhases DEF Lifecycle!vars, Phase
<1>9. ASSUME NEW c \in Co, CallHost(c) PROVE Abstract
  <2>1. /\ InClient /\ c \notin sch.all /\ sch' = Host(sch, c)
        /\ UNCHANGED <<cur, failing>>
    BY <1>9 DEF CallHost
  <2>2. /\ sch'.all = sch.all \cup {c}
        /\ sch'.status = [sch.status EXCEPT ![c] = "busy"]
    BY <2>1, HostSound DEF IInv, QueueInv, InClient
  <2>3. Phase[c] = "none" /\ Phase' = [Phase EXCEPT ![c] = "busy"]
    <3>1. \A d \in Co : PhaseOf(d)' = IF d = c THEN "busy" ELSE PhaseOf(d)
      BY <1>0, <2>2 DEF PhaseOf, IsDead
    <3> QED BY <2>1, <3>1 DEF Phase, PhaseOf
  <2>4. Lifecycle!Host(c)
    BY <2>1, <2>3 DEF Lifecycle!Host, Phase
  <2> QED BY <2>4 DEF Lifecycle!Next
<1>10. ASSUME NEW c \in Co, NEW st \in Status, CallSetState(c, st) PROVE Abstract
  <2>1. /\ InClient /\ c \in sch.all /\ sch' = SetState(sch, c, st)
        /\ UNCHANGED <<cur, failing>>
    BY <1>10 DEF CallSetState
  <2>2. sch'.all = sch.all /\ sch'.status = [sch.status EXCEPT ![c] = st]
    BY <2>1, SetStateSound DEF IInv, QueueInv, InClient
  <2> DEFINE ph == IF IsDead(st) THEN "dead" ELSE st
  <2>3. /\ Phase[c] # "none" /\ Phase' = [Phase EXCEPT ![c] = ph]
        /\ ph \in Lifecycle!Phases /\ ph # "none"
    BY <1>0, <2>1, <2>2, PhaseSet
  <2>4. Lifecycle!Set(c, ph)
    BY <2>1, <2>3 DEF Lifecycle!Set, Phase
  <2> HIDE DEF ph
  <2> QED BY <2>3, <2>4 DEF Lifecycle!Next
<1>11. ASSUME NEW c \in Co, NEW token \in Hook, CallHook(c, token) \/ CallUnhook(c, token)
       PROVE  Abstract
  <2>1. UNCHANGED <<sch, cur, failing>>
    BY <1>11 DEF CallHook, CallUnhook
  <2> QED BY <2>1, SamePhases DEF Lifecycle!vars, Phase
<1>12. CASE Release
  <2>1. pc \in {"returned", "thrown"} /\ UNCHANGED <<cur, failing>>
    BY <1>12 DEF Release
  <2>2. CASE sch' = sch
    BY <2>1, <2>2, SamePhases DEF Lifecycle!vars, Phase
  <2>3. CASE sch' = [sch EXCEPT !.all = {}, !.busy = <<>>, !.wait = <<>>]
    <3>1. sch'.all = {}
      BY <1>0, <2>3 DEF Schedules
    <3>2. Phase' = [c \in Co |-> "none"]
      BY <3>1 DEF Phase, PhaseOf
    <3>3. cur = NULL /\ (failing \/ sch.all = {})
      BY <2>1 DEF IInv, ControlInv, QueueInv
    <3>4. failing \/ \A c \in Co : Phase[c] = "none"
      BY <3>3 DEF Phase, PhaseOf
    <3>5. Lifecycle!Close
      BY <2>1, <3>2, <3>3, <3>4 DEF Lifecycle!Close, Phase
    <3> QED BY <3>5 DEF Lifecycle!Next
  <2> QED BY <1>12, <2>2, <2>3 DEF Release
<1>13. CASE UNCHANGED vars
  <2>1. UNCHANGED <<sch, cur, failing>>
    BY <1>13 DEF vars
  <2> QED BY <2>1, SamePhases DEF Lifecycle!vars, Phase
<1>14. CASE ClientCall
  BY <1>14, <1>9, <1>10, <1>11 DEF ClientCall
<1>15. CASE Scheduling \/ ClientReturn
  BY <1>15, <1>1, <1>2, <1>3, <1>4, <1>5, <1>6, <1>7 DEF Scheduling, ClientReturn
<1> QED BY <1>7, <1>8, <1>12, <1>13, <1>14, <1>15 DEF Next

\* The scheduler implements the life cycle autodo.h promises: only a BUSY
\* coroutine is started, one at a time, only a DEAD one goes away.
THEOREM Implements == Spec => ImplementsLifecycle
<1>1. IInv /\ [Next]_vars => [Lifecycle!Next]_(Lifecycle!vars)
  BY StepImplements
<1> QED BY <1>1, InitImplements, Inductive, PTL
        DEF Spec, ImplementsLifecycle, Lifecycle!Spec
=============================================================================
