------------------------- MODULE LuaCoroutineProofs -------------------------
(***************************************************************************)
(* Proofs about LuaCoroutine for every set of coroutines and timers, and   *)
(* whatever scripts do: no rule is assumed.                                *)
(*                                                                         *)
(* That no wake-up is lost is not inductive.  It needs to be known that an *)
(* unfinished object is hooked or is the one whose waiters are being woken *)
(* (ObjInv), and that a waiter is linked to the object it waits for from   *)
(* the moment it blocks until it is woken, whatever happens to the rest of *)
(* the queue (WaitInv).                                                    *)
(***************************************************************************)
EXTENDS LuaCoroutine, CoroutineApiProofs

\* The schedule is sound until lua_close, after which nothing is registered.
SchedInv ==
    /\ QueuesMatch(sch)
    /\ pc # "closed" => Sound(sch)
    /\ pc = "closed" => sch.all = {}

\* Who has control, and where each Lua thread can be.
ControlInv ==
    /\ pc \in {"run", "wake"} => cur \in sch.all
    /\ pc \in {"pass", "poll", "returned", "thrown", "closed", "aborted"} => cur = NULL
    /\ pc = "run" => at[cur].in = "script"
    /\ pc = "poll" /\ blocking => sch.busy = <<>> /\ sch.all # {}
    /\ \A c \in Co : /\ at[c].in = "await" => at[c].on \in Co
                     /\ at[c].in = "sleep" => at[c].on \in Timer

\* A coroutine that no script has created yet.
Unborn(c) ==
    obj[c].life = "none" /\ c # Main => c \notin sch.all /\ at[c].in = "script"

\* An object without a result is hooked, or is just being settled.
Settles(c) ==
    /\ obj[c].hooked => c \in sch.all /\ obj[c].life = "live"
    /\ obj[c].life = "live" /\ ~obj[c].have =>
           obj[c].hooked \/ (pc = "wake" /\ cur = c) \/ pc \in {"closed", "ub"}

\* The flag and the result go together.
Answers(c) == obj[c].have <=> obj[c].out # "pending"

ObjInv == \A c \in Co : Unborn(c) /\ Settles(c) /\ Answers(c)

\* Whoever is inside await() is linked to a live object.
Linked(c) ==
    at[c].in = "await" =>
        /\ obj[at[c].on].life = "live"
        /\ obj[at[c].on].have \/ c \in ToSet(obj[at[c].on].wq)

\* Whoever waits has something left to wait for.
Expects(c) ==
    Waits(sch.status[c]) /\ c \notin suspended =>
        \/ at[c].in = "sleep" /\ armed[at[c].on] = c
        \/ /\ at[c].in = "await" /\ ~obj[at[c].on].have
           /\ pc = "wake" /\ at[c].on = cur => c \in ToSet(waking)

WaitInv == \A c \in sch.all : Linked(c) /\ Expects(c)

IInv == TypeOK /\ SchedInv /\ ControlInv /\ ObjInv /\ WaitInv

\* What a set_state() on c does, as far as anyone but the queues can tell.
Becomes(c, st) ==
    /\ Sound(sch') /\ sch'.all = sch.all
    /\ sch'.status = [sch.status EXCEPT ![c] = st]

\* What a step that sets no state does.
KeepsStatus == Sound(sch') /\ sch'.all = sch.all /\ sch'.status = sch.status

\* set_state() on a registered coroutine.
LEMMA SetStateEffect ==
    ASSUME Sound(sch), NEW c \in sch.all, NEW st \in Status, sch' = SetState(sch, c, st)
    PROVE  Becomes(c, st)
<1>1. /\ Sound(SetState(sch, c, st)) /\ SetState(sch, c, st).all = sch.all
      /\ SetState(sch, c, st).status = [sch.status EXCEPT ![c] = st]
  BY SetStateSound
<1> QED BY <1>1 DEF Becomes

\* The coroutine a pass serves.
LEMMA ServedFacts ==
    ASSUME IInv, NEW thr \in Co, Serving(thr)
    PROVE  /\ pc = "pass" /\ cur = NULL /\ Sound(sch)
           /\ sch.iter # NULL /\ thr = sch.iter
           /\ thr \in sch.all /\ ~Waits(sch.status[thr])
           /\ sch' = Advance(sch) => KeepsStatus
           /\ \A st \in Status : sch' = SetState(Advance(sch), thr, st) => Becomes(thr, st)
<1>1. pc = "pass" /\ cur = NULL /\ Sound(sch) /\ sch.iter # NULL /\ thr = sch.iter
  BY DEF Serving, IInv, SchedInv, ControlInv
<1>2. thr \in sch.all /\ ~Waits(sch.status[thr]) /\ (sch' = Advance(sch) => KeepsStatus)
  BY <1>1, ServeSound DEF KeepsStatus
<1>3. ASSUME NEW st \in Status, sch' = SetState(Advance(sch), thr, st)
      PROVE  Becomes(thr, st)
  BY <1>1, <1>3, ServeSetState DEF Becomes
<1> QED BY <1>1, <1>2, <1>3

\* The place of a Lua thread that is inside a call.
LEMMA PlaceOf ==
    ASSUME TypeOK, NEW c \in Co
    PROVE  /\ at[c].in = "script" \/ at[c].in = "await" \/ at[c].in = "sleep"
           /\ at[c].in = "await" => at[c] = Awaiting(at[c].on)
           /\ at[c].in = "sleep" => at[c] = Sleeping(at[c].on)
           /\ Script.in = "script"
           /\ \A x : Awaiting(x).in = "await" /\ Awaiting(x).on = x
           /\ \A x : Sleeping(x).in = "sleep" /\ Sleeping(x).on = x
  BY DEF TypeOK, Script, Awaiting, Sleeping

Objects == [Co -> [life : {"none", "live", "collected"}, hooked : BOOLEAN,
                   wq : Seq(Co), have : BOOLEAN, closed : BOOLEAN,
                   out : {"pending", "ok", "error"}]]

\* Unhooking one object.
LEMMA Unhook ==
    ASSUME TypeOK, NEW c \in Co, obj' = [obj EXCEPT ![c].hooked = FALSE]
    PROVE  /\ obj' \in Objects
           /\ ~obj'[c].hooked
           /\ \A d \in Co : d # c => obj'[d] = obj[d]
           /\ \A d \in Co : /\ obj'[d].life = obj[d].life /\ obj'[d].wq = obj[d].wq
                            /\ obj'[d].have = obj[d].have /\ obj'[d].closed = obj[d].closed
                            /\ obj'[d].out = obj[d].out
<1>1. obj \in Objects
  BY DEF TypeOK, Objects
<1>2. obj'[c] = [obj[c] EXCEPT !.hooked = FALSE] /\ \A d \in Co : d # c => obj'[d] = obj[d]
  BY <1>1 DEF Objects
<1>3. obj' \in Objects
  BY <1>1 DEF Objects
<1>4. ~obj'[c].hooked
  BY <1>1, <1>2 DEF Objects
<1>5. /\ obj'[c].life = obj[c].life /\ obj'[c].wq = obj[c].wq
      /\ obj'[c].have = obj[c].have /\ obj'[c].closed = obj[c].closed
      /\ obj'[c].out = obj[c].out
  BY <1>1, <1>2 DEF Objects
<1> QED BY <1>2, <1>3, <1>4, <1>5

\* The next waiter is made runnable; the others stay linked.
LEMMA WakeNextStep == ASSUME IInv, WakeNext PROVE IInv'
<1>1. /\ pc = "wake" /\ waking # <<>> /\ waking' = Tail(waking)
      /\ UNCHANGED <<cur, failing, obj, at, armed, over, blocking, suspended, poked, reported>>
      /\ cur \in sch.all /\ Sound(sch)
  BY DEF WakeNext, IInv, SchedInv, ControlInv
<1>2. /\ Head(waking) \in Co /\ waking' \in Seq(Co)
      /\ \A c \in ToSet(waking) : c = Head(waking) \/ c \in ToSet(waking')
  BY <1>1, HeadAndTail DEF IInv, TypeOK
<1>3. \/ Head(waking) \in sch.all /\ Becomes(Head(waking), "busy") /\ pc' = "wake"
      \/ Head(waking) \notin sch.all /\ KeepsStatus /\ pc' = "ub"
  <2>1. "busy" \in Status
    BY DEF Status
  <2>2. CASE Head(waking) \in sch.all
    BY <1>1, <2>1, <2>2, SetStateEffect DEF WakeNext
  <2>3. CASE Head(waking) \notin sch.all
    BY <1>1, <2>3 DEF WakeNext, KeepsStatus
  <2> QED BY <2>2, <2>3
<1>4. Sound(sch') /\ sch'.all = sch.all
  BY <1>3 DEF Becomes, KeepsStatus
<1>5. TypeOK'
  BY <1>1, <1>2, <1>3, <1>4 DEF IInv, TypeOK, Sound
<1>6. SchedInv'
  BY <1>3, <1>4 DEF SchedInv, Sound
<1>7. ControlInv'
  BY <1>1, <1>3, <1>4 DEF IInv, ControlInv
<1>8. ObjInv'
  BY <1>1, <1>3, <1>4 DEF IInv, ObjInv, Unborn, Settles, Answers
<1>9. WaitInv'
  <2> SUFFICES ASSUME NEW c \in sch.all PROVE Linked(c)' /\ Expects(c)'
    BY <1>4 DEF WaitInv
  <2>1. Linked(c)'
    BY <1>1 DEF IInv, WaitInv, Linked
  <2>2. Expects(c)'
    BY <1>1, <1>2, <1>3 DEF IInv, TypeOK, Schedules, WaitInv, Expects, Becomes, KeepsStatus, Waits
  <2> QED BY <2>1, <2>2
<1> QED BY <1>5, <1>6, <1>7, <1>8, <1>9 DEF IInv

\* Updating one flag, or the result, of one object keeps the type.
LEMMA HookedType ==
    ASSUME NEW o \in Objects, NEW c \in Co, NEW hk \in BOOLEAN,
           NEW x, x = [o EXCEPT ![c].hooked = hk]
    PROVE  x \in Objects
  BY DEF Objects

\* Storing a result keeps the type of the objects.
LEMMA OutType ==
    ASSUME NEW o \in Objects, NEW c \in Co, NEW res \in {"pending", "ok", "error"},
           NEW x, x = [o EXCEPT ![c].out = res]
    PROVE  x \in Objects
  BY DEF Objects

\* Storing the result of one object.
LEMMA StoreResult ==
    ASSUME TypeOK, NEW c \in Co, NEW res \in {"ok", "error"},
           obj' = [obj EXCEPT ![c].have = TRUE, ![c].out = res]
    PROVE  /\ obj' \in Objects
           /\ obj'[c].have /\ obj'[c].out = res
           /\ \A d \in Co : d # c => obj'[d] = obj[d]
           /\ \A d \in Co : /\ obj'[d].life = obj[d].life /\ obj'[d].hooked = obj[d].hooked
                            /\ obj'[d].wq = obj[d].wq /\ obj'[d].closed = obj[d].closed
<1> DEFINE o == [obj EXCEPT ![c].have = TRUE]
<1>1. obj \in Objects
  BY DEF TypeOK, Objects
<1>2. obj' = [o EXCEPT ![c].out = res]
  OBVIOUS
<1>3. /\ o \in Objects /\ o[c] = [obj[c] EXCEPT !.have = TRUE]
      /\ \A d \in Co : d # c => o[d] = obj[d]
  BY <1>1 DEF Objects
<1> HIDE DEF o
<1>4. obj'[c] = [o[c] EXCEPT !.out = res] /\ \A d \in Co : d # c => obj'[d] = o[d]
  BY <1>2, <1>3 DEF Objects
<1>5. obj' \in Objects
  BY <1>2, <1>3, OutType
<1>6. obj'[c].have
  BY <1>1, <1>3, <1>4 DEF Objects
<1>7. obj'[c].out = res
  BY <1>1, <1>3, <1>4 DEF Objects
<1>8. /\ obj'[c].life = obj[c].life /\ obj'[c].hooked = obj[c].hooked
      /\ obj'[c].wq = obj[c].wq /\ obj'[c].closed = obj[c].closed
  BY <1>1, <1>3, <1>4 DEF Objects
<1> QED BY <1>3, <1>4, <1>5, <1>6, <1>7, <1>8

\* The result is stored once everybody waiting for it has been woken.
LEMMA WakeEndStep == ASSUME IInv, WakeEnd PROVE IInv'
<1>1. /\ pc = "wake" /\ waking = <<>> /\ cur' = NULL /\ pc' \in {"thrown", "pass"}
      /\ obj' = [obj EXCEPT ![cur].have = TRUE,
                            ![cur].out = IF sch.status[cur] = "error" THEN "error" ELSE "ok"]
      /\ UNCHANGED <<sch, failing, waking, at, armed, over, blocking, suspended, poked, reported>>
  BY DEF WakeEnd
<1>9. cur \in sch.all /\ cur \in Co /\ Sound(sch)
  BY <1>1 DEF IInv, SchedInv, ControlInv, Sound, Schedules
<1> DEFINE res == IF sch.status[cur] = "error" THEN "error" ELSE "ok"
<1>8. obj' = [obj EXCEPT ![cur].have = TRUE, ![cur].out = res] /\ res \in {"ok", "error"}
  BY <1>1
<1> HIDE DEF res
<1>2. /\ obj' \in Objects
      /\ \A c \in Co : c # cur => obj'[c] = obj[c]
      /\ obj'[cur].life = obj[cur].life /\ obj'[cur].hooked = obj[cur].hooked
      /\ obj'[cur].wq = obj[cur].wq /\ obj'[cur].have /\ obj'[cur].out # "pending"
  BY <1>9, <1>8, StoreResult DEF IInv
<1>3. TypeOK'
  BY <1>1, <1>2 DEF IInv, TypeOK, Objects
<1>4. SchedInv'
  BY <1>1, <1>9 DEF IInv, SchedInv
<1>5. ControlInv'
  BY <1>1, <1>9 DEF IInv, ControlInv
<1>6. ObjInv'
  <2> SUFFICES ASSUME NEW d \in Co PROVE Unborn(d)' /\ Settles(d)' /\ Answers(d)'
    BY DEF ObjInv
  <2>1. Unborn(d) /\ Settles(d) /\ Answers(d)
    BY DEF IInv, ObjInv
  <2>2. CASE d = cur
    BY <1>1, <1>9, <1>2, <2>1, <2>2 DEF Unborn, Settles, Answers
  <2>3. CASE d # cur
    <3>1. obj'[d] = obj[d]
      BY <1>2, <2>3
    <3>2. Unborn(d)' /\ Answers(d)'
      BY <1>1, <2>1, <3>1 DEF Unborn, Answers
    <3>3. Settles(d)'
      BY <1>1, <2>1, <2>3, <3>1 DEF Settles
    <3> QED BY <3>2, <3>3
  <2> QED BY <2>2, <2>3
<1>7. WaitInv'
  <2> SUFFICES ASSUME NEW c \in sch.all PROVE Linked(c)' /\ Expects(c)'
    BY <1>1 DEF WaitInv
  <2>1. c \in Co /\ (at[c].in = "await" => at[c].on \in Co)
    BY DEF IInv, TypeOK, Schedules, ControlInv
  <2>2. Linked(c)'
    BY <1>1, <1>9, <1>2, <2>1 DEF IInv, WaitInv, Linked
  <2>3. ToSet(waking) = {}
    BY <1>1 DEF ToSet
  <2>4. Linked(c) /\ Expects(c)
    BY DEF IInv, WaitInv
  <2>5. at[c].in = "await" => at[c].on = cur \/ obj'[at[c].on] = obj[at[c].on]
    BY <1>2, <2>1
  <2>6. Expects(c)'
    BY <1>1, <2>3, <2>4, <2>5 DEF Expects
  <2> QED BY <2>2, <2>6
<1> QED BY <1>3, <1>4, <1>5, <1>6, <1>7 DEF IInv

\* A dead coroutine goes away; nobody who is left depends on it.
LEMMA ReapDeadStep == ASSUME IInv, ReapDead PROVE IInv'
<1>1. PICK thr \in Co :
        /\ Serving(thr)
        /\ IF obj[thr].hooked
           THEN pc' = "aborted" /\ UNCHANGED sch
           ELSE pc' = pc /\ sch' = Destroy(Advance(sch), thr)
  BY DEF ReapDead
<1>2. UNCHANGED <<cur, failing, waking, obj, at, armed, over, blocking,
                  suspended, poked, reported>>
  BY DEF ReapDead
<1>3. /\ pc = "pass" /\ cur = NULL /\ Sound(sch) /\ sch.iter # NULL
      /\ thr = sch.iter /\ thr \in sch.all
  BY <1>1, ServedFacts
<1>4. /\ Sound(sch') /\ sch'.status = sch.status
      /\ \/ obj[thr].hooked /\ pc' = "aborted" /\ sch'.all = sch.all
         \/ ~obj[thr].hooked /\ pc' = "pass" /\ sch'.all = sch.all \ {thr}
  BY <1>1, <1>3, ServeDestroy
<1>5. TypeOK'
  BY <1>2, <1>4 DEF IInv, TypeOK, Sound
<1>6. SchedInv'
  BY <1>4 DEF SchedInv, Sound
<1>7. ControlInv'
  BY <1>2, <1>3, <1>4 DEF IInv, ControlInv
<1>8. ObjInv'
  BY <1>2, <1>3, <1>4 DEF IInv, ObjInv, Unborn, Settles, Answers
<1>9. WaitInv'
  BY <1>2, <1>3, <1>4 DEF IInv, WaitInv, Linked, Expects
<1> QED BY <1>5, <1>6, <1>7, <1>8, <1>9 DEF IInv

\* Giving control back: nothing but the schedule changes, except that a dead
\* coroutine that is hooked has its waiters woken next.
LEMMA LeaveEffect ==
    ASSUME IInv, NEW c \in sch.all, NEW isError \in BOOLEAN, Leave(sch', c, isError)
    PROVE  /\ failing' = isError
           /\ \/ /\ obj[c].hooked /\ IsDead(sch'.status[c]) /\ pc' = "wake" /\ cur' = c
                 /\ waking' = obj[c].wq /\ obj' = [obj EXCEPT ![c].hooked = FALSE]
              \/ /\ ~(obj[c].hooked /\ IsDead(sch'.status[c])) /\ cur' = NULL
                 /\ pc' = (IF isError THEN "thrown" ELSE "pass")
                 /\ UNCHANGED <<waking, obj>>
  BY DEF Leave

\* After that, the invariant holds if it would without the hook.
LEMMA LeaveStep ==
    ASSUME IInv, NEW c \in sch.all, NEW isError \in BOOLEAN, Leave(sch', c, isError),
           pc \in {"pass", "run"}, Sound(sch'), sch'.all = sch.all,
           \A d \in sch.all \ {c} : sch'.status[d] = sch.status[d],
           Waits(sch'.status[c]) /\ c \notin suspended' =>
               at[c].in = "await" /\ ~obj[at[c].on].have,
           suspended \ {c} \subseteq suspended',
           over' \in SUBSET Co, suspended' \in SUBSET Co,
           UNCHANGED <<at, armed, blocking, poked, reported>>
    PROVE  IInv'
<1>1. c \in Co /\ sch.all \subseteq Co /\ NULL \notin sch.all
  BY NullAssumption DEF IInv, TypeOK, Schedules
<1>2. /\ failing' = isError
      /\ \/ /\ pc' = "wake" /\ cur' = c /\ waking' = obj[c].wq
            /\ obj[c].hooked /\ IsDead(sch'.status[c])
         \/ pc' \in {"pass", "thrown"} /\ cur' = NULL /\ waking' = waking /\ obj' = obj
      /\ obj' = obj \/ (pc' = "wake" /\ obj' = [obj EXCEPT ![c].hooked = FALSE])
  BY LeaveEffect
<1>3. /\ obj' \in Objects
      /\ \A d \in Co : /\ obj'[d].life = obj[d].life /\ obj'[d].wq = obj[d].wq
                       /\ obj'[d].have = obj[d].have /\ obj'[d].out = obj[d].out
                       /\ obj'[d].hooked => obj[d].hooked
                       /\ obj[d].hooked /\ ~obj'[d].hooked => d = c /\ pc' = "wake"
  <2>1. CASE obj' = obj
    BY <2>1 DEF IInv, TypeOK, Objects
  <2>2. CASE pc' = "wake" /\ obj' = [obj EXCEPT ![c].hooked = FALSE]
    <3>1. /\ obj' \in Objects /\ ~obj'[c].hooked
          /\ \A d \in Co : d # c => obj'[d] = obj[d]
          /\ \A d \in Co : /\ obj'[d].life = obj[d].life /\ obj'[d].wq = obj[d].wq
                           /\ obj'[d].have = obj[d].have /\ obj'[d].out = obj[d].out
      BY <1>1, <2>2, Unhook DEF IInv
    <3> QED BY <2>2, <3>1
  <2> QED BY <1>2, <2>1, <2>2
<1>9. waking' \in Seq(Co)
  BY <1>1, <1>2 DEF IInv, TypeOK
<1>4. TypeOK'
  BY <1>1, <1>2, <1>3, <1>9 DEF IInv, TypeOK, Sound, Objects
<1>5. SchedInv'
  BY <1>2 DEF SchedInv, Sound
<1>6. ControlInv'
  BY <1>1, <1>2 DEF IInv, ControlInv
<1>7. ObjInv'
  BY <1>1, <1>2, <1>3 DEF IInv, ObjInv, Unborn, Settles, Answers
<1>8. WaitInv'
  <2> SUFFICES ASSUME NEW d \in sch.all PROVE Linked(d)' /\ Expects(d)'
    BY DEF WaitInv
  <2>1. d \in Co /\ (at[d].in = "await" => at[d].on \in Co)
    BY DEF IInv, TypeOK, Schedules, ControlInv
  <2>2. Linked(d) /\ Expects(d)
    BY DEF IInv, WaitInv
  <2>3. Linked(d)'
    BY <1>2, <1>3, <2>1, <2>2 DEF Linked
  <2>4. Expects(d)'
    BY <1>2, <1>3, <2>1, <2>2 DEF Linked, Expects, IsDead, Waits
  <2> QED BY <2>3, <2>4
<1> QED BY <1>4, <1>5, <1>6, <1>7, <1>8 DEF IInv

\* What Leave(s, ...) leaves in sch is s.
LEMMA LeaveIs ==
    ASSUME NEW s, NEW c, NEW isError, Leave(s, c, isError)
    PROVE  sch' = s /\ Leave(sch', c, isError)
  BY DEF Leave

\* lua_resume on a thread that is over: the coroutine fails.
LEMMA ResumeFinishedStep == ASSUME IInv, ResumeFinished PROVE IInv'
<1>1. PICK thr \in Co :
        /\ Serving(thr)
        /\ Leave(SetState(Advance(sch), thr, "error"), thr, TRUE)
  BY DEF ResumeFinished
<1>2. UNCHANGED <<at, armed, over, blocking, suspended, poked, reported>>
  BY DEF ResumeFinished
<1>3. sch' = SetState(Advance(sch), thr, "error") /\ Leave(sch', thr, TRUE)
  BY <1>1, LeaveIs
<1>4. "error" \in Status
  BY DEF Status
<1>5. pc = "pass" /\ thr \in sch.all /\ Becomes(thr, "error")
  BY <1>1, <1>3, <1>4, ServedFacts
<1>6. over' \in SUBSET Co /\ suspended' \in SUBSET Co /\ sch.status \in [Co -> Status]
  BY <1>2 DEF IInv, TypeOK, Schedules
<1>7. /\ Sound(sch') /\ sch'.all = sch.all /\ ~Waits(sch'.status[thr])
      /\ \A d \in sch.all \ {thr} : sch'.status[d] = sch.status[d]
  BY <1>1, <1>5, <1>6 DEF Becomes, Waits, IInv, TypeOK, Schedules
<1> QED BY <1>2, <1>3, <1>5, <1>6, <1>7, LeaveStep

\* Control returns to an await() that goes on waiting.
LEMMA ResumeAwaitAgainStep == ASSUME IInv, ResumeAwaitAgain PROVE IInv'
<1>1. PICK thr \in Co :
        /\ Serving(thr) /\ at[thr].in = "await" /\ ~obj[at[thr].on].have
        /\ Leave(SetState(Advance(sch), thr, "wait"), thr, FALSE)
        /\ suspended' = suspended \ {thr}
  BY DEF ResumeAwaitAgain
<1>2. UNCHANGED <<at, armed, over, blocking, poked, reported>>
  BY DEF ResumeAwaitAgain
<1>3. sch' = SetState(Advance(sch), thr, "wait") /\ Leave(sch', thr, FALSE)
  BY <1>1, LeaveIs
<1>4. "wait" \in Status
  BY DEF Status
<1>5. pc = "pass" /\ thr \in sch.all /\ Becomes(thr, "wait")
  BY <1>1, <1>3, <1>4, ServedFacts
<1>6. over' \in SUBSET Co /\ suspended' \in SUBSET Co /\ sch.status \in [Co -> Status]
  BY <1>1, <1>2 DEF IInv, TypeOK, Schedules
<1>7. /\ Sound(sch') /\ sch'.all = sch.all
      /\ \A d \in sch.all \ {thr} : sch'.status[d] = sch.status[d]
  BY <1>1, <1>5, <1>6 DEF Becomes, IInv, TypeOK, Schedules
<1> QED BY <1>1, <1>2, <1>3, <1>5, <1>6, <1>7, LeaveStep

\* The script has control.
LEMMA RunFacts ==
    ASSUME IInv, pc = "run"
    PROVE  /\ cur \in sch.all /\ cur \in Co /\ at[cur].in = "script" /\ Sound(sch)
           /\ Waits(sch.status[cur]) => cur \in suspended
<1>1. cur \in sch.all /\ at[cur].in = "script" /\ Sound(sch)
  BY DEF IInv, SchedInv, ControlInv
<1>2. cur \in Co
  BY <1>1 DEF Sound, Schedules
<1>3. Expects(cur)
  BY <1>1 DEF IInv, WaitInv
<1> QED BY <1>1, <1>2, <1>3 DEF Expects

\* A yield leaves the schedule alone.
LEMMA YieldStep == ASSUME IInv, Yield PROVE IInv'
<1>1. /\ pc = "run" /\ Leave(sch, cur, FALSE)
      /\ UNCHANGED <<at, armed, over, blocking, suspended, poked, reported>>
  BY DEF Yield, Running
<1>2. sch' = sch /\ Leave(sch', cur, FALSE)
  BY <1>1, LeaveIs
<1>3. over' \in SUBSET Co /\ suspended' \in SUBSET Co
  BY <1>1 DEF IInv, TypeOK
<1> QED BY <1>1, <1>2, <1>3, RunFacts, LeaveStep

\* A coroutine that returns or raises an error is dead.
LEMMA FinishStep == ASSUME IInv, Return \/ Error PROVE IInv'
<1>1. PICK st \in {"dead", "error"}, e \in BOOLEAN :
        Leave(SetState(sch, cur, st), cur, e)
  BY DEF Return, Error
<1>2. /\ pc = "run" /\ over' = over \cup {cur}
      /\ UNCHANGED <<at, armed, blocking, suspended, poked, reported>>
  BY DEF Return, Error, Running
<1>3. sch' = SetState(sch, cur, st) /\ Leave(sch', cur, e) /\ st \in Status /\ ~Waits(st)
  BY <1>1, LeaveIs DEF Status, Waits
<1>4. cur \in sch.all /\ cur \in Co /\ Becomes(cur, st)
  BY <1>2, <1>3, RunFacts, SetStateEffect
<1>5. over' \in SUBSET Co /\ suspended' \in SUBSET Co /\ sch.status \in [Co -> Status]
  BY <1>2, <1>4 DEF IInv, TypeOK, Schedules
<1>6. /\ Sound(sch') /\ sch'.all = sch.all /\ ~Waits(sch'.status[cur])
      /\ \A d \in sch.all \ {cur} : sch'.status[d] = sch.status[d]
  BY <1>3, <1>4, <1>5 DEF Becomes, IInv, TypeOK, Schedules
<1>7. suspended \ {cur} \subseteq suspended'
  BY <1>2
<1> QED BY <1>2, <1>3, <1>4, <1>5, <1>6, <1>7, LeaveStep

\* Control returns to the script of a coroutine that yielded or slept.
LEMMA ResumeScriptStep == ASSUME IInv, ResumeScript PROVE IInv'
<1>1. PICK thr \in Co :
        /\ Serving(thr)
        /\ at' = [at EXCEPT ![thr] = Script] /\ cur' = thr
        /\ suspended' = suspended \ {thr}
  BY DEF ResumeScript
<1>2. /\ sch' = Advance(sch) /\ pc' = "run"
      /\ UNCHANGED <<failing, waking, obj, armed, over, blocking, poked, reported>>
  BY DEF ResumeScript
<1>3. /\ pc = "pass" /\ thr \in sch.all /\ ~Waits(sch.status[thr])
      /\ Sound(sch') /\ sch'.all = sch.all /\ sch'.status = sch.status
  BY <1>1, <1>2, ServedFacts DEF KeepsStatus
<1>4. /\ at'[thr] = Script /\ \A c \in Co : c # thr => at'[c] = at[c]
      /\ at' \in [Co -> [in : {"script", "await", "sleep"}, on : Co \cup Timer \cup {NULL}]]
      /\ Script.in = "script"
  BY <1>1 DEF IInv, TypeOK, Script
<1>5. TypeOK'
  BY <1>1, <1>2, <1>3, <1>4 DEF IInv, TypeOK, Sound
<1>6. SchedInv'
  BY <1>2, <1>3 DEF SchedInv, Sound
<1>7. ControlInv'
  BY <1>1, <1>2, <1>3, <1>4 DEF IInv, ControlInv
<1>8. ObjInv'
  BY <1>1, <1>2, <1>3 DEF IInv, ObjInv, Unborn, Settles, Answers
<1>9. WaitInv'
  <2> SUFFICES ASSUME NEW c \in sch.all PROVE Linked(c)' /\ Expects(c)'
    BY <1>3 DEF WaitInv
  <2>1. c \in Co /\ Linked(c) /\ Expects(c)
    BY DEF IInv, TypeOK, Schedules, WaitInv
  <2> QED BY <1>1, <1>2, <1>3, <1>4, <2>1 DEF Linked, Expects
<1> QED BY <1>5, <1>6, <1>7, <1>8, <1>9 DEF IInv

\* Changing one wait queue in a way no pending waiter notices.
LEMMA EditQueue ==
    ASSUME TypeOK, NEW t \in Co, NEW q \in Seq(Co), obj' = [obj EXCEPT ![t].wq = q]
    PROVE  /\ obj' \in Objects
           /\ obj'[t].wq = q /\ \A d \in Co : d # t => obj'[d] = obj[d]
           /\ \A d \in Co : /\ obj'[d].life = obj[d].life /\ obj'[d].hooked = obj[d].hooked
                            /\ obj'[d].have = obj[d].have /\ obj'[d].closed = obj[d].closed
                            /\ obj'[d].out = obj[d].out
<1>1. obj \in Objects
  BY DEF TypeOK, Objects
<1>2. obj'[t] = [obj[t] EXCEPT !.wq = q] /\ \A d \in Co : d # t => obj'[d] = obj[d]
  BY <1>1 DEF Objects
<1>3. obj' \in Objects
  BY <1>1 DEF Objects
<1>4. obj'[t].wq = q
  BY <1>1, <1>2 DEF Objects
<1>5. /\ obj'[t].life = obj[t].life /\ obj'[t].hooked = obj[t].hooked
      /\ obj'[t].have = obj[t].have /\ obj'[t].closed = obj[t].closed
      /\ obj'[t].out = obj[t].out
  BY <1>1, <1>2 DEF Objects
<1> QED BY <1>2, <1>3, <1>4, <1>5

\* What awaits of t report once t has an answer.
LEMMA AwaitDoneEffect ==
    ASSUME IInv, NEW c \in Co, NEW t \in Co, AwaitDone(c, t)
    PROVE  /\ at'[c] = Script /\ \A d \in Co : d # c => at'[d] = at[d]
           /\ at' \in [Co -> [in : {"script", "await", "sleep"}, on : Co \cup Timer \cup {NULL}]]
           /\ Script.in = "script"
           /\ reported' \in [Co -> SUBSET {"ok", "error", "closed"}]
           /\ obj[t].closed \/ obj[t].have
<1>1. /\ at' = [at EXCEPT ![c] = Script]
      /\ reported' = [reported EXCEPT ![t] = @ \cup {Verdict(t)}]
      /\ obj[t].closed \/ obj[t].have
  BY DEF AwaitDone
<1>2. Verdict(t) \in {"ok", "error", "closed"}
  BY <1>1 DEF IInv, TypeOK, ObjInv, Answers, Verdict
<1>3. /\ at'[c] = Script /\ \A d \in Co : d # c => at'[d] = at[d]
      /\ at' \in [Co -> [in : {"script", "await", "sleep"}, on : Co \cup Timer \cup {NULL}]]
      /\ Script.in = "script"
  BY <1>1 DEF IInv, TypeOK, Script
<1>4. reported' \in [Co -> SUBSET {"ok", "error", "closed"}]
  BY <1>1, <1>2 DEF IInv, TypeOK
<1> QED BY <1>1, <1>3, <1>4

\* An await() that returns: of the wait queue of t only the record of the
\* coroutine that returns changes, and that only matters while t is unfinished.
LEMMA AwaitDoneStep ==
    ASSUME IInv, NEW c \in sch.all, NEW t \in Co, AwaitDone(c, t),
           NEW q \in Seq(Co), ToSet(obj[t].wq) \ {c} \subseteq ToSet(q),
           obj' = obj \/ obj' = [obj EXCEPT ![t].wq = q],
           Sound(sch'), sch'.all = sch.all, sch'.status = sch.status,
           ~Waits(sch.status[c]) \/ c \in suspended',
           pc \in {"pass", "run"}, pc' = "run", cur' = c,
           suspended' \in SUBSET Co, suspended \ {c} \subseteq suspended',
           UNCHANGED <<failing, waking, armed, over, blocking, poked>>
    PROVE  IInv'
<1>1. /\ at'[c] = Script /\ \A d \in Co : d # c => at'[d] = at[d]
      /\ at' \in [Co -> [in : {"script", "await", "sleep"}, on : Co \cup Timer \cup {NULL}]]
      /\ Script.in = "script" /\ c \in Co
      /\ reported' \in [Co -> SUBSET {"ok", "error", "closed"}]
  BY AwaitDoneEffect DEF IInv, TypeOK, Schedules
<1>2. /\ obj' \in Objects
      /\ \A d \in Co : /\ obj'[d].life = obj[d].life /\ obj'[d].hooked = obj[d].hooked
                       /\ obj'[d].have = obj[d].have /\ obj'[d].out = obj[d].out
                       /\ ToSet(obj[d].wq) \ {c} \subseteq ToSet(obj'[d].wq)
  <2>1. CASE obj' = obj
    BY <2>1 DEF IInv, TypeOK, Objects
  <2>2. CASE obj' = [obj EXCEPT ![t].wq = q]
    BY <2>2, EditQueue DEF IInv
  <2> QED BY <2>1, <2>2
<1>3. TypeOK'
  BY <1>1, <1>2 DEF IInv, TypeOK, Sound, Objects
<1>4. SchedInv'
  BY DEF SchedInv, Sound
<1>5. ControlInv'
  BY <1>1 DEF IInv, ControlInv
<1>6. ObjInv'
  <2> SUFFICES ASSUME NEW d \in Co PROVE Unborn(d)' /\ Settles(d)' /\ Answers(d)'
    BY DEF ObjInv
  <2>1. Unborn(d) /\ Settles(d) /\ Answers(d)
    BY DEF IInv, ObjInv
  <2>2. Unborn(d)'
    BY <1>1, <1>2, <2>1 DEF Unborn
  <2>3. Settles(d)' /\ Answers(d)'
    BY <1>2, <2>1 DEF Settles, Answers
  <2> QED BY <2>2, <2>3
<1>7. WaitInv'
  <2> SUFFICES ASSUME NEW d \in sch.all PROVE Linked(d)' /\ Expects(d)'
    BY DEF WaitInv
  <2>1. d \in Co /\ Linked(d) /\ Expects(d) /\ (at[d].in = "await" => at[d].on \in Co)
    BY DEF IInv, TypeOK, Schedules, WaitInv, ControlInv
  <2>2. CASE d = c
    BY <1>1, <2>2 DEF Linked, Expects
  <2>3. CASE d # c
    <3>1. at'[d] = at[d] /\ (d \in ToSet(obj[at[d].on].wq) /\ at[d].in = "await"
                                => d \in ToSet(obj'[at[d].on].wq))
      BY <1>1, <1>2, <2>1, <2>3
    <3>2. Linked(d)'
      BY <1>2, <2>1, <3>1 DEF Linked
    <3>3. Expects(d)'
      BY <1>2, <2>1, <2>3, <3>1 DEF Expects
    <3> QED BY <3>2, <3>3
  <2> QED BY <2>2, <2>3
<1> QED BY <1>3, <1>4, <1>5, <1>6, <1>7 DEF IInv

\* Control returns to an await() that has an answer.
LEMMA ResumeAwaitDoneStep == ASSUME IInv, ResumeAwaitDone PROVE IInv'
<1>1. PICK thr \in Co :
        /\ Serving(thr) /\ at[thr].in = "await"
        /\ AwaitDone(thr, at[thr].on)
        /\ obj' = IF obj[at[thr].on].closed THEN obj
                  ELSE [obj EXCEPT ![at[thr].on].wq = Erase(@, thr)]
        /\ cur' = thr
        /\ suspended' = suspended \ {thr}
  BY DEF ResumeAwaitDone
<1>2. /\ sch' = Advance(sch) /\ pc' = "run"
      /\ UNCHANGED <<failing, waking, armed, over, blocking, poked>>
  BY DEF ResumeAwaitDone
<1>3. /\ pc = "pass" /\ thr \in sch.all /\ ~Waits(sch.status[thr])
      /\ Sound(sch') /\ sch'.all = sch.all /\ sch'.status = sch.status
  BY <1>1, <1>2, ServedFacts DEF KeepsStatus
<1> DEFINE t == at[thr].on
           q == Erase(obj[t].wq, thr)
<1>4. t \in Co /\ obj[t].wq \in Seq(Co)
  BY <1>1 DEF IInv, TypeOK, ControlInv
<1>5. q \in Seq(Co) /\ ToSet(obj[t].wq) \ {thr} \subseteq ToSet(q)
  BY <1>4, EraseAny
<1>6. obj' = obj \/ obj' = [obj EXCEPT ![t].wq = q]
  BY <1>1
<1>7. AwaitDone(thr, t) /\ suspended' \in SUBSET Co /\ suspended \ {thr} \subseteq suspended'
  BY <1>1 DEF IInv, TypeOK
<1> HIDE DEF q, t
<1> QED BY <1>1, <1>2, <1>3, <1>4, <1>5, <1>6, <1>7, AwaitDoneStep

\* An await() with an answer at hand returns at once.
LEMMA AwaitNowStep == ASSUME IInv, NEW t \in Co, AwaitNow(t) PROVE IInv'
<1>1. /\ pc = "run" /\ AwaitDone(cur, t)
      /\ obj' = IF obj[t].closed THEN [obj EXCEPT ![t].wq = Append(@, cur)] ELSE obj
      /\ UNCHANGED <<sch, pc, cur, failing, waking, armed, over, blocking, suspended, poked>>
  BY DEF AwaitNow, Running
<1>2. /\ cur \in sch.all /\ cur \in Co /\ Sound(sch')
      /\ ~Waits(sch.status[cur]) \/ cur \in suspended'
  BY <1>1, RunFacts
<1> DEFINE q == Append(obj[t].wq, cur)
<1>3. q \in Seq(Co) /\ ToSet(obj[t].wq) \ {cur} \subseteq ToSet(q)
  BY <1>2, AppendNode DEF IInv, TypeOK
<1>4. obj' = obj \/ obj' = [obj EXCEPT ![t].wq = q]
  BY <1>1
<1>5. suspended' \in SUBSET Co
  BY <1>1 DEF IInv, TypeOK
<1> HIDE DEF q
<1> QED BY <1>1, <1>2, <1>3, <1>4, <1>5, AwaitDoneStep

\* A coroutine that blocks, for a reason of its own, hands control back.
LEMMA BlockStep ==
    ASSUME IInv, pc = "run", sch' = SetState(sch, cur, "wait"),
           NEW place \in [in : {"await", "sleep"}, on : Co \cup Timer],
           at' = [at EXCEPT ![cur] = place],
           place.in = "await" => /\ place.on \in Co /\ obj[place.on].life = "live"
                                 /\ ~obj[place.on].have
                                 /\ cur \in ToSet(obj'[place.on].wq),
           place.in = "sleep" => place.on \in Timer /\ armed'[place.on] = cur,
           obj' \in Objects,
           \A d \in Co : /\ obj'[d].life = obj[d].life /\ obj'[d].hooked = obj[d].hooked
                         /\ obj'[d].have = obj[d].have /\ obj'[d].out = obj[d].out
                         /\ ToSet(obj[d].wq) \subseteq ToSet(obj'[d].wq),
           armed' \in [Timer -> Co \cup {NULL}],
           \A k \in Timer : armed'[k] = armed[k] \/ armed[k] = NULL,
           poked' \in SUBSET Co, pc' = "pass", cur' = NULL,
           UNCHANGED <<failing, waking, over, blocking, suspended, reported>>
    PROVE  IInv'
<1>1. cur \in sch.all /\ cur \in Co /\ "wait" \in Status /\ Sound(sch)
  BY RunFacts DEF Status
<1>2. Becomes(cur, "wait")
  BY <1>1, SetStateEffect
<1>3. /\ Sound(sch') /\ sch'.all = sch.all /\ sch' \in Schedules /\ QueuesMatch(sch')
      /\ \A d \in sch.all \ {cur} : sch'.status[d] = sch.status[d]
  BY <1>2 DEF Becomes, IInv, TypeOK, Schedules, Sound
<1>4. /\ at'[cur] = place /\ \A d \in Co : d # cur => at'[d] = at[d]
      /\ at' \in [Co -> [in : {"script", "await", "sleep"}, on : Co \cup Timer \cup {NULL}]]
  BY <1>1 DEF IInv, TypeOK
<1>5. TypeOK'
  BY <1>3, <1>4 DEF IInv, TypeOK, Objects
<1>6. SchedInv'
  BY <1>3 DEF SchedInv
<1>7. ControlInv'
  BY <1>4 DEF IInv, ControlInv
<1>8. ObjInv'
  <2> SUFFICES ASSUME NEW d \in Co PROVE Unborn(d)' /\ Settles(d)' /\ Answers(d)'
    BY DEF ObjInv
  <2>1. Unborn(d) /\ Settles(d) /\ Answers(d)
    BY DEF IInv, ObjInv
  <2>2. Unborn(d)'
    BY <1>1, <1>3, <1>4, <2>1 DEF Unborn
  <2>3. Settles(d)' /\ Answers(d)'
    BY <1>3, <2>1 DEF Settles, Answers
  <2> QED BY <2>2, <2>3
<1>9. WaitInv'
  <2> SUFFICES ASSUME NEW d \in sch.all PROVE Linked(d)' /\ Expects(d)'
    BY <1>3 DEF WaitInv
  <2>1. /\ d \in Co /\ Linked(d) /\ Expects(d) /\ NULL \notin Co
        /\ at[d].in = "await" => at[d].on \in Co
        /\ at[d].in = "sleep" => at[d].on \in Timer
    BY NullAssumption DEF IInv, TypeOK, Schedules, WaitInv, ControlInv
  <2>2. CASE d = cur
    <3>1. Linked(d)'
      BY <1>1, <1>4, <2>2 DEF Linked
    <3>2. Expects(d)'
      BY <1>1, <1>4, <2>2 DEF Expects
    <3> QED BY <3>1, <3>2
  <2>3. CASE d # cur
    <3>1. at'[d] = at[d] /\ sch'.status[d] = sch.status[d]
      BY <1>3, <1>4, <2>1, <2>3
    <3>2. Linked(d)'
      BY <2>1, <3>1 DEF Linked
    <3>3. Expects(d)'
      BY <2>1, <3>1 DEF Expects
    <3> QED BY <3>2, <3>3
  <2> QED BY <2>2, <2>3
<1> QED BY <1>5, <1>6, <1>7, <1>8, <1>9 DEF IInv

\* await() without an answer links the caller before it blocks.
LEMMA AwaitBlocksStep == ASSUME IInv, NEW t \in Co, AwaitBlocks(t) PROVE IInv'
<1> DEFINE q == Append(obj[t].wq, cur)
<1>1. /\ pc = "run" /\ obj[t].life = "live" /\ ~obj[t].have
      /\ obj' = [obj EXCEPT ![t].wq = q]
      /\ at' = [at EXCEPT ![cur] = Awaiting(t)]
      /\ sch' = SetState(sch, cur, "wait") /\ pc' = "pass" /\ cur' = NULL
      /\ UNCHANGED <<failing, waking, armed, over, blocking, suspended, poked, reported>>
  BY DEF AwaitBlocks, Awaitable, Running
<1>2. q \in Seq(Co) /\ ToSet(q) = ToSet(obj[t].wq) \cup {cur}
  BY <1>1, RunFacts, AppendNode DEF IInv, TypeOK
<1> HIDE DEF q
<1>3. /\ obj' \in Objects /\ obj'[t].wq = q /\ \A d \in Co : d # t => obj'[d] = obj[d]
      /\ \A d \in Co : /\ obj'[d].life = obj[d].life /\ obj'[d].hooked = obj[d].hooked
                       /\ obj'[d].have = obj[d].have /\ obj'[d].out = obj[d].out
  BY <1>1, <1>2, EditQueue DEF IInv
<1>4. /\ \A d \in Co : ToSet(obj[d].wq) \subseteq ToSet(obj'[d].wq)
      /\ cur \in ToSet(obj'[t].wq)
  BY <1>2, <1>3
<1>5. /\ Awaiting(t) \in [in : {"await", "sleep"}, on : Co \cup Timer]
      /\ Awaiting(t).in = "await" /\ Awaiting(t).on = t
  BY DEF Awaiting
<1>6. armed' \in [Timer -> Co \cup {NULL}] /\ poked' \in SUBSET Co
  BY <1>1 DEF IInv, TypeOK
<1> QED BY <1>1, <1>3, <1>4, <1>5, <1>6, BlockStep

\* auto.sleep() arms its timer before it blocks.
LEMMA SleepStep == ASSUME IInv, NEW k \in Timer, Sleep(k) PROVE IInv'
<1>1. /\ pc = "run" /\ armed[k] = NULL /\ armed' = [armed EXCEPT ![k] = cur]
      /\ at' = [at EXCEPT ![cur] = Sleeping(k)]
      /\ sch' = SetState(sch, cur, "wait") /\ pc' = "pass" /\ cur' = NULL
      /\ poked' = poked \ {cur}
      /\ UNCHANGED <<failing, waking, obj, over, blocking, suspended, reported>>
  BY DEF Sleep, Running
<1>2. cur \in Co
  BY <1>1, RunFacts
<1>3. /\ armed' \in [Timer -> Co \cup {NULL}] /\ poked' \in SUBSET Co
      /\ armed'[k] = cur /\ \A j \in Timer : armed'[j] = armed[j] \/ armed[j] = NULL
  BY <1>1, <1>2 DEF IInv, TypeOK
<1>4. /\ Sleeping(k) \in [in : {"await", "sleep"}, on : Co \cup Timer]
      /\ Sleeping(k).in = "sleep" /\ Sleeping(k).on = k
  BY DEF Sleeping
<1>5. obj' \in Objects
  BY <1>1 DEF IInv, TypeOK, Objects
<1> QED BY <1>1, <1>3, <1>4, <1>5, BlockStep

\* The end of a pass: uv_run may block only when nobody is runnable.
LEMMA EndPassStep == ASSUME IInv, EndPass PROVE IInv'
<1>1. /\ pc = "pass"
      /\ \/ sch.all = {} /\ pc' = "returned" /\ blocking' = blocking
         \/ sch.all # {} /\ pc' = "poll" /\ blocking' = (sch.busy = <<>>)
      /\ UNCHANGED <<sch, cur, failing, waking, obj, at, armed, over,
                     suspended, poked, reported>>
  BY DEF EndPass
<1>2. blocking' \in BOOLEAN
  BY <1>1 DEF IInv, TypeOK
<1>3. TypeOK'
  BY <1>1, <1>2 DEF IInv, TypeOK
<1>4. SchedInv'
  BY <1>1 DEF IInv, SchedInv
<1>5. ControlInv'
  BY <1>1 DEF IInv, ControlInv
<1>6. ObjInv'
  BY <1>1 DEF IInv, ObjInv, Unborn, Settles, Answers
<1>7. WaitInv'
  BY <1>1 DEF IInv, WaitInv, Linked, Expects
<1> QED BY <1>3, <1>4, <1>5, <1>6, <1>7 DEF IInv

\* A timer that fires wakes the coroutine it was armed for, and only that one.
LEMMA TimerFiresStep == ASSUME IInv, NEW k \in Timer, TimerFires(k) PROVE IInv'
<1> DEFINE c == armed[k]
<1>1. /\ pc = "poll" /\ c # NULL /\ armed' = [armed EXCEPT ![k] = NULL] /\ ~blocking'
      /\ poked' = (IF at[c] = Sleeping(k) THEN poked \cup {c} ELSE poked)
      /\ IF c \in sch.all
         THEN sch' = SetState(sch, c, "busy") /\ pc' = pc
         ELSE pc' = "ub" /\ UNCHANGED sch
      /\ UNCHANGED <<cur, failing, waking, obj, at, over, suspended, reported>>
      /\ blocking' \in BOOLEAN
  BY DEF TimerFires
<1>2. c \in Co /\ Sound(sch) /\ "busy" \in Status
  BY <1>1 DEF IInv, TypeOK, SchedInv, Status
<1>3. /\ armed'[k] = NULL /\ \A j \in Timer : j # k => armed'[j] = armed[j]
      /\ armed' \in [Timer -> Co \cup {NULL}] /\ poked' \in SUBSET Co
  BY <1>1, <1>2 DEF IInv, TypeOK
<1>11. armed[k] = c
  OBVIOUS
<1> HIDE DEF c
<1>4. \/ c \in sch.all /\ Becomes(c, "busy") /\ pc' = "poll"
      \/ c \notin sch.all /\ KeepsStatus /\ pc' = "ub"
  BY <1>1, <1>2, SetStateEffect DEF KeepsStatus
<1>5. /\ Sound(sch') /\ sch'.all = sch.all
      /\ \A d \in sch.all \ {c} : sch'.status[d] = sch.status[d]
      /\ c \in sch.all => ~Waits(sch'.status[c])
  BY <1>2, <1>4 DEF Becomes, KeepsStatus, IInv, TypeOK, Schedules, Waits
<1>6. TypeOK'
  BY <1>1, <1>3, <1>4, <1>5 DEF IInv, TypeOK, Sound
<1>7. SchedInv'
  BY <1>4, <1>5 DEF SchedInv, Sound
<1>8. ControlInv'
  BY <1>1, <1>4, <1>5 DEF IInv, ControlInv
<1>9. ObjInv'
  BY <1>1, <1>4, <1>5 DEF IInv, ObjInv, Unborn, Settles, Answers
<1>10. WaitInv'
  <2> SUFFICES ASSUME NEW d \in sch.all PROVE Linked(d)' /\ Expects(d)'
    BY <1>5 DEF WaitInv
  <2>1. /\ d \in Co /\ Linked(d) /\ Expects(d) /\ NULL \notin Co
        /\ at[d].in = "sleep" => at[d].on \in Timer
    BY NullAssumption DEF IInv, TypeOK, Schedules, WaitInv, ControlInv
  <2>2. Linked(d)'
    BY <1>1, <2>1 DEF Linked
  <2>3. CASE d = c
    <3>1. ~Waits(sch'.status[d])
      BY <1>5, <2>3
    <3> QED BY <2>2, <3>1 DEF Expects
  <2>4. CASE d # c
    <3>1. at[d].in = "sleep" /\ armed[at[d].on] = d => armed'[at[d].on] = d
      BY <1>11, <1>3, <2>1, <2>4
    <3>2. sch'.status[d] = sch.status[d] /\ pc' # "wake" /\ pc # "wake"
      BY <1>1, <1>4, <1>5, <2>4
    <3>3. Expects(d)'
      BY <1>1, <2>1, <3>1, <3>2 DEF Expects
    <3> QED BY <2>2, <3>3
  <2> QED BY <2>2, <2>3, <2>4
<1> QED BY <1>6, <1>7, <1>8, <1>9, <1>10 DEF IInv

\* A new pass.
LEMMA PollReturnStep == ASSUME IInv, PollReturn PROVE IInv'
<1>1. /\ pc = "poll" /\ pc' = "pass" /\ sch' = StartIteration(sch)
      /\ UNCHANGED <<cur, failing, waking, obj, at, armed, over, blocking,
                     suspended, poked, reported>>
  BY DEF PollReturn
<1>2. Sound(sch') /\ sch'.all = sch.all /\ sch'.status = sch.status
  BY <1>1, StartIterationSound DEF IInv, SchedInv
<1>3. TypeOK'
  BY <1>1, <1>2 DEF IInv, TypeOK, Sound
<1>4. SchedInv'
  BY <1>1, <1>2 DEF SchedInv, Sound
<1>5. ControlInv'
  BY <1>1 DEF IInv, ControlInv
<1>6. ObjInv'
  BY <1>1, <1>2 DEF IInv, ObjInv, Unborn, Settles, Answers
<1>7. WaitInv'
  BY <1>1, <1>2 DEF IInv, WaitInv, Linked, Expects
<1> QED BY <1>3, <1>4, <1>5, <1>6, <1>7 DEF IInv

\* Unhooking every object.
LEMMA UnhookAll ==
    ASSUME TypeOK, obj' = [c \in Co |-> [obj[c] EXCEPT !.hooked = FALSE]]
    PROVE  /\ obj' \in Objects
           /\ \A c \in Co : /\ ~obj'[c].hooked /\ obj'[c].life = obj[c].life
                            /\ obj'[c].wq = obj[c].wq /\ obj'[c].have = obj[c].have
                            /\ obj'[c].closed = obj[c].closed /\ obj'[c].out = obj[c].out
<1>1. obj \in Objects /\ \A c \in Co : obj'[c] = [obj[c] EXCEPT !.hooked = FALSE]
  BY DEF TypeOK, Objects
<1>2. \A c \in Co : /\ ~obj'[c].hooked /\ obj'[c].life = obj[c].life
                    /\ obj'[c].wq = obj[c].wq /\ obj'[c].have = obj[c].have
                    /\ obj'[c].closed = obj[c].closed /\ obj'[c].out = obj[c].out
  BY <1>1 DEF Objects
<1>3. ASSUME NEW c \in Co
      PROVE  obj'[c] \in [life : {"none", "live", "collected"}, hooked : BOOLEAN,
                          wq : Seq(Co), have : BOOLEAN, closed : BOOLEAN,
                          out : {"pending", "ok", "error"}]
  BY <1>1 DEF Objects
<1>4. obj' = [c \in Co |-> obj'[c]]
  OBVIOUS
<1>5. obj' \in Objects
  BY <1>3, <1>4 DEF Objects
<1> QED BY <1>2, <1>5

\* lua_close leaves no coroutine, no hook and no timer.
LEMMA ShutdownStep == ASSUME IInv, Shutdown PROVE IInv'
<1>1. /\ pc \in {"returned", "thrown"} /\ pc' = "closed"
      /\ sch' = [sch EXCEPT !.all = {}, !.busy = <<>>, !.wait = <<>>]
      /\ obj' = [c \in Co |-> [obj[c] EXCEPT !.hooked = FALSE]]
      /\ armed' = [k \in Timer |-> NULL]
      /\ UNCHANGED <<cur, failing, waking, at, over, blocking, suspended, poked, reported>>
  BY DEF Shutdown
<1>2. sch' \in Schedules /\ QueuesMatch(sch') /\ sch'.all = {}
  BY <1>1, ReleaseSound DEF IInv, TypeOK
<1>3. /\ obj' \in Objects
      /\ \A c \in Co : /\ ~obj'[c].hooked /\ obj'[c].life = obj[c].life
                       /\ obj'[c].have = obj[c].have /\ obj'[c].out = obj[c].out
  BY <1>1, UnhookAll DEF IInv
<1>5. TypeOK'
  <2>1. armed' \in [Timer -> Co \cup {NULL}]
    BY <1>1
  <2> QED BY <1>1, <1>2, <1>3, <2>1 DEF IInv, TypeOK, Objects
<1>6. SchedInv'
  BY <1>1, <1>2 DEF SchedInv
<1>7. ControlInv'
  BY <1>1 DEF IInv, ControlInv
<1>8. ObjInv'
  <2>1. ASSUME NEW c \in Co PROVE Unborn(c)' /\ Settles(c)'
    BY <1>1, <1>2, <1>3 DEF IInv, ObjInv, Unborn, Settles
  <2>2. \A c \in Co : Answers(c)'
    BY <1>3 DEF IInv, ObjInv, Answers
  <2> QED BY <2>1, <2>2 DEF ObjInv
<1>9. WaitInv'
  BY <1>2 DEF WaitInv
<1> QED BY <1>5, <1>6, <1>7, <1>8, <1>9 DEF IInv

\* Creating or collecting an object.
LEMMA SetLife ==
    ASSUME TypeOK, NEW c \in Co, NEW life \in {"none", "live", "collected"}, NEW hk \in BOOLEAN,
           obj' = [obj EXCEPT ![c].life = life, ![c].hooked = hk]
    PROVE  /\ obj' \in Objects
           /\ obj'[c].life = life /\ obj'[c].hooked = hk
           /\ \A d \in Co : d # c => obj'[d] = obj[d]
           /\ \A d \in Co : /\ obj'[d].wq = obj[d].wq /\ obj'[d].have = obj[d].have
                            /\ obj'[d].closed = obj[d].closed /\ obj'[d].out = obj[d].out
<1> DEFINE o == [obj EXCEPT ![c].life = life]
<1>1. obj \in Objects
  BY DEF TypeOK, Objects
<1>2. obj' = [o EXCEPT ![c].hooked = hk]
  OBVIOUS
<1>3. /\ o \in Objects /\ o[c] = [obj[c] EXCEPT !.life = life]
      /\ \A d \in Co : d # c => o[d] = obj[d]
  BY <1>1 DEF Objects
<1> HIDE DEF o
<1>4. obj'[c] = [o[c] EXCEPT !.hooked = hk] /\ \A d \in Co : d # c => obj'[d] = o[d]
  BY <1>2, <1>3 DEF Objects
<1>5. obj' \in Objects
  BY <1>2, <1>3, HookedType
<1>6. obj'[c].life = life
  BY <1>1, <1>3, <1>4 DEF Objects
<1>7. obj'[c].hooked = hk
  BY <1>1, <1>3, <1>4 DEF Objects
<1>8. /\ obj'[c].wq = obj[c].wq /\ obj'[c].have = obj[c].have
      /\ obj'[c].closed = obj[c].closed /\ obj'[c].out = obj[c].out
  BY <1>1, <1>3, <1>4 DEF Objects
<1> QED BY <1>3, <1>4, <1>5, <1>6, <1>7, <1>8

\* auto.coroutine() adds a runnable coroutine and a hooked object.
LEMMA SpawnStep == ASSUME IInv, NEW c \in Co, Spawn(c) PROVE IInv'
<1>1. /\ pc = "run" /\ obj[c].life = "none" /\ c # Main /\ sch' = Host(sch, c)
      /\ obj' = [obj EXCEPT ![c].life = "live", ![c].hooked = TRUE]
      /\ UNCHANGED <<pc, cur, failing, waking, at, armed, over, blocking,
                     suspended, poked, reported>>
  BY DEF Spawn, Running
<1>2. c \notin sch.all /\ Sound(sch) /\ cur \in sch.all
  BY <1>1 DEF IInv, SchedInv, ControlInv, ObjInv, Unborn
<1>3. /\ Sound(sch') /\ sch'.all = sch.all \cup {c}
      /\ sch'.status = [sch.status EXCEPT ![c] = "busy"]
  BY <1>1, <1>2, HostSound
<1>4. /\ \A d \in sch.all : sch'.status[d] = sch.status[d]
      /\ ~Waits(sch'.status[c])
  BY <1>2, <1>3 DEF IInv, TypeOK, Schedules, Waits
<1>5. /\ obj' \in Objects /\ obj'[c].life = "live" /\ obj'[c].hooked = TRUE
      /\ \A d \in Co : d # c => obj'[d] = obj[d]
      /\ \A d \in Co : /\ obj'[d].wq = obj[d].wq /\ obj'[d].have = obj[d].have
                       /\ obj'[d].out = obj[d].out
  BY <1>1, SetLife DEF IInv
<1>6. TypeOK'
  BY <1>1, <1>3, <1>5 DEF IInv, TypeOK, Objects, Sound
<1>7. SchedInv'
  BY <1>1, <1>3 DEF SchedInv, Sound
<1>8. ControlInv'
  BY <1>1, <1>3 DEF IInv, ControlInv
<1>9. ObjInv'
  <2> SUFFICES ASSUME NEW d \in Co PROVE Unborn(d)' /\ Settles(d)' /\ Answers(d)'
    BY DEF ObjInv
  <2>1. Unborn(d) /\ Settles(d) /\ Answers(d)
    BY DEF IInv, ObjInv
  <2>2. Unborn(d)'
    BY <1>1, <1>3, <1>5, <2>1 DEF Unborn
  <2>3. Settles(d)'
    BY <1>1, <1>3, <1>5, <2>1 DEF Settles
  <2>4. Answers(d)'
    BY <1>5, <2>1 DEF Answers
  <2> QED BY <2>2, <2>3, <2>4
<1>10. WaitInv'
  <2> SUFFICES ASSUME NEW d \in sch'.all PROVE Linked(d)' /\ Expects(d)'
    BY DEF WaitInv
  <2>1. CASE d = c
    <3>1. at[c].in # "await"
      BY <1>1 DEF IInv, ObjInv, Unborn, Settles, Answers
    <3> QED BY <1>1, <1>4, <2>1, <3>1 DEF Linked, Expects
  <2>2. CASE d # c
    <3>1. d \in sch.all /\ d \in Co
      BY <1>3, <2>2 DEF IInv, TypeOK, Schedules
    <3>2. Linked(d) /\ Expects(d) /\ (at[d].in = "await" => at[d].on \in Co)
      BY <3>1 DEF IInv, WaitInv, ControlInv
    <3>3. Linked(d)'
      BY <1>1, <1>5, <3>2 DEF Linked
    <3>4. Expects(d)'
      BY <1>1, <1>4, <1>5, <3>1, <3>2 DEF Expects
    <3> QED BY <3>3, <3>4
  <2> QED BY <2>1, <2>2
<1> QED BY <1>6, <1>7, <1>8, <1>9, <1>10 DEF IInv

\* suspend(), resume() and close() set the state of t through its handle; what
\* else they change is what a waiting t must not depend on.
LEMMA SetTargetStep ==
    ASSUME IInv, pc = "run", NEW t \in Co, NEW st \in Status, SetTarget(t, st),
           Waits(st) => t \in suspended',
           suspended \ {t} \subseteq suspended', suspended' \in SUBSET Co,
           poked' \in SUBSET Co, obj' \in Objects,
           \A d \in Co : /\ obj'[d].life = obj[d].life /\ obj'[d].hooked = obj[d].hooked
                         /\ obj'[d].wq = obj[d].wq /\ obj'[d].have = obj[d].have
                         /\ obj'[d].out = obj[d].out,
           UNCHANGED <<cur, failing, waking, at, armed, over, blocking, reported>>
    PROVE  IInv'
<1>1. cur \in sch.all /\ cur \in Co /\ Sound(sch)
  BY RunFacts
<1>2. \/ t \in sch.all /\ Becomes(t, st) /\ pc' = "run"
      \/ t \notin sch.all /\ KeepsStatus /\ pc' = "ub"
  BY <1>1, SetStateEffect DEF SetTarget, KeepsStatus
<1>3. /\ Sound(sch') /\ sch'.all = sch.all
      /\ \A d \in sch.all \ {t} : sch'.status[d] = sch.status[d]
      /\ t \in sch.all => sch'.status[t] = st
  BY <1>2 DEF Becomes, KeepsStatus, IInv, TypeOK, Schedules
<1>4. TypeOK'
  BY <1>2, <1>3 DEF IInv, TypeOK, Objects, Sound
<1>5. SchedInv'
  BY <1>2, <1>3 DEF SchedInv, Sound
<1>6. ControlInv'
  BY <1>1, <1>2, <1>3 DEF IInv, ControlInv
<1>7. ObjInv'
  <2> SUFFICES ASSUME NEW d \in Co PROVE Unborn(d)' /\ Settles(d)' /\ Answers(d)'
    BY DEF ObjInv
  <2>1. Unborn(d) /\ Settles(d) /\ Answers(d)
    BY DEF IInv, ObjInv
  <2>2. Unborn(d)' /\ Settles(d)' /\ Answers(d)'
    BY <1>2, <1>3, <2>1 DEF Unborn, Settles, Answers
  <2> QED BY <2>2
<1>8. WaitInv'
  <2> SUFFICES ASSUME NEW d \in sch.all PROVE Linked(d)' /\ Expects(d)'
    BY <1>3 DEF WaitInv
  <2>1. d \in Co /\ Linked(d) /\ Expects(d) /\ (at[d].in = "await" => at[d].on \in Co)
    BY DEF IInv, TypeOK, Schedules, WaitInv, ControlInv
  <2>2. Linked(d)'
    BY <2>1 DEF Linked
  <2>3. Expects(d)'
    BY <1>2, <1>3, <2>1 DEF Expects
  <2> QED BY <2>2, <2>3
<1> QED BY <1>4, <1>5, <1>6, <1>7, <1>8 DEF IInv

\* suspend() makes t wait, and remembers that a script did.
LEMMA SuspendStep == ASSUME IInv, NEW t \in Co, Suspend(t) PROVE IInv'
<1>1. /\ pc = "run" /\ SetTarget(t, "wait") /\ suspended' = suspended \cup {t}
      /\ UNCHANGED <<cur, failing, waking, obj, at, armed, over, blocking, poked, reported>>
  BY DEF Suspend, Running
<1>2. suspended' \in SUBSET Co /\ poked' \in SUBSET Co /\ obj' \in Objects /\ "wait" \in Status
  BY <1>1 DEF IInv, TypeOK, Objects, Status
<1> QED BY <1>1, <1>2, SetTargetStep

\* resume() makes t runnable, whatever it waited for.
LEMMA ResumeStep == ASSUME IInv, NEW t \in Co, Resume(t) PROVE IInv'
<1>1. /\ pc = "run" /\ SetTarget(t, "busy") /\ suspended' = suspended \ {t}
      /\ poked' = poked \/ poked' = poked \cup {t}
      /\ UNCHANGED <<cur, failing, waking, obj, at, armed, over, blocking, reported>>
  BY DEF Resume, Running
<1>2. /\ suspended' \in SUBSET Co /\ poked' \in SUBSET Co /\ obj' \in Objects
      /\ "busy" \in Status /\ ~Waits("busy")
  BY <1>1 DEF IInv, TypeOK, Objects, Status, Waits
<1> QED BY <1>1, <1>2, SetTargetStep

\* Closing one object.
LEMMA SetClosed ==
    ASSUME TypeOK, NEW c \in Co, obj' = [obj EXCEPT ![c].closed = TRUE]
    PROVE  /\ obj' \in Objects
           /\ obj'[c].closed
           /\ \A d \in Co : d # c => obj'[d] = obj[d]
           /\ \A d \in Co : /\ obj'[d].life = obj[d].life /\ obj'[d].hooked = obj[d].hooked
                            /\ obj'[d].wq = obj[d].wq /\ obj'[d].have = obj[d].have
                            /\ obj'[d].out = obj[d].out
<1>1. obj \in Objects
  BY DEF TypeOK, Objects
<1>2. obj'[c] = [obj[c] EXCEPT !.closed = TRUE] /\ \A d \in Co : d # c => obj'[d] = obj[d]
  BY <1>1 DEF Objects
<1>3. obj' \in Objects
  BY <1>1 DEF Objects
<1>4. obj'[c].closed
  BY <1>1, <1>2 DEF Objects
<1>5. /\ obj'[c].life = obj[c].life /\ obj'[c].hooked = obj[c].hooked
      /\ obj'[c].wq = obj[c].wq /\ obj'[c].have = obj[c].have
      /\ obj'[c].out = obj[c].out
  BY <1>1, <1>2 DEF Objects
<1> QED BY <1>2, <1>3, <1>4, <1>5

\* close() makes t dead.
LEMMA CloseStep == ASSUME IInv, NEW t \in Co, Close(t) PROVE IInv'
<1>1. /\ pc = "run" /\ SetTarget(t, "dead") /\ obj' = [obj EXCEPT ![t].closed = TRUE]
      /\ UNCHANGED <<cur, failing, waking, at, armed, over, blocking, suspended, poked, reported>>
  BY DEF Close, Running
<1>2. /\ obj' \in Objects
      /\ \A d \in Co : /\ obj'[d].life = obj[d].life /\ obj'[d].hooked = obj[d].hooked
                       /\ obj'[d].wq = obj[d].wq /\ obj'[d].have = obj[d].have
                       /\ obj'[d].out = obj[d].out
  BY <1>1, SetClosed DEF IInv
<1>3. /\ suspended' \in SUBSET Co /\ poked' \in SUBSET Co
      /\ "dead" \in Status /\ ~Waits("dead")
  BY <1>1 DEF IInv, TypeOK, Status, Waits
<1> QED BY <1>1, <1>2, <1>3, SetTargetStep

\* Only an object nobody waits for is collected.
LEMMA CollectObjectStep == ASSUME IInv, NEW t \in Co, CollectObject(t) PROVE IInv'
<1>1. /\ pc = "run" /\ obj[t].life = "live" /\ \A c \in sch.all : at[c] # Awaiting(t)
      /\ obj' = [obj EXCEPT ![t].life = "collected", ![t].hooked = FALSE]
      /\ UNCHANGED <<sch, pc, cur, failing, waking, at, armed, over, blocking,
                     suspended, poked, reported>>
  BY DEF CollectObject, Running
<1>2. /\ obj' \in Objects /\ obj'[t].life = "collected" /\ obj'[t].hooked = FALSE
      /\ \A d \in Co : d # t => obj'[d] = obj[d]
      /\ \A d \in Co : /\ obj'[d].wq = obj[d].wq /\ obj'[d].have = obj[d].have
                       /\ obj'[d].out = obj[d].out
  BY <1>1, SetLife DEF IInv
<1>3. TypeOK'
  BY <1>1, <1>2 DEF IInv, TypeOK, Objects
<1>4. SchedInv'
  BY <1>1 DEF IInv, SchedInv
<1>5. ControlInv'
  BY <1>1 DEF IInv, ControlInv
<1>6. ObjInv'
  <2> SUFFICES ASSUME NEW d \in Co PROVE Unborn(d)' /\ Settles(d)' /\ Answers(d)'
    BY DEF ObjInv
  <2>1. Unborn(d) /\ Settles(d) /\ Answers(d)
    BY DEF IInv, ObjInv
  <2>2. Unborn(d)' /\ Answers(d)'
    BY <1>1, <1>2, <2>1 DEF Unborn, Answers
  <2>3. Settles(d)'
    BY <1>1, <1>2, <2>1 DEF Settles
  <2> QED BY <2>2, <2>3
<1>7. WaitInv'
  <2> SUFFICES ASSUME NEW d \in sch.all PROVE Linked(d)' /\ Expects(d)'
    BY <1>1 DEF WaitInv
  <2>1. /\ d \in Co /\ Linked(d) /\ Expects(d)
        /\ at[d].in = "await" => at[d].on \in Co
    BY DEF IInv, TypeOK, Schedules, WaitInv, ControlInv
  <2>2. at[d].in = "await" => at[d].on # t
    BY <1>1, <2>1, PlaceOf DEF IInv
  <2>3. Linked(d)'
    BY <1>1, <1>2, <2>1, <2>2 DEF Linked
  <2>4. Expects(d)'
    BY <1>1, <1>2, <2>1, <2>2 DEF Expects
  <2> QED BY <2>3, <2>4
<1> QED BY <1>3, <1>4, <1>5, <1>6, <1>7 DEF IInv

\* Only a timer nobody sleeps on is collected.
LEMMA CollectTimerStep == ASSUME IInv, NEW k \in Timer, CollectTimer(k) PROVE IInv'
<1>1. /\ pc = "run" /\ armed[k] # NULL
      /\ armed[k] \in sch.all => at[armed[k]] # Sleeping(k)
      /\ armed' = [armed EXCEPT ![k] = NULL]
      /\ UNCHANGED <<sch, pc, cur, failing, waking, obj, at, over, blocking,
                     suspended, poked, reported>>
  BY DEF CollectTimer, Running
<1>2. TypeOK'
  BY <1>1 DEF IInv, TypeOK
<1>3. SchedInv'
  BY <1>1 DEF IInv, SchedInv
<1>4. ControlInv'
  BY <1>1 DEF IInv, ControlInv
<1>5. ObjInv'
  BY <1>1 DEF IInv, ObjInv, Unborn, Settles, Answers
<1>6. WaitInv'
  <2> SUFFICES ASSUME NEW d \in sch.all PROVE Linked(d)' /\ Expects(d)'
    BY <1>1 DEF WaitInv
  <2>1. /\ d \in Co /\ Linked(d) /\ Expects(d)
        /\ at[d].in = "sleep" => at[d].on \in Timer
    BY DEF IInv, TypeOK, Schedules, WaitInv, ControlInv
  <2>2. at[d].in = "sleep" /\ armed[at[d].on] = d => at[d].on # k
    BY <1>1, <2>1, PlaceOf DEF IInv
  <2>3. at[d].in = "sleep" /\ armed[at[d].on] = d => armed'[at[d].on] = d
    BY <1>1, <2>1, <2>2 DEF IInv, TypeOK
  <2>4. Linked(d)'
    BY <1>1, <2>1 DEF Linked
  <2>5. Expects(d)'
    BY <1>1, <2>1, <2>3 DEF Expects
  <2> QED BY <2>4, <2>5
<1> QED BY <1>2, <1>3, <1>4, <1>5, <1>6 DEF IInv

\* At first the main coroutine is about to be served, and has no object.
LEMMA InitIInv == Init => IInv
<1> SUFFICES ASSUME Init PROVE IInv
  OBVIOUS
<1>1. Sound(sch) /\ sch.all = {Main} /\ sch.status[Main] = "busy"
  BY MainAssumption, FirstPass DEF Init
<1>2. /\ obj = [c \in Co |-> NoObject]
      /\ \A c \in Co : /\ obj[c] = NoObject /\ obj[c].life = "none" /\ ~obj[c].hooked
                       /\ ~obj[c].have /\ obj[c].out = "pending"
                       /\ at[c].in = "script"
  BY DEF Init, NoObject, Script
<1>3. TypeOK
  <2>1. obj \in Objects
    <3>1. <<>> \in Seq(Co)
      OBVIOUS
    <3>2. NoObject \in [life : {"none", "live", "collected"}, hooked : BOOLEAN,
                        wq : Seq(Co), have : BOOLEAN, closed : BOOLEAN,
                        out : {"pending", "ok", "error"}]
      BY <3>1 DEF NoObject
    <3> QED BY <1>2, <3>2 DEF Objects
  <2>2. at \in [Co -> [in : {"script", "await", "sleep"}, on : Co \cup Timer \cup {NULL}]]
    BY DEF Init, Script
  <2>3. waking \in Seq(Co)
    BY DEF Init
  <2>4. /\ armed \in [Timer -> Co \cup {NULL}] /\ over \in SUBSET Co
        /\ suspended \in SUBSET Co /\ poked \in SUBSET Co
        /\ reported \in [Co -> SUBSET {"ok", "error", "closed"}]
    BY DEF Init
  <2> QED BY <1>1, <2>1, <2>2, <2>3, <2>4 DEF Init, TypeOK, Objects, Sound
<1>4. SchedInv
  BY <1>1 DEF Init, SchedInv, Sound
<1>5. ControlInv
  BY <1>1, <1>2 DEF Init, ControlInv
<1>6. ObjInv
  <2>1. \A c \in Co : c # Main => c \notin sch.all
    BY <1>1
  <2> QED BY <1>2, <2>1 DEF ObjInv, Unborn, Settles, Answers
<1>7. WaitInv
  BY <1>1, <1>2, MainAssumption DEF WaitInv, Linked, Expects, Waits
<1> QED BY <1>3, <1>4, <1>5, <1>6, <1>7 DEF IInv

\* A stuttering step changes no part of the invariant.
LEMMA StutterStep == ASSUME IInv, UNCHANGED vars PROVE IInv'
<1>1. TypeOK' /\ SchedInv'
  BY DEF vars, IInv, TypeOK, SchedInv
<1>2. ControlInv'
  BY DEF vars, IInv, ControlInv
<1>3. ObjInv'
  BY DEF vars, IInv, ObjInv, Unborn, Settles, Answers
<1>4. WaitInv'
  BY DEF vars, IInv, WaitInv, Linked, Expects
<1> QED BY <1>1, <1>2, <1>3, <1>4 DEF IInv

\* Every step keeps the invariant.
LEMMA StepIInv == ASSUME IInv, [Next]_vars PROVE IInv'
<1>1. CASE Scheduling
  BY <1>1, WakeNextStep, WakeEndStep, ReapDeadStep, ResumeFinishedStep, ResumeScriptStep,
     ResumeAwaitDoneStep, ResumeAwaitAgainStep, EndPassStep DEF Scheduling
<1>2. CASE LeaveRun
  BY <1>2, YieldStep, FinishStep, AwaitBlocksStep, SleepStep DEF LeaveRun
<1>3. CASE StayInRun
  BY <1>3, SpawnStep, AwaitNowStep, SuspendStep, ResumeStep, CloseStep,
     CollectObjectStep, CollectTimerStep DEF StayInRun
<1>4. CASE FireTimer \/ PollReturn \/ Shutdown \/ UNCHANGED vars
  BY <1>4, TimerFiresStep, PollReturnStep, ShutdownStep, StutterStep DEF FireTimer
<1> QED BY <1>1, <1>2, <1>3, <1>4 DEF Next

\* IInv is inductive.
THEOREM Inductive == Spec => []IInv
  BY InitIInv, StepIInv, PTL DEF Spec

\* The state of the coroutine objects always has its type.
THEOREM TypeCorrect == Spec => []TypeOK
<1>1. IInv => TypeOK
  BY DEF IInv
<1> QED BY <1>1, Inductive, PTL

\* Whatever scripts do with each other's coroutines, the scheduler's queues
\* match the status of every coroutine (coroutine.c:197-214).
THEOREM QueuesAlwaysMatch == Spec => []QueuesMatchStatus
<1>1. IInv => QueuesMatchStatus
  BY DEF IInv, SchedInv, QueuesMatchStatus
<1> QED BY <1>1, Inductive, PTL

\* A live object without a result that a coroutine waits for is still hooked,
\* or its waiters are being woken.
LEMMA AwaitedIsHooked ==
    ASSUME IInv, NEW c \in sch.all, at[c].in = "await", pc # "ub",
           ~obj[at[c].on].have
    PROVE  /\ at[c].on \in sch.all
           /\ c \in ToSet(obj[at[c].on].wq)
           /\ obj[at[c].on].hooked \/ (pc = "wake" /\ cur = at[c].on)
<1> DEFINE t == at[c].on
<1>1. Linked(c) /\ t \in Co /\ pc # "closed"
  BY DEF IInv, WaitInv, TypeOK, Schedules, ControlInv, SchedInv
<1>2. obj[t].life = "live" /\ c \in ToSet(obj[t].wq)
  BY <1>1 DEF Linked
<1>3. Settles(t)
  BY <1>1 DEF IInv, ObjInv
<1>4. obj[t].hooked \/ (pc = "wake" /\ cur = t)
  BY <1>1, <1>2, <1>3 DEF Settles
<1>5. t \in sch.all
  BY <1>3, <1>4 DEF Settles, IInv, ControlInv
<1> QED BY <1>2, <1>4, <1>5

\* No wake-up is lost, whatever scripts do: who waits and was not suspended is
\* linked to something that has not happened yet (lua/coroutine.c:63-69, 108).
THEOREM WakeupsAreNotLost == Spec => []NoLostWakeup
<1>1. ASSUME IInv PROVE NoLostWakeup
  <2> SUFFICES ASSUME NEW c \in sch.all, sch.status[c] = "wait", c # cur,
                      c \notin suspended, pc # "ub",
                      ~(at[c].in = "sleep" /\ armed[at[c].on] = c)
               PROVE  /\ at[c].in = "await"
                      /\ at[c].on \in sch.all
                      /\ c \in ToSet(obj[at[c].on].wq)
                      /\ ~obj[at[c].on].have
                      /\ \/ obj[at[c].on].hooked
                         \/ pc = "wake" /\ cur = at[c].on /\ c \in ToSet(waking)
    BY DEF NoLostWakeup
  <2>1. Expects(c)
    BY <1>1 DEF IInv, WaitInv
  <2>2. /\ at[c].in = "await" /\ ~obj[at[c].on].have
        /\ pc = "wake" /\ at[c].on = cur => c \in ToSet(waking)
    BY <2>1 DEF Expects, Waits
  <2> QED BY <1>1, <2>2, AwaitedIsHooked
<1> QED BY <1>1, Inductive, PTL

\* When the event loop blocks, no coroutine waits for nothing: whoever each one
\* left awaits, directly or not, leads to one whose timer runs or that was
\* suspended, or round a circle of awaits (runtime.c:291, lua/coroutine.c:106).
THEOREM BlocksForAReason == Spec => []BlocksOnlyForEvents
<1>1. ASSUME IInv PROVE BlocksOnlyForEvents
  <2> SUFFICES ASSUME pc = "poll", blocking,
                      NEW c \in sch.all, NEW S \in SUBSET Co, c \in S, AwaitClosed(S),
                      \A d \in S : ~Expected(d)
               PROVE  \E C \in SUBSET S : Circle(C)
    BY DEF BlocksOnlyForEvents
  <2> DEFINE C == S \cap sch.all
  <2>1. sch.busy = <<>> /\ QueuesMatch(sch)
    BY <1>1 DEF IInv, ControlInv, SchedInv
  <2>2. \A d \in sch.all : Waits(sch.status[d])
    BY <2>1 DEF QueuesMatch, ToSet
  <2>3. ASSUME NEW d \in C PROVE at[d].in = "await" /\ at[d].on \in C
    <3>1. Expects(d) /\ d \in sch.all
      BY <1>1 DEF IInv, WaitInv
    <3>2. at[d].in = "await" /\ ~obj[at[d].on].have
      BY <2>2, <3>1 DEF Expects, Expected
    <3>3. at[d].on \in sch.all
      BY <1>1, <3>1, <3>2, AwaitedIsHooked
    <3> QED BY <3>2, <3>3 DEF AwaitClosed
  <2>4. C # {} /\ C \subseteq sch.all
    OBVIOUS
  <2> QED BY <2>3, <2>4 DEF Circle, AwaitClosed
<1> QED BY <1>1, Inductive, PTL
-----------------------------------------------------------------------------
(***************************************************************************)
(* What holds of LuaCoroutine when scripts respect the rules of close(),   *)
(* resume() and suspend() ("CloseLast", "NoEarlyWake", "LiveTarget").      *)
(* Every theorem names the rules it needs, and no others.                  *)
(*                                                                         *)
(* The invariant says what is true of a coroutine that is dead, over or    *)
(* closed while its object has not been settled yet: that can only be the  *)
(* running coroutine (SettlesNext), whose Lua thread is in its script and  *)
(* therefore in no wait queue (DeadAtRest, WaitersWait).                   *)
(***************************************************************************)

Dead(c) == IsDead(sch.status[c])

Finished(c) == c \in over \/ obj[c].closed

\* A coroutine that can run no more is inside no call, and finished.
DeadAtRest(c) ==
    c \in sch.all => /\ Dead(c) \/ c \in over => at[c].in = "script"
                     /\ Dead(c) => Finished(c)

\* The wait queue of a coroutine that can still settle.
WaitersWait(t) ==
    obj[t].hooked => \A c \in ToSet(obj[t].wq) : c \in sch.all /\ at[c] = Awaiting(t)

\* No script has touched an object that does not exist.
Untouched(t) == obj[t].life = "none" => obj[t].wq = <<>> /\ ~obj[t].have /\ ~obj[t].closed

\* A result is stored once, by the hook, for a coroutine that is finished.
SettledOnce(t) == obj[t].have => ~obj[t].hooked /\ Finished(t)

\* Only the running coroutine can be dead, or closed, and still hooked.
SettlesNext(t) ==
    obj[t].hooked /\ (Dead(t) \/ obj[t].closed) => pc = "run" /\ cur = t /\ Dead(t)

\* The handle of a live object is good until its coroutine has finished.
HandleGood(t) == obj[t].life = "live" /\ pc # "closed" => t \in sch.all \/ Finished(t)

CoInv(c) == /\ DeadAtRest(c) /\ WaitersWait(c) /\ Untouched(c)
            /\ SettledOnce(c) /\ SettlesNext(c) /\ HandleGood(c)

\* The coroutine whose waiters are being woken, and those still to wake.
WakeInv ==
    pc = "wake" =>
        /\ obj[cur].life = "live" /\ ~obj[cur].hooked /\ ~obj[cur].have /\ Finished(cur)
        /\ \A c \in ToSet(waking) : c \in sch.all /\ at[c] = Awaiting(cur)

RulesInv ==
    /\ pc # "aborted"
    /\ pc = "run" => cur \notin over
    /\ WakeInv
    /\ \A c \in Co : CoInv(c)

\* Nobody who is hooked is dead or closed.
Calm == \A t \in Co : obj[t].hooked => ~Dead(t) /\ ~obj[t].closed

\* So it is unless a closed coroutine is running.
LEMMA CalmUnlessClosed ==
    ASSUME IInv, RulesInv, pc = "run" => ~obj[cur].closed
    PROVE  Calm
<1> SUFFICES ASSUME NEW t \in Co, obj[t].hooked, Dead(t) \/ obj[t].closed
             PROVE  FALSE
  BY DEF Calm
<1>1. CoInv(t) /\ (pc = "run" => cur \notin over)
  BY DEF RulesInv
<1>2. pc = "run" /\ cur = t /\ Dead(t)
  BY <1>1 DEF CoInv, SettlesNext
<1>3. t \in sch.all
  BY DEF IInv, ObjInv, Settles
<1> QED BY <1>1, <1>2, <1>3 DEF CoInv, DeadAtRest, Finished

\* A closed coroutine only yields or ends.
LEMMA CalmCall ==
    ASSUME "CloseLast" \in Rules, IInv, RulesInv, NEW call, Running(call),
           call \notin {"yield", "return", "error"}
    PROVE  Calm /\ pc = "run" /\ ~obj[cur].closed
<1>1. pc = "run" /\ ~obj[cur].closed
  BY DEF Running
<1> QED BY <1>1, CalmUnlessClosed

\* Steps that make nobody dead and leave objects and Lua threads alone.
LEMMA Undisturbed ==
    ASSUME IInv, RulesInv, Calm,
           UNCHANGED <<obj, at, over>>, sch'.all = sch.all,
           \A c \in sch.all : IsDead(sch'.status[c]) => Dead(c),
           pc' # "aborted", pc # "closed",
           pc' = "run" => pc = "run" /\ cur' = cur,
           pc' = "wake" => pc = "wake" /\ cur' = cur /\ ToSet(waking') \subseteq ToSet(waking)
    PROVE  RulesInv'
<1>1. ASSUME NEW c \in Co PROVE CoInv(c)'
  <2>1. CoInv(c) /\ (obj[c].hooked => c \in sch.all)
    BY DEF RulesInv, IInv, ObjInv, Settles
  <2>2. DeadAtRest(c)'
    BY <2>1 DEF CoInv, DeadAtRest, Dead, Finished
  <2>3. WaitersWait(c)' /\ Untouched(c)' /\ SettledOnce(c)'
    BY <2>1 DEF CoInv, WaitersWait, Untouched, SettledOnce, Finished
  <2>4. SettlesNext(c)'
    BY <2>1 DEF Calm, SettlesNext, Dead
  <2>5. HandleGood(c)'
    BY <2>1 DEF CoInv, HandleGood, Finished
  <2> QED BY <2>2, <2>3, <2>4, <2>5 DEF CoInv
<1>2. WakeInv'
  BY DEF RulesInv, WakeInv, Finished
<1>3. pc' = "run" => cur' \notin over'
  BY DEF RulesInv
<1> QED BY <1>1, <1>2, <1>3 DEF RulesInv

\* The waiters being woken are there, and stay inside await().
LEMMA WakeNextRules ==
    ASSUME IInv, RulesInv, WakeNext
    PROVE  RulesInv' /\ Head(waking) \in sch.all /\ at[Head(waking)].in = "await"
<1>1. /\ pc = "wake" /\ waking # <<>> /\ waking' = Tail(waking)
      /\ UNCHANGED <<cur, obj, at, over>> /\ Sound(sch)
  BY DEF WakeNext, IInv, SchedInv
<1>2. Head(waking) \in ToSet(waking) /\ ToSet(waking') \subseteq ToSet(waking)
  BY <1>1, HeadAndTail DEF IInv, TypeOK
<1>3. Head(waking) \in sch.all /\ at[Head(waking)].in = "await"
  BY <1>1, <1>2 DEF RulesInv, WakeInv, Awaiting
<1>4. Becomes(Head(waking), "busy") /\ pc' = "wake"
  BY <1>1, <1>3, SetStateEffect DEF WakeNext, Status
<1>5. /\ sch'.all = sch.all
      /\ \A c \in sch.all : IsDead(sch'.status[c]) => Dead(c)
  BY <1>4 DEF Becomes, IsDead, Dead, IInv, TypeOK, Schedules
<1>6. Calm
  BY <1>1, CalmUnlessClosed
<1> QED BY <1>1, <1>2, <1>3, <1>4, <1>5, <1>6, Undisturbed

\* A dead coroutine is destroyed: nobody waits in the name of it.
LEMMA ReapDeadRules == ASSUME IInv, RulesInv, ReapDead PROVE RulesInv'
<1>1. PICK thr \in Co :
        /\ Serving(thr) /\ Dead(thr)
        /\ IF obj[thr].hooked
           THEN pc' = "aborted" /\ UNCHANGED sch
           ELSE pc' = pc /\ sch' = Destroy(Advance(sch), thr)
  BY DEF ReapDead, Dead
<1>2. UNCHANGED <<cur, waking, obj, at, over>>
  BY DEF ReapDead
<1>3. /\ pc = "pass" /\ cur = NULL /\ Sound(sch) /\ sch.iter # NULL
      /\ thr = sch.iter /\ thr \in sch.all
  BY <1>1, ServedFacts
<1>4. Calm
  BY <1>3, CalmUnlessClosed
<1>5. ~obj[thr].hooked /\ CoInv(thr)
  BY <1>1, <1>4 DEF Calm, RulesInv
<1>6. pc' = "pass" /\ sch'.status = sch.status /\ sch'.all = sch.all \ {thr}
  BY <1>1, <1>3, <1>5, ServeDestroy
<1>7. at[thr].in = "script" /\ Finished(thr)
  BY <1>1, <1>3, <1>5 DEF CoInv, DeadAtRest
<1>8. ASSUME NEW c \in Co PROVE CoInv(c)'
  <2>1. CoInv(c)
    BY DEF RulesInv
  <2>2. DeadAtRest(c)' /\ Untouched(c)' /\ SettledOnce(c)'
    BY <1>2, <1>6, <2>1 DEF CoInv, DeadAtRest, Dead, Finished, Untouched, SettledOnce
  <2>3. WaitersWait(c)'
    BY <1>2, <1>6, <1>7, <2>1 DEF CoInv, WaitersWait, Awaiting
  <2>4. SettlesNext(c)'
    BY <1>2, <1>4, <1>6 DEF Calm, SettlesNext, Dead
  <2>5. HandleGood(c)'
    BY <1>2, <1>3, <1>6, <1>7, <2>1 DEF CoInv, HandleGood, Finished
  <2> QED BY <2>2, <2>3, <2>4, <2>5 DEF CoInv
<1> QED BY <1>6, <1>8 DEF RulesInv, WakeInv

\* Giving control back to the scheduler, and with it the result if there is one.
LEMMA LeaveRules ==
    ASSUME IInv, RulesInv, NEW c \in sch.all, NEW e \in BOOLEAN, Leave(sch', c, e),
           pc \in {"pass", "run"}, sch'.all = sch.all, UNCHANGED at,
           \A d \in sch.all \ {c} : sch'.status[d] = sch.status[d],
           \A d \in Co \ {c} : obj[d].hooked => ~Dead(d) /\ ~obj[d].closed,
           over \subseteq over', over' \subseteq over \cup {c},
           IsDead(sch'.status[c]) => c \in over' \/ obj'[c].closed,
           IsDead(sch'.status[c]) \/ c \in over' => at[c].in = "script",
           obj[c].hooked /\ obj[c].closed => IsDead(sch'.status[c])
    PROVE  RulesInv'
<1>1. c \in Co /\ sch.all \subseteq Co
  BY DEF IInv, TypeOK, Schedules
<1>2. \/ /\ pc' = "wake" /\ cur' = c /\ waking' = obj[c].wq
         /\ obj[c].hooked /\ IsDead(sch'.status[c])
         /\ obj' = [obj EXCEPT ![c].hooked = FALSE]
      \/ /\ pc' \in {"pass", "thrown"} /\ obj' = obj
         /\ ~(obj[c].hooked /\ IsDead(sch'.status[c]))
  BY LeaveEffect
<1>3. \A d \in Co : /\ obj'[d].life = obj[d].life /\ obj'[d].wq = obj[d].wq
                    /\ obj'[d].have = obj[d].have /\ obj'[d].closed = obj[d].closed
                    /\ obj'[d].hooked => obj[d].hooked
                    /\ obj'[d].hooked /\ d = c => ~IsDead(sch'.status[c])
  <2>1. CASE ~(obj[c].hooked /\ IsDead(sch'.status[c]))
    BY <1>2, <2>1
  <2>2. CASE obj[c].hooked /\ IsDead(sch'.status[c])
    <3>0. obj' = [obj EXCEPT ![c].hooked = FALSE]
      BY <1>2, <2>2
    <3>1. /\ ~obj'[c].hooked
          /\ \A d \in Co : d # c => obj'[d] = obj[d]
          /\ \A d \in Co : /\ obj'[d].life = obj[d].life /\ obj'[d].wq = obj[d].wq
                           /\ obj'[d].have = obj[d].have /\ obj'[d].closed = obj[d].closed
      BY <1>1, <3>0, Unhook DEF IInv
    <3>2. ASSUME NEW d \in Co, obj'[d].hooked PROVE obj[d].hooked /\ d # c
      BY <3>1, <3>2
    <3> QED BY <3>1, <3>2
  <2> QED BY <2>1, <2>2
<1>4. ASSUME NEW d \in Co PROVE CoInv(d)'
  <2>1. CoInv(d) /\ (obj[d].hooked => d \in sch.all)
    BY DEF RulesInv, IInv, ObjInv, Settles
  <2>2. DeadAtRest(d)'
    BY <1>3, <2>1 DEF CoInv, DeadAtRest, Dead, Finished
  <2>3. WaitersWait(d)'
    BY <1>3, <2>1 DEF CoInv, WaitersWait
  <2>4. Untouched(d)'
    BY <1>3, <2>1 DEF CoInv, Untouched
  <2>5. SettledOnce(d)'
    BY <1>3, <2>1 DEF CoInv, SettledOnce, Finished
  <2>6. SettlesNext(d)'
    <3>1. CASE d = c
      BY <1>3, <3>1 DEF SettlesNext, Dead
    <3>2. CASE d # c
      BY <1>3, <2>1, <3>2 DEF SettlesNext, Dead
    <3> QED BY <3>1, <3>2
  <2>7. HandleGood(d)'
    BY <1>2, <1>3, <2>1 DEF CoInv, HandleGood, Finished
  <2> QED BY <2>2, <2>3, <2>4, <2>5, <2>6, <2>7 DEF CoInv
<1>5. WakeInv'
  <2> SUFFICES ASSUME pc' = "wake" PROVE WakeInv'
    BY DEF WakeInv
  <2>1. /\ cur' = c /\ waking' = obj[c].wq /\ obj[c].hooked /\ IsDead(sch'.status[c])
        /\ obj' = [obj EXCEPT ![c].hooked = FALSE]
    BY <1>2
  <2>2. obj[c].life = "live" /\ ~obj[c].have /\ WaitersWait(c)
    BY <1>1, <2>1 DEF IInv, ObjInv, Settles, RulesInv, CoInv, SettledOnce
  <2>3. ~obj'[c].hooked
    BY <1>1, <2>1, Unhook DEF IInv
  <2>4. obj'[c].life = "live" /\ ~obj'[c].have /\ (c \in over' \/ obj'[c].closed)
    BY <1>1, <1>3, <2>1, <2>2
  <2>5. \A d \in ToSet(waking') : d \in sch'.all /\ at'[d] = Awaiting(c)
    BY <2>1, <2>2 DEF WaitersWait
  <2>6. (Finished(cur))'
    BY <2>1, <2>4 DEF Finished
  <2> QED BY <2>1, <2>3, <2>4, <2>5, <2>6 DEF WakeInv
<1> QED BY <1>2, <1>4, <1>5 DEF RulesInv

\* A coroutine that yields: if it closed itself, this is where it settles.
LEMMA YieldRules == ASSUME IInv, RulesInv, Yield PROVE RulesInv'
<1>1. pc = "run" /\ Leave(sch, cur, FALSE) /\ UNCHANGED <<at, over>>
  BY DEF Yield, Running
<1>2. sch' = sch /\ Leave(sch', cur, FALSE)
  BY <1>1, LeaveIs
<1>3. cur \in sch.all /\ cur \in Co /\ at[cur].in = "script"
  BY <1>1, RunFacts
<1>4. /\ \A d \in Co : SettlesNext(d)
      /\ DeadAtRest(cur)
  BY <1>3 DEF RulesInv, CoInv
<1>5. \A d \in Co \ {cur} : obj[d].hooked => ~Dead(d) /\ ~obj[d].closed
  BY <1>4 DEF SettlesNext
<1>6. IsDead(sch'.status[cur]) => cur \in over' \/ obj'[cur].closed
  <2>1. CASE obj[cur].closed
    <3>1. obj'[cur].closed
      <4>1. CASE obj' = obj
        BY <2>1, <4>1
      <4>2. CASE obj' = [obj EXCEPT ![cur].hooked = FALSE]
        BY <1>3, <2>1, <4>2, Unhook DEF IInv
      <4> QED BY <1>2, <1>3, <4>1, <4>2, LeaveEffect
    <3> QED BY <3>1
  <2>2. CASE ~obj[cur].closed
    BY <1>1, <1>2, <1>3, <1>4, <2>2 DEF DeadAtRest, Dead, Finished
  <2> QED BY <2>1, <2>2
<1>7. /\ obj[cur].hooked /\ obj[cur].closed => IsDead(sch'.status[cur])
      /\ IsDead(sch'.status[cur]) \/ cur \in over' => at[cur].in = "script"
  BY <1>2, <1>3, <1>4 DEF SettlesNext, Dead
<1> QED BY <1>1, <1>2, <1>3, <1>5, <1>6, <1>7, LeaveRules

\* A coroutine that returns or fails.
LEMMA FinishRules ==
    ASSUME IInv, RulesInv, Return \/ Error
    PROVE  RulesInv' /\ sch'.all = sch.all /\ IsDead(sch'.status[cur])
           /\ (\A d \in sch.all \ {cur} : sch'.status[d] = sch.status[d])
<1>1. PICK st \in {"dead", "error"}, e \in BOOLEAN :
        Leave(SetState(sch, cur, st), cur, e)
  BY DEF Return, Error
<1>2. pc = "run" /\ over' = over \cup {cur} /\ UNCHANGED at
  BY DEF Return, Error, Running
<1>3. sch' = SetState(sch, cur, st) /\ Leave(sch', cur, e) /\ st \in Status /\ IsDead(st)
  BY <1>1, LeaveIs DEF Status, IsDead
<1>4. /\ cur \in sch.all /\ cur \in Co /\ at[cur].in = "script" /\ Becomes(cur, st)
      /\ sch.status \in [Co -> Status] /\ sch.all \subseteq Co
  BY <1>2, <1>3, RunFacts, SetStateEffect DEF IInv, TypeOK, Schedules
<1>5. /\ sch'.all = sch.all /\ IsDead(sch'.status[cur])
      /\ \A d \in sch.all \ {cur} : sch'.status[d] = sch.status[d]
  BY <1>3, <1>4 DEF Becomes
<1>6. \A d \in Co \ {cur} : obj[d].hooked => ~Dead(d) /\ ~obj[d].closed
  BY DEF RulesInv, CoInv, SettlesNext
<1>7. cur \in over'
  BY <1>2
<1>8. RulesInv'
  BY <1>2, <1>3, <1>4, <1>5, <1>6, <1>7, LeaveRules
<1> QED BY <1>5, <1>8

\* A coroutine being served that fails at once or goes on waiting.
LEMMA ServedLeaves ==
    ASSUME IInv, RulesInv, NEW thr \in Co, Serving(thr),
           NEW st \in Status, NEW e \in BOOLEAN,
           Leave(SetState(Advance(sch), thr, st), thr, e),
           IsDead(st) => thr \in over,
           UNCHANGED <<at, over>>
    PROVE  RulesInv'
<1>1. sch' = SetState(Advance(sch), thr, st) /\ Leave(sch', thr, e)
  BY LeaveIs
<1>2. pc = "pass" /\ thr \in sch.all /\ Becomes(thr, st)
  BY <1>1, ServedFacts
<1>3. /\ sch'.all = sch.all /\ sch'.status[thr] = st
      /\ \A d \in sch.all \ {thr} : sch'.status[d] = sch.status[d]
  BY <1>2 DEF Becomes, IInv, TypeOK, Schedules
<1>4. Calm /\ DeadAtRest(thr)
  BY <1>2, CalmUnlessClosed DEF RulesInv, CoInv
<1>5. /\ \A d \in Co \ {thr} : obj[d].hooked => ~Dead(d) /\ ~obj[d].closed
      /\ IsDead(sch'.status[thr]) => thr \in over' \/ obj'[thr].closed
      /\ IsDead(sch'.status[thr]) \/ thr \in over' => at[thr].in = "script"
      /\ obj[thr].hooked /\ obj[thr].closed => IsDead(sch'.status[thr])
  BY <1>2, <1>3, <1>4 DEF Calm, DeadAtRest, Finished
<1> QED BY <1>1, <1>2, <1>3, <1>5, LeaveRules

\* A coroutine whose Lua thread is over fails.
LEMMA ResumeFinishedRules == ASSUME IInv, RulesInv, ResumeFinished PROVE RulesInv'
<1>1. PICK thr \in Co :
        /\ Serving(thr) /\ thr \in over
        /\ Leave(SetState(Advance(sch), thr, "error"), thr, TRUE)
  BY DEF ResumeFinished
<1>2. UNCHANGED <<at, over>> /\ "error" \in Status
  BY DEF ResumeFinished, Status
<1> QED BY <1>1, <1>2, ServedLeaves

\* A coroutine that goes on waiting is not dead.
LEMMA ResumeAwaitAgainRules == ASSUME IInv, RulesInv, ResumeAwaitAgain PROVE RulesInv'
<1>1. PICK thr \in Co :
        Serving(thr) /\ Leave(SetState(Advance(sch), thr, "wait"), thr, FALSE)
  BY DEF ResumeAwaitAgain
<1>2. UNCHANGED <<at, over>> /\ "wait" \in Status /\ ~IsDead("wait")
  BY DEF ResumeAwaitAgain, Status, IsDead
<1> QED BY <1>1, <1>2, ServedLeaves

\* A Lua thread that goes on with its script was in the wait queue of nobody
\* who can still settle.
LEMMA ContinueRules ==
    ASSUME IInv, RulesInv, Calm, NEW c \in sch.all, c \notin over,
           sch'.all = sch.all, sch'.status = sch.status, over' = over,
           at' = [at EXCEPT ![c] = Script], pc' = "run", cur' = c,
           pc # "closed", \A t \in Co : obj[t].hooked => at[c] # Awaiting(t),
           \A d \in Co : /\ obj'[d].life = obj[d].life /\ obj'[d].hooked = obj[d].hooked
                         /\ obj'[d].have = obj[d].have /\ obj'[d].closed = obj[d].closed
                         /\ obj[d].hooked \/ obj[d].life = "none" => obj'[d].wq = obj[d].wq
    PROVE  RulesInv'
<1>1. /\ c \in Co /\ sch.all \subseteq Co /\ at'[c].in = "script"
      /\ \A d \in Co : d # c => at'[d] = at[d]
  BY DEF IInv, TypeOK, Schedules, Script
<1>2. ASSUME NEW d \in Co PROVE CoInv(d)'
  <2>1. CoInv(d) /\ (obj[d].hooked => d \in sch.all)
    BY DEF RulesInv, IInv, ObjInv, Settles
  <2>2. DeadAtRest(d)'
    BY <1>1, <2>1 DEF CoInv, DeadAtRest, Dead, Finished
  <2>3. WaitersWait(d)'
    <3> SUFFICES ASSUME obj[d].hooked, NEW b \in ToSet(obj[d].wq)
                 PROVE  b \in sch.all /\ at'[b] = Awaiting(d)
      BY DEF WaitersWait
    <3>1. b \in sch.all /\ at[b] = Awaiting(d)
      BY <2>1 DEF CoInv, WaitersWait
    <3> QED BY <1>1, <3>1
  <2>4. Untouched(d)' /\ SettledOnce(d)'
    BY <2>1 DEF CoInv, Untouched, SettledOnce, Finished
  <2>5. SettlesNext(d)'
    BY <2>1 DEF Calm, SettlesNext, Dead
  <2>6. HandleGood(d)'
    BY <2>1 DEF CoInv, HandleGood, Finished
  <2> QED BY <2>2, <2>3, <2>4, <2>5, <2>6 DEF CoInv
<1> QED BY <1>2 DEF RulesInv, WakeInv

\* Control returns to a script.
LEMMA ResumeScriptRules == ASSUME IInv, RulesInv, ResumeScript PROVE RulesInv'
<1>1. PICK thr \in Co :
        /\ Serving(thr) /\ thr \notin over /\ at[thr].in \in {"script", "sleep"}
        /\ at' = [at EXCEPT ![thr] = Script] /\ cur' = thr
  BY DEF ResumeScript
<1>2. sch' = Advance(sch) /\ pc' = "run" /\ UNCHANGED <<obj, over>>
  BY DEF ResumeScript
<1>3. pc = "pass" /\ thr \in sch.all /\ sch'.all = sch.all /\ sch'.status = sch.status
  BY <1>1, <1>2, ServedFacts DEF KeepsStatus
<1>4. Calm
  BY <1>3, CalmUnlessClosed
<1>5. \A t \in Co : at[thr] # Awaiting(t)
  BY <1>1 DEF Awaiting
<1> QED BY <1>1, <1>2, <1>3, <1>4, <1>5, ContinueRules

\* Control returns to an await() that has its answer.
LEMMA ResumeAwaitDoneRules == ASSUME IInv, RulesInv, ResumeAwaitDone PROVE RulesInv'
<1>1. PICK thr \in Co :
        /\ Serving(thr) /\ thr \notin over /\ at[thr].in = "await"
        /\ AwaitDone(thr, at[thr].on)
        /\ obj' = IF obj[at[thr].on].closed THEN obj
                  ELSE [obj EXCEPT ![at[thr].on].wq = Erase(@, thr)]
        /\ cur' = thr
  BY DEF ResumeAwaitDone
<1>2. sch' = Advance(sch) /\ pc' = "run" /\ UNCHANGED over
  BY DEF ResumeAwaitDone
<1>3. pc = "pass" /\ thr \in sch.all /\ sch'.all = sch.all /\ sch'.status = sch.status
  BY <1>1, <1>2, ServedFacts DEF KeepsStatus
<1>4. Calm
  BY <1>3, CalmUnlessClosed
<1> DEFINE t == at[thr].on
           q == Erase(obj[t].wq, thr)
<1>5. /\ t \in Co /\ obj[t].life = "live" /\ obj[t].wq \in Seq(Co)
      /\ at' = [at EXCEPT ![thr] = Script] /\ (obj[t].closed \/ obj[t].have)
  BY <1>1, <1>3 DEF IInv, ControlInv, WaitInv, Linked, TypeOK, AwaitDone
<1>6. ~obj[t].hooked
  BY <1>4, <1>5 DEF Calm, RulesInv, CoInv, SettledOnce
<1>7. \A u \in Co : obj[u].hooked => at[thr] # Awaiting(u)
  BY <1>6 DEF Awaiting
<1>8. q \in Seq(Co)
  BY <1>5, EraseAny
<1>9. \A d \in Co : /\ obj'[d].life = obj[d].life /\ obj'[d].hooked = obj[d].hooked
                    /\ obj'[d].have = obj[d].have /\ obj'[d].closed = obj[d].closed
                    /\ obj[d].hooked \/ obj[d].life = "none" => obj'[d].wq = obj[d].wq
  <2>1. CASE obj' = obj
    BY <2>1
  <2>2. CASE obj' = [obj EXCEPT ![t].wq = q]
    <3> HIDE DEF q, t
    <3>1. /\ \A d \in Co : d # t => obj'[d] = obj[d]
          /\ \A d \in Co : /\ obj'[d].life = obj[d].life /\ obj'[d].hooked = obj[d].hooked
                           /\ obj'[d].have = obj[d].have /\ obj'[d].closed = obj[d].closed
      BY <1>5, <1>8, <2>2, EditQueue DEF IInv
    <3> QED BY <1>5, <1>6, <3>1
  <2> QED BY <1>1, <2>1, <2>2
<1> HIDE DEF q, t
<1> QED BY <1>1, <1>2, <1>3, <1>4, <1>5, <1>7, <1>9, ContinueRules

\* An await() with an answer at hand: the record is linked to a closed
\* coroutine, whose waiters have been woken.
LEMMA AwaitNowRules ==
    ASSUME "CloseLast" \in Rules, IInv, RulesInv, NEW t \in Co, AwaitNow(t)
    PROVE  RulesInv'
<1> DEFINE q == Append(obj[t].wq, cur)
<1>1. /\ Running("await") /\ obj[t].life = "live" /\ AwaitDone(cur, t)
      /\ obj' = obj \/ (obj' = [obj EXCEPT ![t].wq = q])
      /\ UNCHANGED <<sch, pc, cur, over>>
  BY DEF AwaitNow, Awaitable
<1>2. Calm /\ pc = "run"
  BY <1>1, CalmCall
<1>3. /\ cur \in sch.all /\ cur \in Co /\ at[cur].in = "script" /\ cur \notin over
      /\ at' = [at EXCEPT ![cur] = Script] /\ (obj[t].closed \/ obj[t].have)
  BY <1>1, <1>2, RunFacts DEF AwaitDone, RulesInv
<1>4. ~obj[t].hooked
  BY <1>2, <1>3 DEF Calm, RulesInv, CoInv, SettledOnce
<1>5. \A u \in Co : obj[u].hooked => at[cur] # Awaiting(u)
  BY <1>3 DEF Awaiting
<1>6. q \in Seq(Co)
  BY <1>3, AppendNode DEF IInv, TypeOK
<1> HIDE DEF q
<1>7. \A d \in Co : /\ obj'[d].life = obj[d].life /\ obj'[d].hooked = obj[d].hooked
                    /\ obj'[d].have = obj[d].have /\ obj'[d].closed = obj[d].closed
                    /\ obj[d].hooked \/ obj[d].life = "none" => obj'[d].wq = obj[d].wq
  <2>1. CASE obj' = obj
    BY <2>1
  <2>2. CASE obj' = [obj EXCEPT ![t].wq = q]
    <3>1. /\ \A d \in Co : d # t => obj'[d] = obj[d]
          /\ \A d \in Co : /\ obj'[d].life = obj[d].life /\ obj'[d].hooked = obj[d].hooked
                           /\ obj'[d].have = obj[d].have /\ obj'[d].closed = obj[d].closed
      BY <1>6, <2>2, EditQueue DEF IInv
    <3> QED BY <1>1, <1>4, <3>1
  <2> QED BY <1>1, <2>1, <2>2
<1> QED BY <1>1, <1>2, <1>3, <1>5, <1>7, ContinueRules

\* A coroutine that blocks, in await() for a live coroutine or in sleep.
LEMMA BlockRules ==
    ASSUME IInv, RulesInv, Calm, pc = "run", pc' = "pass",
           sch' = SetState(sch, cur, "wait"), UNCHANGED over,
           NEW place, at' = [at EXCEPT ![cur] = place],
           \A d \in Co : /\ obj'[d].life = obj[d].life /\ obj'[d].hooked = obj[d].hooked
                         /\ obj'[d].have = obj[d].have /\ obj'[d].closed = obj[d].closed
                         /\ \/ obj'[d].wq = obj[d].wq
                            \/ /\ place = Awaiting(d) /\ obj[d].life = "live"
                               /\ ToSet(obj'[d].wq) = ToSet(obj[d].wq) \cup {cur}
    PROVE  RulesInv' /\ sch'.all = sch.all
           /\ (\A d \in sch.all \ {cur} : sch'.status[d] = sch.status[d])
<1>1. /\ cur \in sch.all /\ cur \in Co /\ at[cur].in = "script" /\ cur \notin over
      /\ Sound(sch) /\ "wait" \in Status
  BY RunFacts DEF RulesInv, Status
<1>2. Becomes(cur, "wait") /\ sch.status \in [Co -> Status] /\ sch.all \subseteq Co
  BY <1>1, SetStateEffect DEF IInv, TypeOK, Schedules
<1>3. /\ sch'.all = sch.all /\ ~IsDead(sch'.status[cur])
      /\ \A d \in sch.all \ {cur} : sch'.status[d] = sch.status[d]
  BY <1>1, <1>2 DEF Becomes, IsDead
<1>4. /\ at'[cur] = place /\ \A d \in Co : d # cur => at'[d] = at[d]
  BY <1>1 DEF IInv, TypeOK
<1>5. ASSUME NEW d \in Co PROVE CoInv(d)'
  <2>1. CoInv(d) /\ (obj[d].hooked => d \in sch.all)
    BY DEF RulesInv, IInv, ObjInv, Settles
  <2>2. DeadAtRest(d)'
    BY <1>1, <1>3, <1>4, <2>1 DEF CoInv, DeadAtRest, Dead, Finished
  <2>3. WaitersWait(d)'
    <3> SUFFICES ASSUME obj[d].hooked, NEW b \in ToSet(obj'[d].wq)
                 PROVE  b \in sch.all /\ at'[b] = Awaiting(d)
      BY <1>3 DEF WaitersWait
    <3>1. CASE b \in ToSet(obj[d].wq)
      <4>1. b \in sch.all /\ at[b] = Awaiting(d)
        BY <2>1, <3>1 DEF CoInv, WaitersWait
      <4> QED BY <1>1, <1>2, <1>4, <4>1 DEF Awaiting
    <3>2. CASE b \notin ToSet(obj[d].wq)
      BY <1>1, <1>4, <3>2
    <3> QED BY <3>1, <3>2
  <2>4. Untouched(d)' /\ SettledOnce(d)'
    BY <2>1 DEF CoInv, Untouched, SettledOnce, Finished
  <2>5. SettlesNext(d)'
    BY <1>3, <2>1 DEF Calm, SettlesNext, Dead
  <2>6. HandleGood(d)'
    BY <1>3, <2>1 DEF CoInv, HandleGood, Finished
  <2> QED BY <2>2, <2>3, <2>4, <2>5, <2>6 DEF CoInv
<1> QED BY <1>3, <1>5 DEF RulesInv, WakeInv

\* await() links a record and, in the same step, waits.
LEMMA AwaitBlocksRules ==
    ASSUME "CloseLast" \in Rules, IInv, RulesInv, NEW t \in Co, AwaitBlocks(t)
    PROVE  RulesInv' /\ sch'.all = sch.all
           /\ (\A d \in sch.all \ {cur} : sch'.status[d] = sch.status[d])
<1> DEFINE q == Append(obj[t].wq, cur)
<1>1. /\ Running("await") /\ obj[t].life = "live"
      /\ obj' = [obj EXCEPT ![t].wq = q] /\ at' = [at EXCEPT ![cur] = Awaiting(t)]
      /\ sch' = SetState(sch, cur, "wait") /\ pc' = "pass" /\ UNCHANGED over
  BY DEF AwaitBlocks, Awaitable
<1>2. Calm /\ pc = "run"
  BY <1>1, CalmCall
<1>3. q \in Seq(Co) /\ ToSet(q) = ToSet(obj[t].wq) \cup {cur}
  BY <1>2, RunFacts, AppendNode DEF IInv, TypeOK
<1> HIDE DEF q
<1>4. /\ obj'[t].wq = q /\ \A d \in Co : d # t => obj'[d] = obj[d]
      /\ \A d \in Co : /\ obj'[d].life = obj[d].life /\ obj'[d].hooked = obj[d].hooked
                       /\ obj'[d].have = obj[d].have /\ obj'[d].closed = obj[d].closed
  BY <1>1, <1>3, EditQueue DEF IInv
<1>5. \A d \in Co : \/ obj'[d].wq = obj[d].wq
                    \/ /\ Awaiting(t) = Awaiting(d) /\ obj[d].life = "live"
                       /\ ToSet(obj'[d].wq) = ToSet(obj[d].wq) \cup {cur}
  BY <1>1, <1>3, <1>4
<1> QED BY <1>1, <1>2, <1>4, <1>5, BlockRules

\* auto.sleep() leaves the objects alone.
LEMMA SleepRules ==
    ASSUME "CloseLast" \in Rules, IInv, RulesInv, NEW k \in Timer, Sleep(k)
    PROVE  RulesInv' /\ sch'.all = sch.all
           /\ (\A d \in sch.all \ {cur} : sch'.status[d] = sch.status[d])
<1>1. /\ Running("sleep") /\ at' = [at EXCEPT ![cur] = Sleeping(k)]
      /\ sch' = SetState(sch, cur, "wait") /\ pc' = "pass" /\ UNCHANGED <<obj, over>>
  BY DEF Sleep
<1>2. Calm /\ pc = "run"
  BY <1>1, CalmCall
<1> QED BY <1>1, <1>2, BlockRules

\* Timers and the turns of the event loop.
LEMMA TimerFiresRules == ASSUME IInv, RulesInv, NEW k \in Timer, TimerFires(k) PROVE RulesInv'
<1>1. /\ pc = "poll" /\ armed[k] # NULL /\ UNCHANGED <<cur, waking, obj, at, over>>
      /\ IF armed[k] \in sch.all
         THEN sch' = SetState(sch, armed[k], "busy") /\ pc' = pc
         ELSE pc' = "ub" /\ UNCHANGED sch
  BY DEF TimerFires
<1>2. Sound(sch) /\ "busy" \in Status
  BY <1>1 DEF IInv, SchedInv, Status
<1>3. \/ armed[k] \in sch.all /\ Becomes(armed[k], "busy") /\ pc' = "poll"
      \/ sch' = sch /\ pc' = "ub"
  BY <1>1, <1>2, SetStateEffect
<1>4. /\ sch'.all = sch.all
      /\ \A c \in sch.all : IsDead(sch'.status[c]) => Dead(c)
  BY <1>3 DEF Becomes, IsDead, Dead, IInv, TypeOK, Schedules
<1>5. Calm
  BY <1>1, CalmUnlessClosed
<1> QED BY <1>1, <1>3, <1>4, <1>5, Undisturbed

\* Between two passes nobody runs and nothing settles.
LEMMA EventLoopRules ==
    ASSUME IInv, RulesInv, EndPass \/ PollReturn
    PROVE  RulesInv' /\ sch'.all = sch.all /\ sch'.status = sch.status
<1>1. /\ pc \in {"pass", "poll"} /\ pc' \in {"returned", "poll", "pass"}
      /\ UNCHANGED <<cur, waking, obj, at, over>>
      /\ sch' = sch \/ sch' = StartIteration(sch)
  BY DEF EndPass, PollReturn
<1>2. sch'.all = sch.all /\ sch'.status = sch.status
  BY <1>1, StartIterationSound DEF IInv, SchedInv
<1>3. Calm
  BY <1>1, CalmUnlessClosed
<1> QED BY <1>1, <1>2, <1>3, Undisturbed DEF Dead

\* suspend() and resume() make nobody dead.
LEMMA RestateRules ==
    ASSUME "CloseLast" \in Rules, IInv, RulesInv, NEW t \in Co, NEW st \in {"wait", "busy"},
           NEW call \in {"suspend", "resume"}, Running(call), SetTarget(t, st),
           UNCHANGED <<cur, waking, obj, at, over>>
    PROVE  RulesInv'
<1>1. Calm /\ pc = "run"
  BY CalmCall
<1>2. Sound(sch) /\ st \in Status
  BY <1>1, RunFacts DEF Status
<1>3. \/ t \in sch.all /\ Becomes(t, st) /\ pc' = "run"
      \/ sch' = sch /\ pc' = "ub"
  BY <1>1, <1>2, SetStateEffect DEF SetTarget
<1>4. /\ sch'.all = sch.all
      /\ \A c \in sch.all : IsDead(sch'.status[c]) => Dead(c)
  BY <1>3 DEF Becomes, IsDead, Dead, IInv, TypeOK, Schedules
<1> QED BY <1>1, <1>3, <1>4, Undisturbed

\* suspend() makes nobody dead.
LEMMA SuspendRules ==
    ASSUME "CloseLast" \in Rules, IInv, RulesInv, NEW t \in Co, Suspend(t)
    PROVE  RulesInv'
<1>1. Running("suspend") /\ SetTarget(t, "wait") /\ UNCHANGED <<cur, waking, obj, at, over>>
  BY DEF Suspend
<1> QED BY <1>1, RestateRules

\* resume() makes nobody dead.
LEMMA ResumeRules ==
    ASSUME "CloseLast" \in Rules, IInv, RulesInv, NEW t \in Co, Resume(t)
    PROVE  RulesInv'
<1>1. Running("resume") /\ SetTarget(t, "busy") /\ UNCHANGED <<cur, waking, obj, at, over>>
  BY DEF Resume
<1> QED BY <1>1, RestateRules

\* Collecting a timer changes nothing the rules are about.
LEMMA CollectTimerRules ==
    ASSUME "CloseLast" \in Rules, IInv, RulesInv, NEW k \in Timer, CollectTimer(k)
    PROVE  RulesInv'
<1>1. Running("collect") /\ UNCHANGED <<sch, pc, cur, waking, obj, at, over>>
  BY DEF CollectTimer
<1>2. Calm /\ pc = "run"
  BY <1>1, CalmCall
<1> QED BY <1>1, <1>2, Undisturbed DEF RulesInv, Dead

\* The result that WakeEnd stores, and where control goes.
LEMMA WakeEndEffect ==
    ASSUME IInv, WakeEnd
    PROVE  /\ pc = "wake" /\ cur \in Co /\ cur \in sch.all /\ pc' \in {"thrown", "pass"}
           /\ UNCHANGED <<sch, waking, at, armed, over, poked, reported>>
           /\ obj'[cur].have /\ obj'[cur].out \in {"ok", "error"}
           /\ \A d \in Co : d # cur => obj'[d] = obj[d]
           /\ \A d \in Co : /\ obj'[d].life = obj[d].life /\ obj'[d].hooked = obj[d].hooked
                            /\ obj'[d].wq = obj[d].wq /\ obj'[d].closed = obj[d].closed
<1> DEFINE res == IF sch.status[cur] = "error" THEN "error" ELSE "ok"
<1>1. /\ pc = "wake" /\ pc' \in {"thrown", "pass"}
      /\ obj' = [obj EXCEPT ![cur].have = TRUE, ![cur].out = res] /\ res \in {"ok", "error"}
      /\ UNCHANGED <<sch, waking, at, armed, over, poked, reported>>
  BY DEF WakeEnd
<1> HIDE DEF res
<1>2. cur \in sch.all /\ cur \in Co
  BY <1>1 DEF IInv, SchedInv, ControlInv, Sound, Schedules
<1>3. /\ obj'[cur].have /\ obj'[cur].out = res
      /\ \A d \in Co : d # cur => obj'[d] = obj[d]
      /\ \A d \in Co : /\ obj'[d].life = obj[d].life /\ obj'[d].hooked = obj[d].hooked
                       /\ obj'[d].wq = obj[d].wq /\ obj'[d].closed = obj[d].closed
  BY <1>1, <1>2, StoreResult DEF IInv
<1> QED BY <1>1, <1>2, <1>3

\* The result is stored once, for a coroutine that is finished and unhooked.
LEMMA WakeEndRules == ASSUME IInv, RulesInv, WakeEnd PROVE RulesInv'
<1>1. /\ pc = "wake" /\ cur \in Co /\ pc' \in {"thrown", "pass"}
      /\ UNCHANGED <<sch, at, over>>
      /\ \A d \in Co : d # cur => obj'[d] = obj[d]
      /\ \A d \in Co : /\ obj'[d].life = obj[d].life /\ obj'[d].hooked = obj[d].hooked
                       /\ obj'[d].wq = obj[d].wq /\ obj'[d].closed = obj[d].closed
  BY WakeEndEffect
<1>2. obj[cur].life = "live" /\ ~obj[cur].hooked /\ Finished(cur)
  BY <1>1 DEF RulesInv, WakeInv
<1>3. Calm
  BY <1>1, CalmUnlessClosed
<1>4. ASSUME NEW d \in Co PROVE CoInv(d)'
  <2>1. CoInv(d)
    BY DEF RulesInv
  <2>2. DeadAtRest(d)' /\ HandleGood(d)'
    BY <1>1, <2>1 DEF CoInv, DeadAtRest, Dead, Finished, HandleGood
  <2>3. WaitersWait(d)'
    BY <1>1, <2>1 DEF CoInv, WaitersWait
  <2>4. Untouched(d)'
    BY <1>1, <1>2, <2>1 DEF CoInv, Untouched
  <2>5. SettledOnce(d)'
    BY <1>1, <1>2, <2>1 DEF CoInv, SettledOnce, Finished
  <2>6. SettlesNext(d)'
    BY <1>1, <1>3 DEF Calm, SettlesNext, Dead
  <2> QED BY <2>2, <2>3, <2>4, <2>5, <2>6 DEF CoInv
<1> QED BY <1>1, <1>4 DEF RulesInv, WakeInv

\* lua_close: nobody is hooked any more.
LEMMA ShutdownRules == ASSUME IInv, RulesInv, Shutdown PROVE RulesInv'
<1>1. /\ pc' = "closed" /\ sch'.all = {} /\ UNCHANGED over
      /\ obj' = [c \in Co |-> [obj[c] EXCEPT !.hooked = FALSE]]
      /\ sch' = [sch EXCEPT !.all = {}, !.busy = <<>>, !.wait = <<>>]
  BY DEF Shutdown, IInv, TypeOK, Schedules
<1>2. \A c \in Co : /\ ~obj'[c].hooked /\ obj'[c].life = obj[c].life
                    /\ obj'[c].wq = obj[c].wq /\ obj'[c].have = obj[c].have
                    /\ obj'[c].closed = obj[c].closed
  BY <1>1, UnhookAll DEF IInv
<1>3. ASSUME NEW c \in Co PROVE CoInv(c)'
  <2>1. CoInv(c)
    BY DEF RulesInv
  <2>2. DeadAtRest(c)' /\ WaitersWait(c)' /\ SettlesNext(c)' /\ HandleGood(c)'
    BY <1>1, <1>2 DEF DeadAtRest, WaitersWait, SettlesNext, HandleGood
  <2>3. Untouched(c)' /\ SettledOnce(c)'
    BY <1>1, <1>2, <2>1 DEF CoInv, Untouched, SettledOnce, Finished
  <2> QED BY <2>2, <2>3 DEF CoInv
<1> QED BY <1>1, <1>3 DEF RulesInv, WakeInv

\* A new coroutine is runnable, hooked, and nobody waits for it yet.
LEMMA SpawnRules ==
    ASSUME "CloseLast" \in Rules, IInv, RulesInv, NEW c \in Co, Spawn(c)
    PROVE  /\ RulesInv' /\ c \notin sch.all /\ at[c].in = "script"
           /\ sch'.all = sch.all \cup {c}
           /\ \A d \in sch.all : sch'.status[d] = sch.status[d]
<1>1. /\ Running("spawn") /\ obj[c].life = "none" /\ c # Main /\ sch' = Host(sch, c)
      /\ obj' = [obj EXCEPT ![c].life = "live", ![c].hooked = TRUE]
      /\ UNCHANGED <<pc, cur, at, over>>
  BY DEF Spawn
<1>2. Calm /\ pc = "run"
  BY <1>1, CalmCall
<1>3. c \notin sch.all /\ at[c].in = "script" /\ Sound(sch) /\ CoInv(c)
  BY <1>1, <1>2 DEF IInv, SchedInv, ObjInv, Unborn, RulesInv
<1>4. sch'.all = sch.all \cup {c} /\ sch'.status = [sch.status EXCEPT ![c] = "busy"]
  BY <1>1, <1>3, HostSound
<1>5. /\ \A d \in sch.all : sch'.status[d] = sch.status[d]
      /\ ~IsDead(sch'.status[c])
  BY <1>3, <1>4 DEF IInv, TypeOK, Schedules, IsDead
<1>6. /\ obj'[c].life = "live"
      /\ \A d \in Co : d # c => obj'[d] = obj[d]
      /\ \A d \in Co : /\ obj'[d].wq = obj[d].wq /\ obj'[d].have = obj[d].have
                       /\ obj'[d].closed = obj[d].closed
  BY <1>1, SetLife DEF IInv
<1>7. obj[c].wq = <<>> /\ ~obj[c].have /\ ~obj[c].closed
  BY <1>1, <1>3 DEF CoInv, Untouched
<1>8. ASSUME NEW d \in Co PROVE CoInv(d)'
  <2>1. CoInv(d) /\ (obj[d].hooked => d \in sch.all)
    BY DEF RulesInv, IInv, ObjInv, Settles
  <2>2. CASE d = c
    <3>1. DeadAtRest(c)'
      BY <1>1, <1>3, <1>5 DEF DeadAtRest, Dead
    <3>2. WaitersWait(c)'
      BY <1>6, <1>7 DEF WaitersWait, ToSet
    <3>3. Untouched(c)' /\ SettledOnce(c)' /\ SettlesNext(c)' /\ HandleGood(c)'
      BY <1>4, <1>5, <1>6, <1>7 DEF Untouched, SettledOnce, SettlesNext, HandleGood, Dead
    <3> QED BY <2>2, <3>1, <3>2, <3>3 DEF CoInv
  <2>3. CASE d # c
    <3>1. obj'[d] = obj[d]
      BY <1>6, <2>3
    <3>2. DeadAtRest(d)'
      BY <1>1, <1>4, <1>5, <2>1, <2>3, <3>1 DEF CoInv, DeadAtRest, Dead, Finished
    <3>3. WaitersWait(d)'
      BY <1>1, <1>4, <2>1, <3>1 DEF CoInv, WaitersWait
    <3>4. Untouched(d)' /\ SettledOnce(d)' /\ HandleGood(d)'
      BY <1>1, <1>4, <2>1, <3>1 DEF CoInv, Untouched, SettledOnce, HandleGood, Finished
    <3>5. SettlesNext(d)'
      BY <1>2, <1>5, <2>1, <3>1 DEF Calm, SettlesNext, Dead
    <3> QED BY <3>2, <3>3, <3>4, <3>5 DEF CoInv
  <2> QED BY <2>2, <2>3
<1>9. RulesInv'
  BY <1>1, <1>2, <1>8 DEF RulesInv, WakeInv
<1> QED BY <1>3, <1>4, <1>5, <1>9

\* A coroutine that closes itself is dead from then on, and settles when it
\* gives control back.
LEMMA CloseRules ==
    ASSUME "CloseLast" \in Rules, IInv, RulesInv, NEW t \in Co, Close(t)
    PROVE  /\ RulesInv' /\ t = cur /\ pc = "run" /\ ~obj[t].closed /\ ~obj[t].have
           /\ t \in sch.all /\ sch'.all = sch.all
           /\ (\A d \in sch.all \ {t} : sch'.status[d] = sch.status[d])
           /\ IsDead(sch'.status[t])
<1>1. /\ Running("close") /\ t = cur /\ SetTarget(t, "dead")
      /\ obj' = [obj EXCEPT ![t].closed = TRUE] /\ UNCHANGED <<cur, at, over>>
      /\ obj[t].life = "live"
  BY DEF Close, Targets
<1>2. Calm /\ pc = "run" /\ ~obj[t].closed
  BY <1>1, CalmCall
<1>3. /\ t \in sch.all /\ at[t].in = "script" /\ t \notin over
      /\ Sound(sch) /\ "dead" \in Status /\ IsDead("dead")
  BY <1>1, <1>2, RunFacts DEF RulesInv, Status, IsDead
<1>4. ~obj[t].have
  BY <1>2, <1>3 DEF RulesInv, CoInv, SettledOnce, Finished
<1>5. Becomes(t, "dead") /\ pc' = "run"
  BY <1>1, <1>2, <1>3, SetStateEffect DEF SetTarget
<1>6. /\ sch'.all = sch.all /\ IsDead(sch'.status[t])
      /\ \A d \in sch.all \ {t} : sch'.status[d] = sch.status[d]
  BY <1>3, <1>5 DEF Becomes, IInv, TypeOK, Schedules
<1>7. /\ obj'[t].closed
      /\ \A d \in Co : d # t => obj'[d] = obj[d]
      /\ \A d \in Co : /\ obj'[d].life = obj[d].life /\ obj'[d].hooked = obj[d].hooked
                       /\ obj'[d].wq = obj[d].wq /\ obj'[d].have = obj[d].have
  BY <1>1, SetClosed DEF IInv
<1>8. ASSUME NEW d \in Co PROVE CoInv(d)'
  <2>1. CoInv(d) /\ (obj[d].hooked => d \in sch.all)
    BY DEF RulesInv, IInv, ObjInv, Settles
  <2>2. WaitersWait(d)'
    BY <1>1, <1>6, <1>7, <2>1 DEF CoInv, WaitersWait
  <2>3. CASE d = t
    <3>1. DeadAtRest(t)' /\ Untouched(t)' /\ HandleGood(t)'
      BY <1>1, <1>3, <1>7 DEF DeadAtRest, Finished, Untouched, HandleGood
    <3>2. SettledOnce(t)' /\ SettlesNext(t)'
      BY <1>1, <1>4, <1>5, <1>6, <1>7 DEF SettledOnce, SettlesNext, Dead
    <3> QED BY <2>2, <2>3, <3>1, <3>2 DEF CoInv
  <2>4. CASE d # t
    <3>1. obj'[d] = obj[d]
      BY <1>7, <2>4
    <3>2. DeadAtRest(d)' /\ Untouched(d)' /\ HandleGood(d)' /\ SettledOnce(d)'
      BY <1>1, <1>2, <1>6, <2>1, <2>4, <3>1
      DEF CoInv, DeadAtRest, Dead, Finished, Untouched, HandleGood, SettledOnce
    <3>3. SettlesNext(d)'
      BY <1>2, <1>6, <2>1, <2>4, <3>1 DEF Calm, SettlesNext, Dead
    <3> QED BY <2>2, <3>2, <3>3 DEF CoInv
  <2> QED BY <2>3, <2>4
<1>9. RulesInv'
  BY <1>1, <1>3, <1>5, <1>8 DEF RulesInv, WakeInv
<1> QED BY <1>1, <1>2, <1>3, <1>4, <1>6, <1>9

\* A collected object is hooked to nothing.
LEMMA CollectObjectRules ==
    ASSUME "CloseLast" \in Rules, IInv, RulesInv, NEW t \in Co, CollectObject(t)
    PROVE  RulesInv'
<1>1. /\ Running("collect") /\ UNCHANGED <<sch, pc, cur, at, over>>
      /\ obj' = [obj EXCEPT ![t].life = "collected", ![t].hooked = FALSE]
  BY DEF CollectObject
<1>2. Calm /\ pc = "run"
  BY <1>1, CalmCall
<1>3. /\ obj'[t].life = "collected" /\ obj'[t].hooked = FALSE
      /\ \A d \in Co : d # t => obj'[d] = obj[d]
      /\ \A d \in Co : /\ obj'[d].wq = obj[d].wq /\ obj'[d].have = obj[d].have
                       /\ obj'[d].closed = obj[d].closed
  BY <1>1, SetLife DEF IInv
<1>4. ASSUME NEW d \in Co PROVE CoInv(d)'
  <2>1. CoInv(d)
    BY DEF RulesInv
  <2>2. DeadAtRest(d)'
    BY <1>1, <1>3, <2>1 DEF CoInv, DeadAtRest, Dead, Finished
  <2>3. CASE d = t
    BY <1>1, <1>3, <2>1, <2>2, <2>3
    DEF CoInv, WaitersWait, Untouched, SettledOnce, SettlesNext, HandleGood, Finished
  <2>4. CASE d # t
    <3>1. obj'[d] = obj[d]
      BY <1>3, <2>4
    <3>2. WaitersWait(d)'
      BY <1>1, <2>1, <3>1 DEF CoInv, WaitersWait
    <3>3. Untouched(d)' /\ SettledOnce(d)' /\ HandleGood(d)'
      BY <1>1, <2>1, <3>1 DEF CoInv, Untouched, SettledOnce, HandleGood, Finished
    <3>4. SettlesNext(d)'
      BY <1>1, <1>2, <3>1 DEF Calm, SettlesNext, Dead
    <3> QED BY <2>2, <3>2, <3>3, <3>4 DEF CoInv
  <2> QED BY <2>3, <2>4
<1> QED BY <1>1, <1>2, <1>4 DEF RulesInv, WakeInv

\* A stuttering step changes no part of the invariant.
LEMMA StutterRules == ASSUME RulesInv, UNCHANGED vars PROVE RulesInv'
<1>1. UNCHANGED <<sch, pc, cur, waking, obj, at, over>>
  BY DEF vars
<1>2. WakeInv' /\ pc' # "aborted" /\ (pc' = "run" => cur' \notin over')
  BY <1>1 DEF RulesInv, WakeInv, Finished
<1>3. ASSUME NEW c \in Co PROVE CoInv(c)'
  BY <1>1 DEF RulesInv, CoInv, DeadAtRest, WaitersWait, Untouched, SettledOnce,
              SettlesNext, HandleGood, Finished, Dead
<1> QED BY <1>2, <1>3 DEF RulesInv

\* At first no object exists.
LEMMA InitRules == Init => RulesInv
<1> SUFFICES ASSUME Init PROVE RulesInv
  OBVIOUS
<1>1. sch.all = {Main} /\ sch.status[Main] = "busy"
  BY MainAssumption, FirstPass DEF Init
<1>2. /\ pc = "pass" /\ over = {}
      /\ \A c \in Co : /\ obj[c].life = "none" /\ ~obj[c].hooked /\ obj[c].wq = <<>>
                       /\ ~obj[c].have /\ ~obj[c].closed
  BY DEF Init, NoObject
<1>3. ASSUME NEW c \in Co PROVE CoInv(c)
  <2>1. DeadAtRest(c)
    BY <1>1, <1>2 DEF DeadAtRest, Dead, IsDead
  <2>2. WaitersWait(c) /\ Untouched(c) /\ SettledOnce(c) /\ SettlesNext(c) /\ HandleGood(c)
    BY <1>2 DEF WaitersWait, Untouched, SettledOnce, SettlesNext, HandleGood
  <2> QED BY <2>1, <2>2 DEF CoInv
<1> QED BY <1>2, <1>3 DEF RulesInv, WakeInv

\* Every step keeps the invariant, if scripts close only themselves, at the end.
LEMMA StepRules ==
    ASSUME "CloseLast" \in Rules, IInv, RulesInv, [Next]_vars
    PROVE  RulesInv'
<1>1. CASE Scheduling
  BY <1>1, WakeNextRules, WakeEndRules, ReapDeadRules, ResumeFinishedRules,
     ResumeScriptRules, ResumeAwaitDoneRules, ResumeAwaitAgainRules, EventLoopRules
  DEF Scheduling
<1>2. CASE LeaveRun
  BY <1>2, YieldRules, FinishRules, AwaitBlocksRules, SleepRules DEF LeaveRun
<1>3. CASE StayInRun
  BY <1>3, SpawnRules, AwaitNowRules, SuspendRules, ResumeRules, CloseRules,
     CollectObjectRules, CollectTimerRules DEF StayInRun
<1>4. CASE FireTimer \/ PollReturn \/ Shutdown \/ UNCHANGED vars
  BY <1>4, TimerFiresRules, EventLoopRules, ShutdownRules, StutterRules DEF FireTimer
<1> QED BY <1>1, <1>2, <1>3, <1>4 DEF Next

\* RulesInv, on top of IInv, is inductive for scripts that respect "CloseLast".
THEOREM RulesInductive == ASSUME "CloseLast" \in Rules PROVE Spec => [](IInv /\ RulesInv)
<1>1. Init => IInv /\ RulesInv
  BY InitIInv, InitRules
<1>2. IInv /\ RulesInv /\ [Next]_vars => (IInv /\ RulesInv)'
  BY StepIInv, StepRules
<1> QED BY <1>1, <1>2, PTL DEF Spec

\* If scripts close only the running coroutine, and then only yield or return,
\* the wait queue of a coroutine that can still settle holds exactly who waits
\* (lua/coroutine.c:64-69, 112).
THEOREM OnlyWaitersAreWoken == ASSUME "CloseLast" \in Rules PROVE Spec => []WaitersAreWaiting
<1>1. RulesInv => WaitersAreWaiting
  BY DEF RulesInv, CoInv, WaitersWait, WaitersAreWaiting
<1> QED BY <1>1, RulesInductive, PTL

\* Under the same rule the assertion of _runtime_destroy_thread never fails
\* (runtime.c:38).
THEOREM AssertionHolds == ASSUME "CloseLast" \in Rules PROVE Spec => []NoAssertFailure
<1>1. RulesInv => NoAssertFailure
  BY DEF RulesInv, NoAssertFailure
<1> QED BY <1>1, RulesInductive, PTL

\* Refinement of AwaitPromise.  A step that changes no outcome and reports
\* nothing is a stuttering step of the promise.
SameAnswers ==
    /\ reported' = reported
    /\ \A c \in Co : obj'[c].closed = obj[c].closed /\ obj'[c].out = obj[c].out

\* The mapped variable is a function of the closed flags and the results.
LEMMA SameOutcomes ==
    ASSUME \A c \in Co : obj'[c].closed = obj[c].closed /\ obj'[c].out = obj[c].out
    PROVE  [c \in Co |-> IF obj'[c].closed THEN "closed" ELSE obj'[c].out]
             = [c \in Co |-> IF obj[c].closed THEN "closed" ELSE obj[c].out]
  OBVIOUS

\* Giving control back changes no answer.
LEMMA LeaveKeepsAnswers ==
    ASSUME IInv, NEW s, NEW c \in Co, NEW e, Leave(s, c, e), reported' = reported
    PROVE  SameAnswers
<1>1. obj' = obj \/ obj' = [obj EXCEPT ![c].hooked = FALSE]
  BY DEF Leave
<1> QED BY <1>1, Unhook DEF SameAnswers, IInv

\* The steps that neither settle a coroutine nor answer an await().
LEMMA QuietSteps ==
    ASSUME IInv,
           \/ WakeNext \/ ReapDead \/ ResumeFinished \/ ResumeScript \/ ResumeAwaitAgain
           \/ EndPass \/ LeaveRun \/ FireTimer \/ PollReturn \/ Shutdown
           \/ \E c \in Co : Spawn(c) \/ Suspend(c) \/ Resume(c) \/ CollectObject(c)
           \/ \E k \in Timer : CollectTimer(k)
           \/ UNCHANGED vars
    PROVE  SameAnswers
<1>1. CASE \/ WakeNext \/ ReapDead \/ ResumeScript \/ EndPass \/ FireTimer \/ PollReturn
           \/ (\E c \in Co : Suspend(c) \/ Resume(c))
           \/ (\E k \in Timer : CollectTimer(k) \/ Sleep(k))
           \/ UNCHANGED vars
  <2>1. UNCHANGED <<obj, reported>>
    BY <1>1 DEF WakeNext, ReapDead, ResumeScript, EndPass, FireTimer, TimerFires, PollReturn,
                Suspend, Resume, CollectTimer, Sleep, vars
  <2> QED BY <2>1 DEF SameAnswers
<1>2. CASE Yield \/ Return \/ Error
  <2>1. pc = "run" /\ cur \in Co /\ UNCHANGED reported
    BY <1>2, RunFacts DEF Yield, Return, Error, Running
  <2>2. PICK s \in {sch, SetState(sch, cur, "dead"), SetState(sch, cur, "error")},
             e \in BOOLEAN : Leave(s, cur, e)
    BY <1>2 DEF Yield, Return, Error
  <2> QED BY <2>1, <2>2, LeaveKeepsAnswers
<1>3. CASE ResumeFinished \/ ResumeAwaitAgain
  <2>1. UNCHANGED reported
    BY <1>3 DEF ResumeFinished, ResumeAwaitAgain
  <2>2. PICK thr \in Co, st \in {"wait", "error"}, e \in BOOLEAN :
             Leave(SetState(Advance(sch), thr, st), thr, e)
    BY <1>3 DEF ResumeFinished, ResumeAwaitAgain
  <2> QED BY <2>1, <2>2, LeaveKeepsAnswers
<1>4. CASE \E t \in Co : AwaitBlocks(t)
  <2>1. PICK t \in Co : AwaitBlocks(t)
    BY <1>4
  <2>2. /\ pc = "run" /\ obj' = [obj EXCEPT ![t].wq = Append(obj[t].wq, cur)]
        /\ UNCHANGED reported
    BY <2>1 DEF AwaitBlocks, Running
  <2>3. Append(obj[t].wq, cur) \in Seq(Co)
    BY <2>2, RunFacts, AppendNode DEF IInv, TypeOK
  <2> QED BY <2>2, <2>3, EditQueue DEF SameAnswers, IInv
<1>5. CASE \E c \in Co : Spawn(c) \/ CollectObject(c)
  <2>1. PICK c \in Co, life \in {"live", "collected"}, hk \in BOOLEAN :
             obj' = [obj EXCEPT ![c].life = life, ![c].hooked = hk]
    BY <1>5 DEF Spawn, CollectObject
  <2>2. UNCHANGED reported
    BY <1>5 DEF Spawn, CollectObject
  <2> QED BY <2>1, <2>2, SetLife DEF SameAnswers, IInv
<1>6. CASE Shutdown
  <2>1. obj' = [c \in Co |-> [obj[c] EXCEPT !.hooked = FALSE]] /\ UNCHANGED reported
    BY <1>6 DEF Shutdown
  <2> QED BY <2>1, UnhookAll DEF SameAnswers, IInv
<1> QED BY <1>1, <1>2, <1>3, <1>4, <1>5, <1>6 DEF LeaveRun

\* Such a step is a stuttering step of the promise.
LEMMA PromiseStutter == ASSUME SameAnswers PROVE UNCHANGED Promise!vars
<1>1. [c \in Co |-> IF obj'[c].closed THEN "closed" ELSE obj'[c].out]
        = [c \in Co |-> IF obj[c].closed THEN "closed" ELSE obj[c].out]
  BY SameOutcomes DEF SameAnswers
<1> QED BY <1>1 DEF SameAnswers, Promise!vars

\* WakeEnd settles the coroutine, unless it was closed before.
LEMMA WakeEndSettles ==
    ASSUME IInv, RulesInv, WakeEnd PROVE [Promise!Next]_(Promise!vars)
<1>1. /\ pc = "wake" /\ cur \in Co /\ reported' = reported
      /\ obj'[cur].out \in {"ok", "error"}
      /\ \A d \in Co : d # cur => obj'[d] = obj[d]
      /\ \A d \in Co : obj'[d].closed = obj[d].closed
  BY WakeEndEffect
<1>2. obj[cur].out = "pending"
  BY <1>1 DEF RulesInv, WakeInv, IInv, ObjInv, Answers
<1> DEFINE before == [c \in Co |-> IF obj[c].closed THEN "closed" ELSE obj[c].out]
           after == [c \in Co |-> IF obj'[c].closed THEN "closed" ELSE obj'[c].out]
<1>3. CASE obj[cur].closed
  <2>1. after = before
    BY <1>1, <1>3
  <2> QED BY <1>1, <2>1 DEF Promise!vars
<1>4. CASE ~obj[cur].closed
  <2>1. before[cur] = "pending" /\ after = [before EXCEPT ![cur] = obj'[cur].out]
    BY <1>1, <1>2, <1>4
  <2>2. PICK o \in {"ok", "error"} : o = obj'[cur].out
    BY <1>1
  <2>3. Promise!Settle(cur, o)
    BY <1>1, <2>1, <2>2 DEF Promise!Settle
  <2>4. \E c \in Co : \E r \in Promise!Outcomes : Promise!Settle(c, r)
    BY <1>1, <2>3 DEF Promise!Outcomes
  <2> QED BY <2>4 DEF Promise!Next
<1> QED BY <1>3, <1>4

\* close() settles the running coroutine.
LEMMA CloseSettles ==
    ASSUME "CloseLast" \in Rules, IInv, RulesInv, NEW t \in Co, Close(t)
    PROVE  Promise!Next
<1>1. ~obj[t].closed /\ ~obj[t].have
  BY CloseRules
<1>2. obj[t].out = "pending"
  BY <1>1 DEF IInv, ObjInv, Answers
<1>3. obj' = [obj EXCEPT ![t].closed = TRUE] /\ reported' = reported
  BY DEF Close
<1>4. /\ obj'[t].closed /\ \A d \in Co : d # t => obj'[d] = obj[d]
  BY <1>3, SetClosed DEF IInv
<1> DEFINE before == [c \in Co |-> IF obj[c].closed THEN "closed" ELSE obj[c].out]
           after == [c \in Co |-> IF obj'[c].closed THEN "closed" ELSE obj'[c].out]
<1>5. before[t] = "pending" /\ after = [before EXCEPT ![t] = "closed"]
  BY <1>1, <1>2, <1>4
<1>6. Promise!Settle(t, "closed")
  BY <1>3, <1>5 DEF Promise!Settle
<1> QED BY <1>6 DEF Promise!Next, Promise!Outcomes

\* An await() that returns reports the outcome.
LEMMA AwaitReports ==
    ASSUME IInv, NEW c \in Co, NEW t \in Co, AwaitDone(c, t),
           \A d \in Co : obj'[d].closed = obj[d].closed /\ obj'[d].out = obj[d].out
    PROVE  Promise!Next
<1>1. /\ obj[t].closed \/ obj[t].have
      /\ reported' = [reported EXCEPT ![t] = @ \cup {Verdict(t)}]
  BY DEF AwaitDone
<1> DEFINE before == [d \in Co |-> IF obj[d].closed THEN "closed" ELSE obj[d].out]
           after == [d \in Co |-> IF obj'[d].closed THEN "closed" ELSE obj'[d].out]
<1>2. before[t] = Verdict(t) /\ before[t] # "pending"
  BY <1>1 DEF Verdict, IInv, ObjInv, Answers
<1>3. after = before
  BY SameOutcomes
<1>4. Promise!Report(t)
  BY <1>1, <1>2, <1>3 DEF Promise!Report
<1> QED BY <1>4 DEF Promise!Next

\* An await() that blocked reports the outcome.
LEMMA ResumeAwaitDoneReports == ASSUME IInv, ResumeAwaitDone PROVE Promise!Next
<1>1. PICK thr \in Co :
        /\ Serving(thr) /\ at[thr].in = "await" /\ AwaitDone(thr, at[thr].on)
        /\ obj' = IF obj[at[thr].on].closed THEN obj
                  ELSE [obj EXCEPT ![at[thr].on].wq = Erase(@, thr)]
  BY DEF ResumeAwaitDone
<1> DEFINE t == at[thr].on
           q == Erase(obj[t].wq, thr)
<1>2. t \in Co
  BY <1>1 DEF IInv, ControlInv
<1>3. q \in Seq(Co)
  BY <1>2, EraseAny DEF IInv, TypeOK
<1>4. obj' = obj \/ obj' = [obj EXCEPT ![t].wq = q]
  BY <1>1
<1>5. AwaitDone(thr, t)
  BY <1>1
<1> HIDE DEF q, t
<1>6. \A d \in Co : obj'[d].closed = obj[d].closed /\ obj'[d].out = obj[d].out
  BY <1>2, <1>3, <1>4, EditQueue DEF IInv
<1> QED BY <1>2, <1>5, <1>6, AwaitReports

\* An await() that need not block reports the outcome.
LEMMA AwaitNowReports == ASSUME IInv, NEW t \in Co, AwaitNow(t) PROVE Promise!Next
<1> DEFINE q == Append(obj[t].wq, cur)
<1>1. /\ pc = "run" /\ AwaitDone(cur, t)
      /\ obj' = obj \/ (obj' = [obj EXCEPT ![t].wq = q])
  BY DEF AwaitNow, Running
<1>2. cur \in Co /\ q \in Seq(Co)
  BY <1>1, RunFacts, AppendNode DEF IInv, TypeOK
<1> HIDE DEF q
<1>3. \A d \in Co : obj'[d].closed = obj[d].closed /\ obj'[d].out = obj[d].out
  BY <1>1, <1>2, EditQueue DEF IInv
<1> QED BY <1>1, <1>2, <1>3, AwaitReports

\* Every step settles one coroutine, answers one await(), or is not visible.
LEMMA StepPromise ==
    ASSUME "CloseLast" \in Rules, IInv, RulesInv, [Next]_vars
    PROVE  [Promise!Next]_(Promise!vars)
<1>1. CASE WakeEnd
  BY <1>1, WakeEndSettles
<1>2. CASE ResumeAwaitDone \/ \E t \in Co : AwaitNow(t)
  BY <1>2, ResumeAwaitDoneReports, AwaitNowReports
<1>3. CASE \E t \in Co : Close(t)
  BY <1>3, CloseSettles
<1>4. CASE \/ WakeNext \/ ReapDead \/ ResumeFinished \/ ResumeScript \/ ResumeAwaitAgain
           \/ EndPass \/ LeaveRun \/ FireTimer \/ PollReturn \/ Shutdown
           \/ \E c \in Co : Spawn(c) \/ Suspend(c) \/ Resume(c) \/ CollectObject(c)
           \/ \E k \in Timer : CollectTimer(k)
           \/ UNCHANGED vars
  BY <1>4, QuietSteps, PromiseStutter
<1> QED BY <1>1, <1>2, <1>3, <1>4 DEF Next, Scheduling, StayInRun

\* At first every coroutine is pending.
LEMMA InitPromise == Init => Promise!Init
<1> SUFFICES ASSUME Init PROVE Promise!Init
  OBVIOUS
<1>1. \A c \in Co : ~obj[c].closed /\ obj[c].out = "pending"
  BY DEF Init, NoObject
<1> QED BY <1>1 DEF Init, Promise!Init

\* await() keeps its promise: a coroutine is settled once, and all awaits of it
\* report just that (docs/coroutine.md:27).
THEOREM AwaitKeepsItsPromise == ASSUME "CloseLast" \in Rules PROVE Spec => ImplementsPromise
<1>1. IInv /\ RulesInv /\ [Next]_vars => [Promise!Next]_(Promise!vars)
  BY StepPromise
<1> QED BY <1>1, InitPromise, RulesInductive, PTL DEF Spec, ImplementsPromise, Promise!Spec

-----------------------------------------------------------------------------
(***************************************************************************)
(* Sleepers, when nobody resumes them.                                     *)
(***************************************************************************)

\* An armed timer belongs to a coroutine that sleeps on it and waits.
TimerInv ==
    \A k \in Timer : armed[k] # NULL =>
        armed[k] \in sch.all /\ at[armed[k]] = Sleeping(k) /\ Waits(sch.status[armed[k]])

\* Who sleeps waits until its timer has fired.
SleeperInv ==
    \A c \in sch.all : at[c].in = "sleep" /\ c \notin poked => Waits(sch.status[c])

SleepInv == TimerInv /\ SleeperInv

\* Steps that wake no sleeper.
LEMMA SleepersRest ==
    ASSUME SleepInv,
           \A c \in sch.all : at[c].in = "sleep" /\ Waits(sch.status[c]) =>
               c \in sch'.all /\ at'[c] = at[c] /\ Waits(sch'.status[c]),
           \A k \in Timer : armed'[k] = armed[k] \/ armed'[k] = NULL,
           \A c \in sch'.all : at'[c].in = "sleep" /\ c \notin poked' =>
               c \in sch.all /\ at[c].in = "sleep" /\ c \notin poked
    PROVE  SleepInv'
<1>1. TimerInv'
  BY DEF SleepInv, TimerInv, Sleeping
<1>2. SleeperInv'
  BY DEF SleepInv, SleeperInv
<1> QED BY <1>1, <1>2 DEF SleepInv

\* Steps that leave the places of all Lua threads alone, and of whose subject
\* it is known that it does not wait in auto.sleep.
LEMMA OneNotSleeping ==
    ASSUME SleepInv, NEW c, sch'.all \subseteq sch.all, UNCHANGED <<at, armed>>,
           sch.all \ {c} \subseteq sch'.all, poked \subseteq poked',
           \A d \in sch.all \ {c} : sch'.status[d] = sch.status[d],
           c \in sch.all => at[c].in # "sleep"
                            \/ (~Waits(sch.status[c]) /\ sch'.status[c] = sch.status[c])
    PROVE  SleepInv'
<1>1. ASSUME NEW d \in sch.all, at[d].in = "sleep", Waits(sch.status[d])
      PROVE  d \in sch'.all /\ Waits(sch'.status[d])
  BY <1>1
<1> QED BY <1>1, SleepersRest

\* Steps after which one Lua thread, not waiting in auto.sleep, is in its script.
LEMMA OneContinues ==
    ASSUME TypeOK, SleepInv, NEW c \in sch.all, at' = [at EXCEPT ![c] = Script],
           sch'.all = sch.all, sch'.status = sch.status, UNCHANGED <<armed, poked>>,
           at[c].in # "sleep" \/ ~Waits(sch.status[c])
    PROVE  SleepInv'
<1>1. /\ c \in Co /\ sch.all \subseteq Co /\ at'[c].in # "sleep"
      /\ \A d \in Co : d # c => at'[d] = at[d]
  BY DEF TypeOK, Schedules, Script
<1>2. /\ \A d \in sch.all : at[d].in = "sleep" /\ Waits(sch.status[d]) => at'[d] = at[d]
      /\ \A d \in sch.all : at'[d].in = "sleep" => at[d].in = "sleep"
  BY <1>1
<1> QED BY <1>2, SleepersRest

\* The steps of the scheduler: whoever is served does not wait.
LEMMA SchedulingSleep == ASSUME IInv, RulesInv, SleepInv, Scheduling PROVE SleepInv'
<1>0. sch.all \subseteq Co /\ sch.status \in [Co -> Status]
  BY DEF IInv, TypeOK, Schedules
<1>1. CASE WakeNext
  <2>1. /\ Head(waking) \in sch.all /\ at[Head(waking)].in = "await"
        /\ pc = "wake" /\ UNCHANGED <<at, armed, poked>>
    BY <1>1, WakeNextRules DEF WakeNext
  <2>2. Becomes(Head(waking), "busy")
    BY <1>1, <2>1, SetStateEffect DEF WakeNext, IInv, SchedInv, Status
  <2>3. sch'.all = sch.all /\ \A d \in sch.all \ {Head(waking)} : sch'.status[d] = sch.status[d]
    BY <1>0, <2>2 DEF Becomes
  <2> QED BY <2>1, <2>3, OneNotSleeping
<1>2. CASE WakeEnd
  BY <1>2, WakeEndEffect, SleepersRest
<1>3. CASE ReapDead
  <2>1. PICK thr \in Co :
          /\ Serving(thr)
          /\ sch' = sch \/ sch' = Destroy(Advance(sch), thr)
    BY <1>3 DEF ReapDead
  <2>2. /\ Sound(sch) /\ sch.iter # NULL /\ thr = sch.iter /\ ~Waits(sch.status[thr])
        /\ UNCHANGED <<at, armed, poked>>
    BY <1>3, <2>1, ServedFacts DEF ReapDead
  <2>3. /\ sch'.status = sch.status
        /\ sch'.all = sch.all \/ sch'.all = sch.all \ {thr}
    BY <2>1, <2>2, ServeDestroy
  <2> QED BY <2>2, <2>3, OneNotSleeping
<1>4. CASE ResumeFinished \/ ResumeAwaitAgain
  <2>1. PICK thr \in Co, st \in {"wait", "error"}, e \in BOOLEAN :
          /\ Serving(thr) /\ (thr \in over \/ at[thr].in = "await")
          /\ Leave(SetState(Advance(sch), thr, st), thr, e)
    BY <1>4 DEF ResumeFinished, ResumeAwaitAgain
  <2>2. UNCHANGED <<at, armed, poked>>
    BY <1>4 DEF ResumeFinished, ResumeAwaitAgain
  <2>3. sch' = SetState(Advance(sch), thr, st) /\ st \in Status
    BY <2>1, LeaveIs DEF Status
  <2>4. Becomes(thr, st) /\ thr \in sch.all
    BY <2>1, <2>3, ServedFacts
  <2>5. sch'.all = sch.all /\ \A d \in sch.all \ {thr} : sch'.status[d] = sch.status[d]
    BY <1>0, <2>4 DEF Becomes
  <2>6. at[thr].in # "sleep"
    BY <2>1, <2>4 DEF RulesInv, CoInv, DeadAtRest
  <2> QED BY <2>2, <2>5, <2>6, OneNotSleeping
<1>5. CASE ResumeScript \/ ResumeAwaitDone
  <2>1. PICK thr \in Co : Serving(thr) /\ at' = [at EXCEPT ![thr] = Script]
    BY <1>5 DEF ResumeScript, ResumeAwaitDone, AwaitDone
  <2>2. sch' = Advance(sch) /\ UNCHANGED <<armed, poked>>
    BY <1>5 DEF ResumeScript, ResumeAwaitDone
  <2>3. /\ thr \in sch.all /\ ~Waits(sch.status[thr])
        /\ sch'.all = sch.all /\ sch'.status = sch.status
    BY <2>1, <2>2, ServedFacts DEF KeepsStatus
  <2> QED BY <2>1, <2>2, <2>3, OneContinues DEF IInv
<1>6. CASE EndPass
  <2>1. UNCHANGED <<sch, at, armed, poked>>
    BY <1>6 DEF EndPass
  <2> QED BY <2>1, SleepersRest
<1> QED BY <1>1, <1>2, <1>3, <1>4, <1>5, <1>6 DEF Scheduling

\* The running script blocks or hands control back.
LEMMA LeaveRunSleep ==
    ASSUME "CloseLast" \in Rules, IInv, RulesInv, SleepInv, LeaveRun
    PROVE  SleepInv'
<1>0. /\ pc = "run" /\ cur \in sch.all /\ cur \in Co /\ at[cur].in = "script"
      /\ sch.all \subseteq Co
  <2>1. pc = "run"
    BY DEF LeaveRun, Yield, Return, Error, AwaitBlocks, Sleep, Running
  <2> QED BY <2>1, RunFacts DEF IInv, TypeOK, Schedules
<1>1. CASE Yield
  <2>1. sch' = sch /\ UNCHANGED <<at, armed, poked>>
    BY <1>1 DEF Yield, Leave
  <2> QED BY <2>1, SleepersRest
<1>2. CASE Return \/ Error
  <2>1. UNCHANGED <<at, armed, poked>>
    BY <1>2 DEF Return, Error
  <2>2. sch'.all = sch.all /\ \A d \in sch.all \ {cur} : sch'.status[d] = sch.status[d]
    BY <1>2, FinishRules
  <2> QED BY <1>0, <2>1, <2>2, OneNotSleeping
<1>3. CASE \E t \in Co : AwaitBlocks(t)
  <2>1. PICK t \in Co : AwaitBlocks(t)
    BY <1>3
  <2>2. sch'.all = sch.all /\ \A d \in sch.all \ {cur} : sch'.status[d] = sch.status[d]
    BY <2>1, AwaitBlocksRules
  <2>3. at' = [at EXCEPT ![cur] = Awaiting(t)] /\ UNCHANGED <<armed, poked>>
    BY <2>1 DEF AwaitBlocks
  <2>4. at'[cur].in = "await" /\ \A d \in sch.all : d # cur => at'[d] = at[d]
    BY <1>0, <2>3 DEF IInv, TypeOK, Awaiting
  <2>5. /\ \A d \in sch.all : at[d].in = "sleep" => d # cur
        /\ \A d \in sch.all : at'[d].in = "sleep" => d # cur
    BY <1>0, <2>4
  <2> QED BY <2>2, <2>3, <2>4, <2>5, SleepersRest
<1>4. CASE \E k \in Timer : Sleep(k)
  <2>1. PICK k \in Timer : Sleep(k)
    BY <1>4
  <2>2. sch'.all = sch.all /\ \A d \in sch.all \ {cur} : sch'.status[d] = sch.status[d]
    BY <2>1, SleepRules
  <2>3. /\ at' = [at EXCEPT ![cur] = Sleeping(k)] /\ armed' = [armed EXCEPT ![k] = cur]
        /\ poked' = poked \ {cur} /\ sch' = SetState(sch, cur, "wait")
    BY <2>1 DEF Sleep
  <2>4. /\ at'[cur] = Sleeping(k) /\ \A d \in sch.all : d # cur => at'[d] = at[d]
        /\ armed'[k] = cur /\ \A j \in Timer : j # k => armed'[j] = armed[j]
    BY <1>0, <2>3 DEF IInv, TypeOK
  <2>5. Waits(sch'.status[cur])
    <3>1. Becomes(cur, "wait")
      BY <1>0, <2>3, SetStateEffect, RunFacts DEF Status
    <3> QED BY <1>0, <3>1 DEF Becomes, Waits, IInv, TypeOK, Schedules
  <2>6. TimerInv'
    <3> SUFFICES ASSUME NEW j \in Timer, armed'[j] # NULL
                 PROVE  /\ armed'[j] \in sch.all /\ at'[armed'[j]] = Sleeping(j)
                        /\ Waits(sch'.status[armed'[j]])
      BY <2>2 DEF TimerInv
    <3>1. CASE j = k
      BY <1>0, <2>4, <2>5, <3>1
    <3>2. CASE j # k
      <4>1. /\ armed'[j] = armed[j] /\ armed[j] \in sch.all
            /\ at[armed[j]] = Sleeping(j) /\ Waits(sch.status[armed[j]])
        BY <2>4, <3>2 DEF SleepInv, TimerInv
      <4>2. armed[j] # cur
        BY <1>0, <4>1 DEF Sleeping
      <4> QED BY <2>2, <2>4, <4>1, <4>2
    <3> QED BY <3>1, <3>2
  <2>7. SleeperInv'
    <3> SUFFICES ASSUME NEW d \in sch.all, at'[d].in = "sleep", d \notin poked'
                 PROVE  Waits(sch'.status[d])
      BY <2>2 DEF SleeperInv
    <3>1. CASE d = cur
      BY <2>5, <3>1
    <3>2. CASE d # cur
      BY <2>2, <2>3, <2>4, <3>2 DEF SleepInv, SleeperInv
    <3> QED BY <3>1, <3>2
  <2> QED BY <2>6, <2>7 DEF SleepInv
<1> QED BY <1>1, <1>2, <1>3, <1>4 DEF LeaveRun

\* What the running script does with other coroutines.
LEMMA StayInRunSleep ==
    ASSUME "CloseLast" \in Rules, "NoEarlyWake" \in Rules, IInv, RulesInv, SleepInv, StayInRun
    PROVE  SleepInv'
<1>0. /\ pc = "run" /\ cur \in sch.all /\ at[cur].in = "script" /\ Sound(sch)
      /\ sch.all \subseteq Co /\ sch.status \in [Co -> Status]
  <2>1. pc = "run"
    BY DEF StayInRun, Spawn, AwaitNow, Suspend, Resume, Close, CollectObject, CollectTimer, Running
  <2> QED BY <2>1, RunFacts DEF IInv, TypeOK, Schedules
<1>1. ASSUME NEW c \in Co, Spawn(c) PROVE SleepInv'
  <2>1. /\ c \notin sch.all /\ at[c].in = "script" /\ sch'.all = sch.all \cup {c}
        /\ \A d \in sch.all : sch'.status[d] = sch.status[d]
    BY <1>1, SpawnRules
  <2>2. UNCHANGED <<at, armed, poked>>
    BY <1>1 DEF Spawn
  <2> QED BY <2>1, <2>2, SleepersRest
<1>2. ASSUME NEW t \in Co, AwaitNow(t) PROVE SleepInv'
  <2>1. at' = [at EXCEPT ![cur] = Script] /\ UNCHANGED <<sch, armed, poked>>
    BY <1>2 DEF AwaitNow, AwaitDone
  <2> QED BY <1>0, <2>1, OneContinues DEF IInv
<1>3. ASSUME NEW t \in Co, NEW st \in {"wait", "busy"}, SetTarget(t, st),
             st = "busy" => at[t].in # "sleep", UNCHANGED <<at, armed>>, poked \subseteq poked'
      PROVE  SleepInv'
  <2>1. sch' = sch \/ (t \in sch.all /\ Becomes(t, st))
    BY <1>0, <1>3, SetStateEffect DEF SetTarget, Status
  <2>2. /\ sch'.all = sch.all /\ \A d \in sch.all \ {t} : sch'.status[d] = sch.status[d]
        /\ st = "wait" /\ t \in sch.all /\ Waits(sch.status[t]) => Waits(sch'.status[t])
    BY <1>0, <2>1 DEF Becomes, Waits
  <2>3. CASE st = "busy"
    BY <1>3, <2>2, <2>3, OneNotSleeping
  <2>4. CASE st = "wait"
    BY <1>3, <2>2, <2>4, SleepersRest
  <2> QED BY <2>3, <2>4
<1>4. ASSUME NEW t \in Co, Suspend(t) PROVE SleepInv'
  <2>1. SetTarget(t, "wait") /\ UNCHANGED <<at, armed, poked>>
    BY <1>4 DEF Suspend
  <2> QED BY <1>3, <2>1
<1>5. ASSUME NEW t \in Co, Resume(t) PROVE SleepInv'
  <2>1. SetTarget(t, "busy") /\ UNCHANGED <<at, armed>> /\ at[t].in # "sleep"
        /\ poked \subseteq poked'
    BY <1>5 DEF Resume
  <2> QED BY <1>3, <2>1
<1>6. ASSUME NEW t \in Co, Close(t) PROVE SleepInv'
  <2>1. /\ t = cur /\ sch'.all = sch.all
        /\ \A d \in sch.all \ {t} : sch'.status[d] = sch.status[d]
    BY <1>6, CloseRules
  <2>2. UNCHANGED <<at, armed, poked>>
    BY <1>6 DEF Close
  <2> QED BY <1>0, <2>1, <2>2, OneNotSleeping
<1>7. ASSUME NEW t \in Co, CollectObject(t) PROVE SleepInv'
  <2>1. UNCHANGED <<sch, at, armed, poked>>
    BY <1>7 DEF CollectObject
  <2> QED BY <2>1, SleepersRest
<1>8. ASSUME NEW k \in Timer, CollectTimer(k) PROVE SleepInv'
  <2>1. UNCHANGED <<sch, at, poked>> /\ armed' = [armed EXCEPT ![k] = NULL]
    BY <1>8 DEF CollectTimer
  <2>2. \A j \in Timer : armed'[j] = armed[j] \/ armed'[j] = NULL
    BY <2>1 DEF IInv, TypeOK
  <2> QED BY <2>1, <2>2, SleepersRest
<1> QED BY <1>1, <1>2, <1>4, <1>5, <1>6, <1>7, <1>8 DEF StayInRun

\* The timer that fires is that of a sleeper, which it wakes.
LEMMA TimerFiresSleep ==
    ASSUME IInv, SleepInv, NEW k \in Timer, TimerFires(k)
    PROVE  /\ SleepInv' /\ pc' = "poll"
           /\ armed[k] \in sch.all /\ Waits(sch.status[armed[k]])
           /\ \A d \in sch.all \ {armed[k]} : sch'.status[d] = sch.status[d]
<1> DEFINE c == armed[k]
<1>1. /\ pc = "poll" /\ c # NULL /\ armed' = [armed EXCEPT ![k] = NULL] /\ UNCHANGED at
      /\ poked' = (IF at[c] = Sleeping(k) THEN poked \cup {c} ELSE poked)
      /\ c \in sch.all => sch' = SetState(sch, c, "busy") /\ pc' = pc
  BY DEF TimerFires
<1>2. c \in sch.all /\ at[c] = Sleeping(k) /\ Waits(sch.status[c])
  BY <1>1 DEF SleepInv, TimerInv
<1>3. Becomes(c, "busy") /\ pc' = "poll"
  BY <1>1, <1>2, SetStateEffect DEF IInv, SchedInv, Status
<1>4. sch'.all = sch.all /\ \A d \in sch.all \ {c} : sch'.status[d] = sch.status[d]
  BY <1>3 DEF Becomes, IInv, TypeOK, Schedules
<1>5. armed'[k] = NULL /\ \A j \in Timer : j # k => armed'[j] = armed[j]
  BY <1>1 DEF IInv, TypeOK
<1>6. TimerInv'
  <2> SUFFICES ASSUME NEW j \in Timer, armed'[j] # NULL
               PROVE  /\ armed'[j] \in sch.all /\ at[armed'[j]] = Sleeping(j)
                      /\ Waits(sch'.status[armed'[j]])
    BY <1>1, <1>4 DEF TimerInv
  <2>1. /\ j # k /\ armed'[j] = armed[j] /\ armed[j] \in sch.all
        /\ at[armed[j]] = Sleeping(j) /\ Waits(sch.status[armed[j]])
    BY <1>5 DEF SleepInv, TimerInv
  <2>2. armed[j] # c
    BY <1>2, <2>1 DEF Sleeping
  <2> QED BY <1>4, <2>1, <2>2
<1>7. SleeperInv'
  BY <1>1, <1>2, <1>4 DEF SleepInv, SleeperInv
<1> QED BY <1>2, <1>3, <1>4, <1>6, <1>7 DEF SleepInv

\* Every step keeps the invariant of the sleepers.
LEMMA StepSleep ==
    ASSUME "CloseLast" \in Rules, "NoEarlyWake" \in Rules, IInv, RulesInv, SleepInv, [Next]_vars
    PROVE  SleepInv'
<1>1. CASE Scheduling
  BY <1>1, SchedulingSleep
<1>2. CASE LeaveRun
  BY <1>2, LeaveRunSleep
<1>3. CASE StayInRun
  BY <1>3, StayInRunSleep
<1>4. CASE FireTimer
  BY <1>4, TimerFiresSleep DEF FireTimer
<1>5. CASE PollReturn
  <2>1. UNCHANGED <<at, armed, poked>>
    BY <1>5 DEF PollReturn
  <2>2. sch'.all = sch.all /\ sch'.status = sch.status
    BY <1>5, EventLoopRules
  <2> QED BY <2>1, <2>2, SleepersRest
<1>6. CASE Shutdown
  <2>1. sch'.all = {} /\ armed' = [k \in Timer |-> NULL]
    BY <1>6 DEF Shutdown, IInv, TypeOK, Schedules
  <2> QED BY <2>1 DEF SleepInv, TimerInv, SleeperInv
<1>7. CASE UNCHANGED vars
  BY <1>7 DEF vars, SleepInv, TimerInv, SleeperInv
<1> QED BY <1>1, <1>2, <1>3, <1>4, <1>5, <1>6, <1>7 DEF Next

\* At first nobody sleeps.
LEMMA InitSleep == Init => SleepInv
<1>1. Init => sch.all = {Main}
  BY MainAssumption, FirstPass DEF Init
<1> QED BY <1>1, MainAssumption DEF Init, SleepInv, TimerInv, SleeperInv, Script

\* SleepInv, on top of RulesInv, is inductive if nobody resumes a sleeper.
THEOREM SleepInductive ==
    ASSUME "CloseLast" \in Rules, "NoEarlyWake" \in Rules
    PROVE  Spec => []SleepInv
<1>1. IInv /\ RulesInv /\ SleepInv /\ [Next]_vars => SleepInv'
  BY StepSleep
<1> QED BY <1>1, InitSleep, RulesInductive, PTL DEF Spec

\* auto.sleep returns when its own timer has fired, or when a script resumed the
\* sleeper on purpose (docs/sleep.md:11).
THEOREM SleepLasts ==
    ASSUME "CloseLast" \in Rules, "NoEarlyWake" \in Rules
    PROVE  Spec => SleepNotCutShort
<1>1. ASSUME IInv, SleepInv, Next, NEW c \in Co,
             at[c].in = "sleep", at'[c].in # "sleep"
      PROVE  c \in poked
  <2>1. PICK b \in sch.all :
          /\ \E place : at' = [at EXCEPT ![b] = place]
          /\ at[b].in # "sleep" \/ ~Waits(sch.status[b])
    <3>1. CASE ResumeScript \/ ResumeAwaitDone
      <4>1. PICK thr \in Co : Serving(thr) /\ at' = [at EXCEPT ![thr] = Script]
        BY <3>1 DEF ResumeScript, ResumeAwaitDone, AwaitDone
      <4> QED BY <1>1, <4>1, ServedFacts
    <3>2. CASE \/ \E t \in Co : AwaitBlocks(t) \/ AwaitNow(t)
               \/ \E k \in Timer : Sleep(k)
      <4>1. pc = "run" /\ \E place : at' = [at EXCEPT ![cur] = place]
        BY <3>2 DEF AwaitBlocks, AwaitNow, AwaitDone, Sleep, Running
      <4> QED BY <1>1, <4>1, RunFacts
    <3>3. CASE \/ WakeNext \/ WakeEnd \/ ReapDead \/ ResumeFinished \/ ResumeAwaitAgain
               \/ EndPass \/ Yield \/ Return \/ Error \/ FireTimer \/ PollReturn \/ Shutdown
               \/ \E t \in Co : \/ Spawn(t) \/ Suspend(t) \/ Resume(t) \/ Close(t)
                                \/ CollectObject(t)
               \/ \E k \in Timer : CollectTimer(k)
      <4>1. UNCHANGED at
        BY <3>3 DEF WakeNext, WakeEnd, ReapDead, ResumeFinished, ResumeAwaitAgain, EndPass,
                    Yield, Return, Error, FireTimer, TimerFires, PollReturn, Shutdown, Spawn,
                    Suspend, Resume, Close, CollectObject, CollectTimer
      <4> QED BY <1>1, <4>1
    <3> QED BY <1>1, <3>1, <3>2, <3>3 DEF Next, Scheduling, LeaveRun, StayInRun
  <2>2. b = c
    BY <1>1, <2>1 DEF IInv, TypeOK
  <2> QED BY <1>1, <2>1, <2>2 DEF SleepInv, SleeperInv
<1>2. IInv /\ SleepInv /\ [Next]_vars =>
        [\A c \in Co : (at[c].in = "sleep" /\ at'[c].in # "sleep") => c \in poked]_vars
  BY <1>1
<1> QED BY <1>2, Inductive, SleepInductive, PTL DEF Spec, SleepNotCutShort

-----------------------------------------------------------------------------
(***************************************************************************)
(* Handles, when scripts also leave alone what is finished or closed.      *)
(***************************************************************************)

\* suspend() and resume() find their target, which is not over.
LEMMA TargetLives ==
    ASSUME "LiveTarget" \in Rules, IInv, RulesInv, NEW t \in Targets, pc = "run"
    PROVE  t \in sch.all /\ t \notin over /\ ~obj[t].closed
  BY DEF Targets, RulesInv, CoInv, HandleGood, Finished

\* Every pointer a call follows is that of a registered coroutine.
LEMMA StepHandles ==
    ASSUME "CloseLast" \in Rules, "LiveTarget" \in Rules, IInv, RulesInv, SleepInv,
           pc # "ub", [Next]_vars
    PROVE  pc' # "ub"
<1>1. CASE WakeNext
  <2>1. pc = "wake" /\ Head(waking) \in sch.all
    BY <1>1, WakeNextRules DEF WakeNext
  <2> QED BY <1>1, <2>1 DEF WakeNext
<1>2. CASE FireTimer
  BY <1>2, TimerFiresSleep DEF FireTimer
<1>3. CASE \E t \in Co : Suspend(t) \/ Resume(t) \/ Close(t)
  <2>1. PICK t \in Targets : \E st \in Status : pc = "run" /\ SetTarget(t, st)
    BY <1>3 DEF Suspend, Resume, Close, Running, Status
  <2>2. t \in sch.all
    BY <2>1, TargetLives
  <2> QED BY <2>1, <2>2 DEF SetTarget
<1>4. CASE \/ WakeEnd \/ ReapDead \/ ResumeFinished \/ ResumeScript \/ ResumeAwaitDone
           \/ ResumeAwaitAgain \/ EndPass \/ LeaveRun \/ PollReturn \/ Shutdown
           \/ UNCHANGED vars
  BY <1>4 DEF WakeEnd, ReapDead, ResumeFinished, ResumeScript, ResumeAwaitDone,
              ResumeAwaitAgain, EndPass, LeaveRun, Yield, Return, Error, AwaitBlocks,
              Sleep, PollReturn, Shutdown, Leave, vars
<1>5. CASE \/ \E c \in Co : Spawn(c) \/ AwaitNow(c) \/ CollectObject(c)
           \/ \E k \in Timer : CollectTimer(k)
  BY <1>5 DEF Spawn, AwaitNow, CollectObject, CollectTimer
<1> QED BY <1>1, <1>2, <1>3, <1>4, <1>5 DEF Next, Scheduling, StayInRun

\* No coroutine object is used after its coroutine was destroyed
\* (autodo.h:579-581).
THEOREM HandlesAreGood ==
    ASSUME "CloseLast" \in Rules, "NoEarlyWake" \in Rules, "LiveTarget" \in Rules
    PROVE  Spec => []NoUseAfterDestroy
<1>1. Init => NoUseAfterDestroy
  BY DEF Init, NoUseAfterDestroy
<1>2. IInv /\ RulesInv /\ SleepInv /\ NoUseAfterDestroy /\ [Next]_vars => NoUseAfterDestroy'
  BY StepHandles DEF NoUseAfterDestroy
<1> QED BY <1>1, <1>2, RulesInductive, SleepInductive, PTL DEF Spec

\* The steps that set a state set that of a coroutine that was not dead, unless
\* they leave it dead.
LEMMA StepDead ==
    ASSUME "CloseLast" \in Rules, "LiveTarget" \in Rules, IInv, RulesInv, SleepInv, Next,
           NEW c \in Co, c \in over, c \in sch.all, IsDead(sch.status[c])
    PROVE  IsDead(sch'.status[c])
<1>0. at[c].in = "script" /\ ~Waits(sch.status[c]) /\ sch.status \in [Co -> Status]
  BY DEF RulesInv, CoInv, DeadAtRest, IsDead, Waits, IInv, TypeOK, Schedules
<1>1. CASE WakeNext
  <2>1. Head(waking) \in sch.all /\ Head(waking) # c /\ pc = "wake"
    BY <1>0, <1>1, WakeNextRules DEF WakeNext
  <2>2. Becomes(Head(waking), "busy")
    BY <1>1, <2>1, SetStateEffect DEF WakeNext, IInv, SchedInv, Status
  <2> QED BY <1>0, <2>1, <2>2 DEF Becomes
<1>2. CASE ReapDead
  <2>1. PICK thr \in Co : Serving(thr) /\ (sch' = sch \/ sch' = Destroy(Advance(sch), thr))
    BY <1>2 DEF ReapDead
  <2>2. Sound(sch) /\ sch.iter # NULL /\ thr = sch.iter
    BY <2>1, ServedFacts
  <2> QED BY <2>1, <2>2, ServeDestroy
<1>3. CASE ResumeFinished \/ ResumeAwaitAgain
  <2>1. PICK thr \in Co, st \in {"wait", "error"}, e \in BOOLEAN :
          /\ Serving(thr) /\ ~IsDead(sch.status[thr])
          /\ Leave(SetState(Advance(sch), thr, st), thr, e)
    BY <1>3 DEF ResumeFinished, ResumeAwaitAgain
  <2>2. sch' = SetState(Advance(sch), thr, st) /\ st \in Status
    BY <2>1, LeaveIs DEF Status
  <2>3. Becomes(thr, st) /\ thr # c
    BY <2>1, <2>2, ServedFacts
  <2> QED BY <1>0, <2>3 DEF Becomes
<1>4. CASE ResumeScript \/ ResumeAwaitDone
  <2>1. PICK thr \in Co : Serving(thr) /\ sch' = Advance(sch)
    BY <1>4 DEF ResumeScript, ResumeAwaitDone
  <2> QED BY <2>1, ServedFacts DEF KeepsStatus
<1>5. CASE EndPass \/ PollReturn
  BY <1>5, EventLoopRules
<1>6. CASE LeaveRun
  <2>1. CASE Yield
    <3>1. sch' = sch
      BY <2>1 DEF Yield, Leave
    <3> QED BY <3>1
  <2>2. CASE Return \/ Error
    BY <2>2, FinishRules
  <2>3. CASE (\E t \in Co : AwaitBlocks(t)) \/ (\E k \in Timer : Sleep(k))
    <3>1. /\ pc = "run"
          /\ \A d \in sch.all \ {cur} : sch'.status[d] = sch.status[d]
      BY <2>3, AwaitBlocksRules, SleepRules DEF AwaitBlocks, Sleep, Running
    <3> QED BY <3>1 DEF RulesInv
  <2> QED BY <1>6, <2>1, <2>2, <2>3 DEF LeaveRun
<1>7. CASE \E d \in Co : Spawn(d)
  BY <1>7, SpawnRules
<1>8. CASE \E t \in Co : Suspend(t) \/ Resume(t)
  <2>1. PICK t \in Targets, st \in {"wait", "busy"} : pc = "run" /\ SetTarget(t, st)
    BY <1>8 DEF Suspend, Resume, Running
  <2>2. t \in sch.all /\ t # c /\ Sound(sch) /\ st \in Status
    BY <2>1, TargetLives, RunFacts DEF Status
  <2>3. Becomes(t, st)
    BY <2>1, <2>2, SetStateEffect DEF SetTarget
  <2> QED BY <1>0, <2>2, <2>3 DEF Becomes
<1>9. CASE \E t \in Co : Close(t)
  BY <1>9, CloseRules
<1>10. CASE FireTimer
  <2>1. PICK k \in Timer : TimerFires(k)
    BY <1>10 DEF FireTimer
  <2> QED BY <1>0, <2>1, TimerFiresSleep
<1>11. CASE \/ WakeEnd \/ Shutdown \/ (\E k \in Timer : CollectTimer(k))
            \/ \E d \in Co : AwaitNow(d) \/ CollectObject(d)
  <2>1. sch'.status = sch.status
    BY <1>11 DEF WakeEnd, Shutdown, CollectTimer, AwaitNow, CollectObject,
                 IInv, TypeOK, Schedules
  <2> QED BY <2>1
<1> QED BY <1>1, <1>2, <1>3, <1>4, <1>5, <1>6, <1>7, <1>8, <1>9, <1>10, <1>11
        DEF Next, Scheduling, StayInRun

\* A dead coroutine whose Lua thread is over never becomes schedulable again
\* (autodo.h:558).
THEOREM TheDeadStayDead ==
    ASSUME "CloseLast" \in Rules, "NoEarlyWake" \in Rules, "LiveTarget" \in Rules
    PROVE  Spec => DeadStaysDead
<1>1. IInv /\ RulesInv /\ SleepInv /\ [Next]_vars =>
        [\A c \in Co : (c \in over /\ c \in sch.all /\ IsDead(sch.status[c])) =>
            IsDead(sch'.status[c])]_vars
  BY StepDead
<1> QED BY <1>1, RulesInductive, SleepInductive, PTL DEF Spec, DeadStaysDead
=============================================================================
