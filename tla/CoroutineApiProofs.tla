------------------------- MODULE CoroutineApiProofs -------------------------
(***************************************************************************)
(* What every operation on the schedule record preserves.  Each lemma is   *)
(* about one operator of CoroutineApi: the queues still match the status,  *)
(* the cursor is still linked, and what was ahead of the cursor still is,  *)
(* but for the coroutine the operation is about.                           *)
(***************************************************************************)
EXTENDS CoroutineApi, CursorListProofs

Sound(s) ==
    /\ s \in Schedules
    /\ QueuesMatch(s)
    /\ s.iter \in ToSet(s.busy) \cup {NULL}

StillAhead(s) == Ahead(s.busy, s.iter)

\* A record with the right components is a schedule.
LEMMA MakeSchedule ==
    ASSUME NEW t,
           t = [all |-> t.all, busy |-> t.busy, wait |-> t.wait,
                iter |-> t.iter, status |-> t.status],
           t.all \in SUBSET Co, t.busy \in Seq(Co), t.wait \in Seq(Co),
           t.iter \in Co \cup {NULL}, t.status \in [Co -> Status]
    PROVE  t \in Schedules
  BY DEF Schedules

\* host() links a new coroutine behind everything else.
LEMMA HostSound ==
    ASSUME NEW s, Sound(s), NEW c \in Co, c \notin s.all
    PROVE  /\ Sound(Host(s, c))
           /\ StillAhead(s) \subseteq StillAhead(Host(s, c))
           /\ Host(s, c).all = s.all \cup {c}
           /\ Host(s, c).status = [s.status EXCEPT ![c] = "busy"]
<1> DEFINE t == Host(s, c)
<1>1. s \in Schedules /\ QueuesMatch(s)
  BY DEF Sound
<1>2. /\ t.all = s.all \cup {c}
      /\ t.busy = Append(s.busy, c)
      /\ t.wait = s.wait
      /\ t.iter = s.iter
      /\ t.status = [s.status EXCEPT ![c] = "busy"]
      /\ t = [all |-> t.all, busy |-> t.busy, wait |-> t.wait,
              iter |-> t.iter, status |-> t.status]
  BY <1>1 DEF Host, Schedules
<1> HIDE DEF t
<1>3. c \notin ToSet(s.busy) /\ c \notin ToSet(s.wait)
  BY <1>1 DEF QueuesMatch
<1>4. s.busy \in Seq(Co) /\ IsInjective(s.busy)
  BY <1>1 DEF Schedules, QueuesMatch
<1>5. /\ ToSet(t.busy) = ToSet(s.busy) \cup {c}
      /\ Ahead(s.busy, s.iter) \subseteq Ahead(t.busy, s.iter)
      /\ IsInjective(t.busy)
  BY <1>2, <1>3, <1>4, AppendNode
<1>6. QueuesMatch(t)
  BY <1>1, <1>2, <1>3, <1>5 DEF QueuesMatch, Schedules, Waits
<1>7. t \in Schedules
  <2>1. t.all \in SUBSET Co /\ t.status \in [Co -> Status]
    BY <1>1, <1>2 DEF Schedules, Status
  <2>2. t.busy \in Seq(Co) /\ t.wait \in Seq(Co) /\ t.iter \in Co \cup {NULL}
    BY <1>1, <1>2, <1>4, AppendNode DEF Schedules
  <2> QED BY <1>2, <2>1, <2>2, MakeSchedule
<1>8. Sound(t)
  BY <1>2, <1>5, <1>6, <1>7 DEF Sound
<1> QED BY <1>2, <1>5, <1>8 DEF t, StillAhead

\* set_state() on a registered coroutine: whoever moves to the wait queue is
\* the only one the scheduler's cursor loses sight of.
LEMMA SetStateSound ==
    ASSUME NEW s, Sound(s), NEW c \in s.all, NEW st \in Status
    PROVE  /\ Sound(SetState(s, c, st))
           /\ StillAhead(s) \ {d \in {c} : Waits(st)} \subseteq StillAhead(SetState(s, c, st))
           /\ SetState(s, c, st).all = s.all
           /\ SetState(s, c, st).status = [s.status EXCEPT ![c] = st]
<1> DEFINE t == SetState(s, c, st)
<1>1. s \in Schedules /\ QueuesMatch(s) /\ c \in Co
  BY DEF Sound, Schedules
<1>2. /\ s.busy \in Seq(Co) /\ IsInjective(s.busy)
      /\ s.wait \in Seq(Co) /\ IsInjective(s.wait)
      /\ s.iter \in ToSet(s.busy) \cup {NULL}
      /\ NULL \notin Co
      /\ s.status \in [Co -> Status]
  BY <1>1, NullAssumption DEF Schedules, QueuesMatch, Sound
<1>3. CASE Waits(s.status[c]) /\ ~Waits(st)
  <2>1. c \in ToSet(s.wait) /\ c \notin ToSet(s.busy)
    BY <1>1, <1>3 DEF QueuesMatch
  <2>2. t = [s EXCEPT !.status[c] = st, !.wait = Erase(@, c), !.busy = Append(@, c)]
    BY <1>3 DEF SetState
  <2>3. /\ t.all = s.all
        /\ t.busy = Append(s.busy, c)
        /\ t.wait = Erase(s.wait, c)
        /\ t.iter = s.iter
        /\ t.status = [s.status EXCEPT ![c] = st]
        /\ t = [all |-> t.all, busy |-> t.busy, wait |-> t.wait,
                iter |-> t.iter, status |-> t.status]
    BY <1>1, <2>2 DEF Schedules
  <2> HIDE DEF t
  <2>4. /\ t.busy \in Seq(Co) /\ IsInjective(t.busy)
        /\ ToSet(t.busy) = ToSet(s.busy) \cup {c}
        /\ Ahead(s.busy, s.iter) \subseteq Ahead(t.busy, s.iter)
    BY <1>1, <1>2, <2>1, <2>3, AppendNode
  <2>5. /\ t.wait \in Seq(Co) /\ IsInjective(t.wait)
        /\ ToSet(t.wait) = ToSet(s.wait) \ {c}
    BY <1>2, <2>1, <2>3, EraseNode
  <2>6. t \in Schedules
    <3>1. t.all \in SUBSET Co /\ t.iter \in Co \cup {NULL}
      BY <1>1, <2>3 DEF Schedules
    <3>2. t.status \in [Co -> Status]
      BY <1>2, <2>3
    <3> QED BY <2>3, <2>4, <2>5, <3>1, <3>2, MakeSchedule
  <2>7. QueuesMatch(t)
    BY <1>1, <1>2, <1>3, <2>3, <2>4, <2>5 DEF QueuesMatch
  <2> QED BY <1>2, <2>3, <2>4, <2>6, <2>7 DEF t, Sound, StillAhead
<1>4. CASE ~Waits(s.status[c]) /\ Waits(st)
  <2>1. c \in ToSet(s.busy) /\ c \notin ToSet(s.wait)
    BY <1>1, <1>4 DEF QueuesMatch
  <2>2. t = [s EXCEPT !.status[c] = st, !.iter = SkipErased(s.busy, @, c),
                      !.busy = Erase(@, c), !.wait = Append(@, c)]
    BY <1>4 DEF SetState
  <2>3. /\ t.all = s.all
        /\ t.busy = Erase(s.busy, c)
        /\ t.wait = Append(s.wait, c)
        /\ t.iter = SkipErased(s.busy, s.iter, c)
        /\ t.status = [s.status EXCEPT ![c] = st]
        /\ t = [all |-> t.all, busy |-> t.busy, wait |-> t.wait,
                iter |-> t.iter, status |-> t.status]
    BY <1>1, <2>2 DEF Schedules
  <2> HIDE DEF t
  <2>4. /\ t.busy \in Seq(Co) /\ IsInjective(t.busy)
        /\ ToSet(t.busy) = ToSet(s.busy) \ {c}
        /\ t.iter \in ToSet(t.busy) \cup {NULL}
        /\ Ahead(t.busy, t.iter) = Ahead(s.busy, s.iter) \ {c}
    BY <1>2, <2>1, <2>3, EraseNode
  <2>5. /\ t.wait \in Seq(Co) /\ IsInjective(t.wait)
        /\ ToSet(t.wait) = ToSet(s.wait) \cup {c}
    BY <1>1, <1>2, <2>1, <2>3, AppendNode
  <2>6. t.iter \in Co \cup {NULL}
    BY <1>2, <2>4, AheadBounds
  <2>7. t \in Schedules
    <3>1. t.all \in SUBSET Co
      BY <1>1, <2>3 DEF Schedules
    <3>2. t.status \in [Co -> Status]
      BY <1>2, <2>3
    <3> QED BY <2>3, <2>4, <2>5, <2>6, <3>1, <3>2, MakeSchedule
  <2>8. QueuesMatch(t)
    BY <1>1, <1>2, <1>4, <2>3, <2>4, <2>5 DEF QueuesMatch
  <2> QED BY <1>2, <1>4, <2>3, <2>4, <2>7, <2>8 DEF t, Sound, StillAhead
<1>5. CASE Waits(s.status[c]) <=> Waits(st)
  <2>1. t = [s EXCEPT !.status[c] = st]
    BY <1>5 DEF SetState
  <2>2. /\ t.all = s.all /\ t.busy = s.busy /\ t.wait = s.wait /\ t.iter = s.iter
        /\ t.status = [s.status EXCEPT ![c] = st]
        /\ t \in Schedules
    BY <1>1, <2>1 DEF Schedules
  <2> HIDE DEF t
  <2>3. QueuesMatch(t)
    BY <1>1, <1>2, <1>5, <2>2 DEF QueuesMatch
  <2> QED BY <1>2, <2>2, <2>3 DEF t, Sound, StillAhead
<1> QED BY <1>3, <1>4, <1>5

\* Advancing the cursor leaves the coroutine it pointed at behind.
LEMMA AdvanceSound ==
    ASSUME NEW s, Sound(s), s.iter # NULL
    PROVE  /\ Sound(Advance(s))
           /\ StillAhead(s) \ {s.iter} \subseteq StillAhead(Advance(s))
           /\ Advance(s).iter # s.iter
           /\ Advance(s).all = s.all
           /\ Advance(s).status = s.status
<1> DEFINE t == Advance(s)
<1>1. /\ s \in Schedules /\ QueuesMatch(s) /\ s.iter \in ToSet(s.busy)
      /\ s.busy \in Seq(Co) /\ IsInjective(s.busy) /\ NULL \notin Co
  BY NullAssumption DEF Sound, Schedules, QueuesMatch
<1>2. ~Waits(s.status[s.iter])
  BY <1>1 DEF QueuesMatch
<1>3. t = [s EXCEPT !.iter = Successor(s.busy, s.iter)]
  BY <1>1, <1>2 DEF Advance, Schedules
<1>4. /\ t.all = s.all /\ t.busy = s.busy /\ t.wait = s.wait
      /\ t.status = s.status /\ t.iter = Successor(s.busy, s.iter)
      /\ t = [all |-> t.all, busy |-> t.busy, wait |-> t.wait,
              iter |-> t.iter, status |-> t.status]
  BY <1>1, <1>3 DEF Schedules
<1> HIDE DEF t
<1>5. /\ t.iter \in ToSet(t.busy) \cup {NULL}
      /\ t.iter # s.iter
      /\ Ahead(t.busy, t.iter) = Ahead(s.busy, s.iter) \ {s.iter}
  BY <1>1, <1>4, AheadOfSuccessor
<1>6. t.iter \in Co \cup {NULL}
  BY <1>1, <1>4, <1>5, AheadBounds
<1>7. t \in Schedules
  BY <1>1, <1>4, <1>6 DEF Schedules
<1>8. QueuesMatch(t)
  BY <1>1, <1>4 DEF QueuesMatch
<1> QED BY <1>4, <1>5, <1>7, <1>8 DEF t, Sound, StillAhead

\* Destroying a coroutine the cursor does not point at.
LEMMA DestroySound ==
    ASSUME NEW s, Sound(s), NEW c \in s.all, s.iter # c
    PROVE  /\ Sound(Destroy(s, c))
           /\ StillAhead(s) \ {c} \subseteq StillAhead(Destroy(s, c))
           /\ Destroy(s, c).all = s.all \ {c}
           /\ Destroy(s, c).status = s.status
           /\ Destroy(s, c).iter = s.iter
<1> DEFINE t == Destroy(s, c)
<1>1. /\ s \in Schedules /\ QueuesMatch(s) /\ c \in Co
      /\ s.busy \in Seq(Co) /\ IsInjective(s.busy) /\ NULL \notin Co
      /\ s.wait \in Seq(Co) /\ IsInjective(s.wait)
      /\ s.iter \in ToSet(s.busy) \cup {NULL}
  BY NullAssumption DEF Sound, Schedules, QueuesMatch
<1>2. CASE Waits(s.status[c])
  <2>1. c \in ToSet(s.wait) /\ c \notin ToSet(s.busy)
    BY <1>1, <1>2 DEF QueuesMatch
  <2>2. /\ t.all = s.all \ {c} /\ t.busy = s.busy /\ t.wait = Erase(s.wait, c)
        /\ t.status = s.status /\ t.iter = s.iter
        /\ t = [all |-> t.all, busy |-> t.busy, wait |-> t.wait,
                iter |-> t.iter, status |-> t.status]
    BY <1>1, <1>2 DEF Destroy, Schedules
  <2> HIDE DEF t
  <2>3. /\ t.wait \in Seq(Co) /\ IsInjective(t.wait)
        /\ ToSet(t.wait) = ToSet(s.wait) \ {c}
    BY <1>1, <2>1, <2>2, EraseNode
  <2>4. t \in Schedules
    BY <1>1, <2>2, <2>3 DEF Schedules
  <2>5. QueuesMatch(t)
    BY <1>1, <1>2, <2>2, <2>3 DEF QueuesMatch
  <2> QED BY <1>1, <2>2, <2>4, <2>5 DEF t, Sound, StillAhead
<1>3. CASE ~Waits(s.status[c])
  <2>1. c \in ToSet(s.busy) /\ c \notin ToSet(s.wait)
    BY <1>1, <1>3 DEF QueuesMatch
  <2>2. /\ t.all = s.all \ {c} /\ t.busy = Erase(s.busy, c) /\ t.wait = s.wait
        /\ t.status = s.status /\ t.iter = s.iter
        /\ t = [all |-> t.all, busy |-> t.busy, wait |-> t.wait,
                iter |-> t.iter, status |-> t.status]
    BY <1>1, <1>3 DEF Destroy, Schedules
  <2> HIDE DEF t
  <2>3. SkipErased(s.busy, s.iter, c) = s.iter
    BY DEF SkipErased
  <2>4. /\ t.busy \in Seq(Co) /\ IsInjective(t.busy)
        /\ ToSet(t.busy) = ToSet(s.busy) \ {c}
        /\ s.iter \in ToSet(t.busy) \cup {NULL}
        /\ Ahead(t.busy, s.iter) = Ahead(s.busy, s.iter) \ {c}
    BY <1>1, <2>1, <2>2, <2>3, EraseNode
  <2>5. t \in Schedules
    BY <1>1, <2>2, <2>4 DEF Schedules
  <2>6. QueuesMatch(t)
    BY <1>1, <1>3, <2>2, <2>4 DEF QueuesMatch
  <2> QED BY <1>1, <2>2, <2>4, <2>5, <2>6 DEF t, Sound, StillAhead
<1> QED BY <1>2, <1>3

\* A new pass has the whole busy queue ahead of it.
LEMMA StartIterationSound ==
    ASSUME NEW s, Sound(s)
    PROVE  /\ Sound(StartIteration(s))
           /\ StillAhead(StartIteration(s)) = ToSet(s.busy)
           /\ StartIteration(s).all = s.all
           /\ StartIteration(s).status = s.status
<1> DEFINE t == StartIteration(s)
<1>1. /\ s \in Schedules /\ QueuesMatch(s)
      /\ s.busy \in Seq(Co) /\ NULL \notin Co
  BY NullAssumption DEF Sound, Schedules
<1>2. /\ t.all = s.all /\ t.busy = s.busy /\ t.wait = s.wait
      /\ t.status = s.status /\ t.iter = First(s.busy)
      /\ t = [all |-> t.all, busy |-> t.busy, wait |-> t.wait,
              iter |-> t.iter, status |-> t.status]
  BY <1>1 DEF StartIteration, Schedules
<1> HIDE DEF t
<1>3. /\ t.iter \in ToSet(t.busy) \cup {NULL}
      /\ Ahead(t.busy, t.iter) = ToSet(s.busy)
  BY <1>1, <1>2, AheadOfFirst
<1>4. t.iter \in Co \cup {NULL}
  BY <1>1, <1>2, <1>3, AheadBounds
<1>5. t \in Schedules
  BY <1>1, <1>2, <1>4 DEF Schedules
<1>6. QueuesMatch(t)
  BY <1>1, <1>2 DEF QueuesMatch
<1> QED BY <1>2, <1>3, <1>5, <1>6 DEF t, Sound, StillAhead

\* main.c hosts the script's coroutine; the first pass has just that one ahead.
LEMMA FirstPass ==
    ASSUME NEW m \in Co, NEW s, s = StartIteration(Host(EmptySchedule, m))
    PROVE  /\ Sound(s) /\ StillAhead(s) = {m}
           /\ s.all = {m} /\ s.status[m] = "busy"
<1> DEFINE e == EmptySchedule
           h == Host(EmptySchedule, m)
<1>1. Sound(e) /\ e.all = {} /\ e.status \in [Co -> Status]
  <2>1. e \in Schedules /\ e.all = {} /\ e.status \in [Co -> Status]
    BY DEF EmptySchedule, Schedules, Status
  <2>2. QueuesMatch(e)
    BY DEF EmptySchedule, QueuesMatch, IsInjective, ToSet
  <2> QED BY <2>1, <2>2 DEF Sound, EmptySchedule
<1> HIDE DEF e
<1>2. Sound(h) /\ h.all = {m} /\ h.status = [e.status EXCEPT ![m] = "busy"]
  <2>1. m \notin e.all
    BY <1>1
  <2>2. /\ Sound(Host(e, m)) /\ Host(e, m).all = e.all \cup {m}
        /\ Host(e, m).status = [e.status EXCEPT ![m] = "busy"]
    BY <1>1, <2>1, HostSound
  <2> QED BY <1>1, <2>2 DEF e
<1> HIDE DEF h
<1>3. h.status[m] = "busy"
  BY <1>1, <1>2
<1>4. ToSet(h.busy) = {m}
  BY <1>2, <1>3 DEF Sound, QueuesMatch, Waits
<1>5. /\ Sound(StartIteration(h)) /\ StillAhead(StartIteration(h)) = ToSet(h.busy)
      /\ StartIteration(h).all = h.all /\ StartIteration(h).status = h.status
  BY <1>2, StartIterationSound
<1>6. s = StartIteration(h)
  BY DEF h
<1> QED BY <1>2, <1>3, <1>4, <1>5, <1>6

\* A pass serves a registered coroutine that does not wait.
LEMMA ServeSound ==
    ASSUME NEW s, Sound(s), s.iter # NULL
    PROVE  /\ s.iter \in s.all /\ s.iter \in Co /\ ~Waits(s.status[s.iter])
           /\ Sound(Advance(s)) /\ Advance(s).iter # s.iter
           /\ Advance(s).all = s.all /\ Advance(s).status = s.status
<1>1. s.iter \in s.all /\ s.iter \in Co /\ ~Waits(s.status[s.iter])
  BY DEF Sound, QueuesMatch, Schedules
<1> QED BY <1>1, AdvanceSound

\* set_state() on the coroutine being served, the cursor being past it.
LEMMA ServeSetState ==
    ASSUME NEW s, Sound(s), s.iter # NULL, NEW st \in Status,
           NEW t, t = SetState(Advance(s), s.iter, st)
    PROVE  /\ Sound(t) /\ t.all = s.all
           /\ t.status = [s.status EXCEPT ![s.iter] = st]
<1> DEFINE a == Advance(s)
           c == s.iter
<1>1. Sound(a) /\ c \in a.all /\ a.all = s.all /\ a.status = s.status
  BY ServeSound
<1> HIDE DEF a, c
<1>2. Sound(a) /\ c \in a.all /\ st \in Status
  BY <1>1
<1>3. /\ Sound(SetState(a, c, st)) /\ SetState(a, c, st).all = a.all
      /\ SetState(a, c, st).status = [a.status EXCEPT ![c] = st]
  BY ONLY <1>2, SetStateSound
<1> QED BY <1>1, <1>3 DEF a, c

\* Destroying the coroutine being served, the cursor being past it.
LEMMA ServeDestroy ==
    ASSUME NEW s, Sound(s), s.iter # NULL,
           NEW t, t = Destroy(Advance(s), s.iter)
    PROVE  Sound(t) /\ t.all = s.all \ {s.iter} /\ t.status = s.status
<1> DEFINE a == Advance(s)
           c == s.iter
<1>1. Sound(a) /\ c \in a.all /\ a.iter # c /\ a.all = s.all /\ a.status = s.status
  BY ServeSound
<1> HIDE DEF a, c
<1>2. /\ Sound(Destroy(a, c)) /\ Destroy(a, c).all = a.all \ {c}
      /\ Destroy(a, c).status = a.status
  BY <1>1, DestroySound
<1> QED BY <1>1, <1>2 DEF a, c

\* _runtime_exit empties the table and both queues.
LEMMA ReleaseSound ==
    ASSUME NEW s \in Schedules,
           NEW t, t = [s EXCEPT !.all = {}, !.busy = <<>>, !.wait = <<>>]
    PROVE  t \in Schedules /\ QueuesMatch(t) /\ t.all = {} /\ t.status = s.status
<1>1. /\ t.all = {} /\ t.busy = <<>> /\ t.wait = <<>>
      /\ t.iter = s.iter /\ t.status = s.status
      /\ t = [all |-> t.all, busy |-> t.busy, wait |-> t.wait,
              iter |-> t.iter, status |-> t.status]
  BY DEF Schedules
<1>2. s.iter \in Co \cup {NULL} /\ s.status \in [Co -> Status]
  BY DEF Schedules
<1>3. t \in Schedules
  <2>1. <<>> \in Seq(Co)
    OBVIOUS
  <2>2. /\ t.all \in SUBSET Co /\ t.busy \in Seq(Co) /\ t.wait \in Seq(Co)
        /\ t.iter \in Co \cup {NULL} /\ t.status \in [Co -> Status]
    BY <1>1, <1>2, <2>1
  <2> QED BY <1>1, <2>2, MakeSchedule
<1>4. QueuesMatch(t)
  BY <1>1 DEF QueuesMatch, IsInjective, ToSet
<1> QED BY <1>1, <1>3, <1>4
=============================================================================
