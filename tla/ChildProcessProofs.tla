------------------------- MODULE ChildProcessProofs -------------------------
(***************************************************************************)
(* What is proved of auto.process, for any number of coroutines, any       *)
(* scripts and any bounds: the types, the output of each stream in order,  *)
(* no reader left behind, no handle freed early, and no empty answer       *)
(* before an end.                                                          *)
(*                                                                         *)
(* The inductive invariant says where a coroutine inside a call is (it is  *)
(* registered, neither finished nor dead), what a reader has left behind   *)
(* in the object, and which handles are under way.                         *)
(***************************************************************************)
EXTENDS ChildProcess, CoroutineApiProofs

\* What the two sides of the object, and the environment, may hold.
Processes == [life : {"none", "live", "failed", "collected"}, have : SUBSET Streams,
              running : BOOLEAN, error : BOOLEAN,
              cache : [Streams -> Seq(1 .. MaxChunks)],
              readers : [Streams -> Seq(Co)], joiners : Seq(Co),
              closing : SUBSET Handles, closed : SUBSET Handles, freed : BOOLEAN]

Children == [alive : BOOLEAN, reported : BOOLEAN, eof : SUBSET Streams,
             sent : [Streams -> 0 .. MaxChunks],
             got : [Streams -> Seq(1 .. MaxChunks)]]

\* TypeOK is about what the scheduler looks at, and about the object.
ControlType ==
    /\ sch \in Schedules
    /\ pc \in {"pass", "run", "poll", "returned", "thrown", "closing", "closed", "ub"}
    /\ cur \in Co \cup {NULL}
    /\ over \in SUBSET Co
    /\ at \in [Co -> Streams \cup {"script", "cin", "join"}]

DataType ==
    /\ proc \in Processes
    /\ writes \in Seq([co : Co, live : BOOLEAN])
    /\ child \in Children

\* Nothing is scheduled any more.
Ended == pc \in {"closing", "closed", "ub"}

\* The schedule is sound until the end, and empty after lua_close.
QueueInv ==
    /\ ~Ended => Sound(sch)
    /\ pc \in {"closing", "closed"} => sch.all = {}

\* The script runs in a registered coroutine, alive, unfinished, in no call.
RunInv ==
    pc = "run" =>
        /\ cur \in sch.all /\ cur \notin over
        /\ ~IsDead(sch.status[cur])
        /\ at[cur] = "script"

\* Who is inside a call is registered, alive, and not finished.
CallInv ==
    \A c \in Co : at[c] # "script" =>
        /\ c \notin over
        /\ ~Ended => c \in sch.all
        /\ c \in sch.all => ~IsDead(sch.status[c])

\* A reader inside its call has a record in the object; when it waits, there
\* is nothing to return to it and the exit is still to come.
ReaderInv ==
    \A c \in sch.all, s \in Streams : at[c] = s =>
        /\ proc.life = "live"
        /\ c \in ToSet(proc.readers[s])
        /\ (pc # "ub" /\ sch.status[c] = "wait") =>
              ~child.reported /\ proc.cache[s] = <<>>

\* What the flags of the object say of the child.
ObjectInv ==
    /\ proc.life = "none" => child = NoChild
    /\ proc.running => ~child.reported
    /\ proc.error => child.eof # {}

\* A handle is closed once, the last one frees, and the pipe to the child is
\* closed only after its writes.
HandleInv ==
    /\ proc.closing \cap proc.closed = {}
    /\ proc.freed => proc.closed = Handles
    /\ "in" \in proc.closed => writes = <<>>
    /\ proc.life \in {"none", "live"} => proc.closing = {} /\ "in" \notin proc.closed

ControlInv == ControlType /\ QueueInv /\ RunInv /\ CallInv

DataInv == DataType /\ ObjectInv /\ HandleInv /\ OutputInOrder

IInv == blocking \in BOOLEAN /\ ControlInv /\ DataInv /\ ReaderInv
-----------------------------------------------------------------------------
(***************************************************************************)
(* What waking does.                                                       *)
(***************************************************************************)
\* The chain of set_state() calls exists for a queue of any length.
LEMMA WokenChain ==
    ASSUME NEW s, NEW q \in Seq(Co)
    PROVE  \E f : /\ f[0] = s
                  /\ \A i \in 1 .. Len(q) : f[i] = SetState(f[i - 1], q[i], "busy")
                  /\ Woken(s, q) = f[Len(q)]
<1> DEFINE Chain(f, n) ==
              f = [i \in 0 .. n |-> IF i = 0 THEN s ELSE SetState(f[i - 1], q[i], "busy")]
           n == Len(q)
           T == {k \in 0 .. n : \E f : Chain(f, k)}
<1>1. n \in Nat
  OBVIOUS
<1>2. 0 \in T
  <2> DEFINE g == [i \in 0 .. 0 |-> s]
  <2>1. Chain(g, 0)
    OBVIOUS
  <2> HIDE DEF g
  <2>2. \E f : Chain(f, 0)
    BY <2>1
  <2> QED BY <1>1, <2>2
<1>3. ASSUME NEW k \in 0 .. (n - 1), k \in T PROVE k + 1 \in T
  <2>1. PICK g : Chain(g, k)
    BY <1>3
  <2> DEFINE h == [i \in 0 .. (k + 1) |->
                      IF i = k + 1 THEN SetState(g[k], q[k + 1], "busy") ELSE g[i]]
  <2>2. \A i \in 0 .. k : g[i] = IF i = 0 THEN s ELSE SetState(g[i - 1], q[i], "busy")
    BY <2>1
  <2>3. \A i \in 0 .. (k + 1) :
           h[i] = IF i = 0 THEN s ELSE SetState(h[i - 1], q[i], "busy")
    <3>1. TAKE i \in 0 .. (k + 1)
    <3>2. CASE i = k + 1
      <4>1. h[i] = SetState(g[k], q[k + 1], "busy") /\ h[k] = g[k] /\ i # 0 /\ i - 1 = k
        BY <1>1, <3>2
      <4> QED BY <3>2, <4>1
    <3>3. CASE i # k + 1
      <4>1. i \in 0 .. k /\ h[i] = g[i]
        BY <1>1, <3>3
      <4>2. i # 0 => h[i - 1] = g[i - 1]
        BY <1>1, <4>1
      <4> QED BY <2>2, <4>1, <4>2
    <3> QED BY <3>2, <3>3
  <2>4. Chain(h, k + 1)
    BY <2>3
  <2> HIDE DEF h
  <2>5. \E f : Chain(f, k + 1)
    BY <2>4
  <2>6. k + 1 \in 0 .. n
    BY <1>1
  <2> QED BY <2>5, <2>6
<1> HIDE DEF T
<1>4. 0 .. n \subseteq T
  BY <1>1, <1>2, <1>3, CountUp
<1>5. n \in T
  BY <1>1, <1>4
<1>6. \E f : Chain(f, n)
  BY <1>5 DEF T
<1> DEFINE f == CHOOSE f : Chain(f, n)
<1>7. Chain(f, n)
  BY <1>6
<1>8. Woken(s, q) = f[n]
  BY DEF Woken
<1> HIDE DEF f
<1>9. /\ f[0] = s
      /\ \A i \in 1 .. n : f[i] = SetState(f[i - 1], q[i], "busy")
  BY <1>1, <1>7
<1> QED BY <1>8, <1>9

\* Waking the registered coroutines of a queue keeps the schedule sound: they
\* are runnable, and for everybody else nothing has changed.
LEMMA WokenSound ==
    ASSUME NEW s, Sound(s), NEW q \in Seq(Co), ToSet(q) \subseteq s.all
    PROVE  /\ Sound(Woken(s, q))
           /\ Woken(s, q).all = s.all
           /\ \A c \in Co : Woken(s, q).status[c] =
                               IF c \in ToSet(q) THEN "busy" ELSE s.status[c]
<1> DEFINE n == Len(q)
<1>1. n \in Nat /\ \A i \in 1 .. n : q[i] \in s.all /\ q[i] \in Co
  BY DEF ToSet
<1>2. PICK f : /\ f[0] = s
               /\ \A i \in 1 .. n : f[i] = SetState(f[i - 1], q[i], "busy")
               /\ Woken(s, q) = f[n]
  BY WokenChain
<1> DEFINE Good(k) ==
              /\ Sound(f[k])
              /\ f[k].all = s.all
              /\ \A c \in Co : f[k].status[c] =
                    IF \E i \in 1 .. k : q[i] = c THEN "busy" ELSE s.status[c]
           T == {k \in 0 .. n : Good(k)}
<1>3. 0 \in T
  BY <1>1, <1>2
<1>4. ASSUME NEW k \in 0 .. (n - 1), k \in T PROVE k + 1 \in T
  <2> DEFINE c == q[k + 1]
             g == f[k]
  <2>1. Good(k)
    BY <1>4
  <2>2. k + 1 \in 1 .. n /\ c \in g.all /\ Sound(g) /\ "busy" \in Status
    BY <1>1, <2>1 DEF Status
  <2>3. f[k + 1] = SetState(f[k], c, "busy")
    BY <1>2, <2>2
  <2> HIDE DEF g, c
  <2>4. /\ Sound(SetState(g, c, "busy"))
        /\ SetState(g, c, "busy").all = g.all
        /\ SetState(g, c, "busy").status = [g.status EXCEPT ![c] = "busy"]
    BY ONLY <2>2, SetStateSound
  <2> USE DEF g, c
  <2>5. f[k].status \in [Co -> Status]
    BY <2>1 DEF Sound, Schedules
  <2>6. \A d \in Co : f[k + 1].status[d] =
           IF \E i \in 1 .. (k + 1) : q[i] = d THEN "busy" ELSE s.status[d]
    <3>1. TAKE d \in Co
    <3>2. f[k + 1].status[d] = IF d = c THEN "busy" ELSE f[k].status[d]
      BY <2>3, <2>4, <2>5
    <3>3. (\E i \in 1 .. (k + 1) : q[i] = d) <=> (d = c \/ \E i \in 1 .. k : q[i] = d)
      BY <1>1
    <3> QED BY <2>1, <3>2, <3>3
  <2>7. Good(k + 1)
    BY <2>1, <2>3, <2>4, <2>6
  <2> QED BY ONLY <1>1, <2>2, <2>7
<1> HIDE DEF T
<1>5. 0 .. n \subseteq T
  BY <1>1, <1>3, <1>4, CountUp
<1>6. Good(n)
  BY <1>1, <1>5 DEF T
<1>7. \A c \in Co : (\E i \in 1 .. n : q[i] = c) <=> c \in ToSet(q)
  BY DEF ToSet
<1> QED BY <1>2, <1>6, <1>7

-----------------------------------------------------------------------------
(***************************************************************************)
(* The control: who is served, who runs, who is inside a call.             *)
(***************************************************************************)
\* A pass serves somebody registered and alive, and moves on.
LEMMA Served ==
    ASSUME ControlInv, NEW c \in Co, NEW call, Serve(c, call)
    PROVE  /\ pc = "pass" /\ Sound(sch) /\ sch.iter = c /\ c # NULL
           /\ c \in Co /\ c \in sch.all /\ ~IsDead(sch.status[c])
           /\ ~Waits(sch.status[c])
           /\ c \notin over /\ at[c] = call
           /\ Sound(Advance(sch))
           /\ Advance(sch).all = sch.all /\ Advance(sch).status = sch.status

<1>1. pc = "pass" /\ ~Ended /\ c = sch.iter /\ c # NULL
  BY NullAssumption DEF Serve, Ended
<1>2. Sound(sch)
  BY <1>1 DEF ControlInv, QueueInv
<1>3. /\ sch.iter \in sch.all /\ ~Waits(sch.status[sch.iter])
      /\ Sound(Advance(sch))
      /\ Advance(sch).all = sch.all /\ Advance(sch).status = sch.status
  BY <1>1, <1>2, ServeSound
<1>4. ~IsDead(sch.status[c]) /\ c \notin over /\ at[c] = call
  BY DEF Serve
<1> QED BY <1>1, <1>2, <1>3, <1>4

\* A coroutine that is resumed runs, and is in no call any more.
LEMMA ResumedControl ==
    ASSUME ControlInv, NEW c \in Co, NEW call, Serve(c, call), Continue(c),
           over' = over
    PROVE  /\ ControlInv'
           /\ pc' = "run"
           /\ sch'.all = sch.all /\ sch'.status = sch.status
           /\ at' = [at EXCEPT ![c] = "script"]
<1>1. /\ c \in sch.all /\ ~IsDead(sch.status[c]) /\ c \notin over
      /\ Sound(Advance(sch))
      /\ Advance(sch).all = sch.all /\ Advance(sch).status = sch.status
  BY Served
<1>2. /\ sch' = Advance(sch) /\ at' = [at EXCEPT ![c] = "script"]
      /\ cur' = c /\ pc' = "run"
  BY DEF Continue
<1>3. /\ Sound(sch') /\ sch'.all = sch.all /\ sch'.status = sch.status
  BY <1>1, <1>2
<1>4. at \in [Co -> Streams \cup {"script", "cin", "join"}] /\ over \in SUBSET Co
  BY DEF ControlInv, ControlType
<1>5. ControlType'
  <2>1. sch' \in Schedules
    BY <1>3 DEF Sound
  <2>2. at' \in [Co -> Streams \cup {"script", "cin", "join"}]
    BY <1>2, <1>4
  <2> QED BY <1>2, <1>4, <2>1, <2>2 DEF ControlType
<1>6. QueueInv'
  BY <1>2, <1>3 DEF QueueInv, Ended
<1>7. RunInv'
  BY <1>1, <1>2, <1>3, <1>4 DEF RunInv
<1>8. CallInv'
  <2>1. SUFFICES ASSUME NEW d \in Co, at'[d] # "script"
                 PROVE  /\ d \notin over' /\ d \in sch'.all
                        /\ ~IsDead(sch'.status[d])
    BY DEF CallInv
  <2>2. at[d] # "script" /\ pc = "pass"
    BY <1>2, <1>4, <2>1 DEF Serve
  <2>3. d \notin over /\ d \in sch.all /\ ~IsDead(sch.status[d])
    BY <2>2 DEF ControlInv, CallInv, Ended
  <2> QED BY <1>3, <2>3
<1> QED BY <1>2, <1>3, <1>5, <1>6, <1>7, <1>8 DEF ControlInv

\* The running coroutine gives control back, in a call or finished.
LEMMA LeftControl ==
    ASSUME ControlInv, pc = "run", NEW call \in Streams \cup {"script", "cin", "join"},
           NEW s, LeaveIn(call, s),
           Sound(s), s.all = sch.all,
           \A d \in Co \ {cur} : s.status[d] = sch.status[d],
           over' \in SUBSET (over \cup {cur}),
           call # "script" => over' = over /\ ~IsDead(s.status[cur])
    PROVE  /\ ControlInv'
           /\ pc' = "pass" /\ sch' = s /\ at' = [at EXCEPT ![cur] = call]
           /\ cur \in Co /\ cur \in sch.all /\ at[cur] = "script"
<1>1. /\ cur \in sch.all /\ cur \notin over /\ at[cur] = "script" /\ cur \in Co
      /\ sch \in Schedules
  BY DEF ControlInv, RunInv, ControlType, Schedules
<1>2. sch' = s /\ at' = [at EXCEPT ![cur] = call] /\ cur' = NULL /\ pc' = "pass"
  BY DEF LeaveIn
<1>3. at \in [Co -> Streams \cup {"script", "cin", "join"}] /\ over \in SUBSET Co
  BY DEF ControlInv, ControlType
<1>4. ControlType'
  <2>1. sch' \in Schedules
    BY <1>2 DEF Sound
  <2>2. at' \in [Co -> Streams \cup {"script", "cin", "join"}]
    BY <1>2, <1>3
  <2>3. over' \in SUBSET Co
    BY <1>1, <1>3
  <2> QED BY <1>2, <2>1, <2>2, <2>3 DEF ControlType
<1>5. QueueInv'
  BY <1>2 DEF QueueInv, Ended
<1>6. RunInv'
  BY <1>2 DEF RunInv
<1>7. CallInv'
  <2>1. SUFFICES ASSUME NEW d \in Co, at'[d] # "script"
                 PROVE  /\ d \notin over' /\ d \in sch'.all
                        /\ ~IsDead(sch'.status[d])
    BY DEF CallInv
  <2>2. CASE d = cur
    <3>1. call # "script"
      BY <1>1, <1>2, <1>3, <2>1, <2>2
    <3> QED BY <1>1, <1>2, <2>2, <3>1
  <2>3. CASE d # cur
    <3>1. at[d] # "script"
      BY <1>1, <1>2, <1>3, <2>1, <2>3
    <3>2. d \notin over /\ d \in sch.all /\ ~IsDead(sch.status[d])
      BY <3>1 DEF ControlInv, CallInv, Ended
    <3> QED BY <1>2, <2>3, <3>2
  <2> QED BY <2>2, <2>3
<1> QED BY <1>1, <1>2, <1>4, <1>5, <1>6, <1>7 DEF ControlInv

\* A callback wakes a queue of coroutines, or meets one that is gone.
LEMMA WokenControl ==
    ASSUME ControlInv, pc \in {"poll", "closing"}, NEW q \in Seq(Co), Wake(q),
           cur' = cur, over' = over, at' = at
    PROVE  /\ ControlInv'
           /\ sch'.all = sch.all
           /\ pc' # "run"
           /\ pc' # "ub" => \A c \in Co : sch'.status[c] =
                               IF c \in ToSet(q) THEN "busy" ELSE sch.status[c]
<1>1. CASE ~ (ToSet(q) \subseteq sch.all)
  <2>1. pc' = "ub" /\ sch' = sch
    BY <1>1 DEF Wake
  <2>2. ControlType'
    BY <2>1 DEF ControlInv, ControlType
  <2>3. QueueInv' /\ RunInv'
    BY <2>1 DEF QueueInv, RunInv, Ended
  <2>4. CallInv'
    BY <2>1 DEF ControlInv, CallInv, Ended
  <2> QED BY <2>1, <2>2, <2>3, <2>4 DEF ControlInv
<1>2. CASE ToSet(q) \subseteq sch.all /\ pc = "closing"
  <2>1. sch.all = {} /\ pc' = "closing" /\ sch' = Woken(sch, q)
    BY <1>2 DEF Wake, ControlInv, QueueInv
  <2>2. ToSet(q) = {}
    BY <1>2, <2>1
  <2>3. q = <<>>
    <3>1. SUFFICES ASSUME q # <<>> PROVE FALSE
      OBVIOUS
    <3>2. Head(q) \in ToSet(q)
      BY <3>1, HeadAndTail
    <3> QED BY <2>2, <3>2
  <2>4. sch' = sch
    <3>1. Woken(sch, q) = sch
      BY <2>3, WokenChain
    <3> QED BY <2>1, <3>1
  <2>5. ControlType'
    BY <2>1, <2>4 DEF ControlInv, ControlType
  <2>6. QueueInv' /\ RunInv'
    BY <2>1, <2>4 DEF QueueInv, RunInv, Ended
  <2>7. CallInv'
    BY <2>1, <2>4 DEF ControlInv, CallInv, Ended
  <2> QED BY <2>1, <2>2, <2>4, <2>5, <2>6, <2>7 DEF ControlInv
<1>3. CASE ToSet(q) \subseteq sch.all /\ pc = "poll"
  <2>1. pc' = "poll" /\ sch' = Woken(sch, q) /\ Sound(sch)
    BY <1>3 DEF Wake, ControlInv, QueueInv, Ended
  <2>2. /\ Sound(sch') /\ sch'.all = sch.all
        /\ \A c \in Co : sch'.status[c] =
                               IF c \in ToSet(q) THEN "busy" ELSE sch.status[c]
    BY <1>3, <2>1, WokenSound
  <2>3. sch' \in Schedules
    BY <2>2 DEF Sound
  <2>4. ControlType'
    BY <2>1, <2>3 DEF ControlInv, ControlType
  <2>5. QueueInv' /\ RunInv'
    BY <2>1, <2>2 DEF QueueInv, RunInv, Ended
  <2>6. CallInv'
    <3>1. SUFFICES ASSUME NEW d \in Co, at[d] # "script"
                   PROVE  /\ d \notin over /\ d \in sch.all
                          /\ ~IsDead(sch'.status[d])
      BY <2>2 DEF CallInv
    <3>2. d \notin over /\ d \in sch.all /\ ~IsDead(sch.status[d])
      BY <1>3, <3>1 DEF ControlInv, CallInv, Ended
    <3>3. ~IsDead("busy")
      BY DEF IsDead
    <3> QED BY <2>2, <3>2, <3>3
  <2> QED BY <2>1, <2>2, <2>4, <2>5, <2>6 DEF ControlInv
<1> QED BY <1>1, <1>2, <1>3

\* The queues of records are queues of coroutines.
LEMMA Queues ==
    ASSUME DataType, NEW s \in Streams
    PROVE  /\ proc.readers[s] \in Seq(Co)
           /\ proc.readers["out"] \o proc.readers["err"] \o proc.joiners \in Seq(Co)
<1>1. /\ proc.readers \in [Streams -> Seq(Co)] /\ proc.joiners \in Seq(Co)
  BY DEF DataType, Processes
<1>2. proc.readers["out"] \in Seq(Co) /\ proc.readers["err"] \in Seq(Co)
  BY <1>1 DEF Streams
<1> QED BY <1>1, <1>2

\* Whether a record is live or not, its coroutine is one.
LEMMA OldestWrite ==
    ASSUME DataType, writes # <<>>
    PROVE  <<Head(writes).co>> \in Seq(Co) /\ Tail(writes) \in Seq([co : Co, live : BOOLEAN])
<1>1. Head(writes) \in [co : Co, live : BOOLEAN] /\ Tail(writes) \in Seq([co : Co, live : BOOLEAN])
  BY HeadAndTail DEF DataType
<1> QED BY <1>1

\* Every step keeps the control sound.
LEMMA ControlStep ==
    ASSUME IInv, [Next]_vars
    PROVE  ControlInv'
<1>1. ControlInv /\ DataType /\ ControlType
  BY DEF IInv, DataInv, ControlInv
<1>2. ASSUME UNCHANGED <<sch, pc, cur, over, at>>
      PROVE  ControlInv'
  BY <1>1, <1>2 DEF ControlInv, ControlType, QueueInv, RunInv, CallInv, Ended
<1>3. CASE Scheduling
  <2>1. CASE ReapDead
    <3>1. pc = "pass" /\ sch.iter # NULL /\ Sound(sch)
      BY <1>1, <2>1 DEF ReapDead, ControlInv, QueueInv, Ended
    <3>2. /\ Sound(sch') /\ sch'.all = sch.all \ {sch.iter} /\ sch'.status = sch.status
          /\ UNCHANGED <<pc, cur, over, at>> /\ IsDead(sch.status[sch.iter])
      BY <2>1, <3>1, ServeDestroy DEF ReapDead
    <3>3. sch' \in Schedules
      BY <3>2 DEF Sound
    <3>4. ControlType'
      BY <1>1, <3>2, <3>3 DEF ControlType
    <3>5. QueueInv' /\ RunInv'
      BY <3>1, <3>2 DEF QueueInv, RunInv, Ended
    <3>6. CallInv'
      <4>1. SUFFICES ASSUME NEW d \in Co, at[d] # "script"
                     PROVE  /\ d \notin over /\ d \in sch.all \ {sch.iter}
                            /\ ~IsDead(sch.status[d])
        BY <3>2 DEF CallInv
      <4>2. d \notin over /\ d \in sch.all /\ ~IsDead(sch.status[d])
        BY <1>1, <3>1, <4>1 DEF ControlInv, CallInv, Ended
      <4> QED BY <3>2, <4>2
    <3> QED BY <3>4, <3>5, <3>6 DEF ControlInv
  <2>2. CASE ResumeFinished
    <3>1. pc = "pass" /\ sch.iter # NULL /\ Sound(sch) /\ "error" \in Status
      BY <1>1, <2>2 DEF ResumeFinished, ControlInv, QueueInv, Ended, Status
    <3>2. /\ Sound(sch') /\ sch'.all = sch.all
          /\ sch'.status = [sch.status EXCEPT ![sch.iter] = "error"]
          /\ UNCHANGED <<cur, over, at>> /\ pc' = "thrown" /\ sch.iter \in over
      BY <2>2, <3>1, ServeSetState DEF ResumeFinished
    <3>3. sch' \in Schedules /\ sch.status \in [Co -> Status]
      BY <3>1, <3>2 DEF Sound, Schedules
    <3>4. ControlType'
      BY <1>1, <3>2, <3>3 DEF ControlType
    <3>5. QueueInv' /\ RunInv'
      BY <3>2 DEF QueueInv, RunInv, Ended
    <3>6. CallInv'
      <4>1. SUFFICES ASSUME NEW d \in Co, at[d] # "script"
                     PROVE  /\ d \notin over /\ d \in sch.all
                            /\ ~IsDead(sch'.status[d])
        BY <3>2 DEF CallInv
      <4>2. d \notin over /\ d \in sch.all /\ ~IsDead(sch.status[d])
        BY <1>1, <3>1, <4>1 DEF ControlInv, CallInv, Ended
      <4> QED BY <3>2, <3>3, <4>2
    <3> QED BY <3>4, <3>5, <3>6 DEF ControlInv
  <2>3. CASE EndPass
    <3>1. UNCHANGED <<sch, cur, over, at>> /\ pc = "pass" /\ pc' \in {"returned", "poll"}
      BY <2>3 DEF EndPass
    <3> QED BY <1>1, <3>1 DEF ControlInv, ControlType, QueueInv, RunInv, CallInv, Ended
  <2>4. ASSUME NEW c \in Co,
               ResumeScript(c) \/ ResumeWriter(c) \/ ResumeJoiner(c)
        PROVE  ControlInv'
    BY <1>1, <2>4, ResumedControl DEF ResumeScript, ResumeWriter, ResumeJoiner
  <2>5. ASSUME NEW c \in Co, NEW s \in Streams, ResumeReader(c, s)
        PROVE  ControlInv'
    BY <1>1, <2>5, ResumedControl DEF ResumeReader
  <2>6. ASSUME NEW c \in Co, ResumeJoinerAgain(c)
        PROVE  ControlInv'
    <3>1. /\ Sound(sch') /\ sch'.all = sch.all /\ sch'.status = sch.status
          /\ UNCHANGED <<pc, cur, over, at>> /\ pc = "pass"
      BY <1>1, <2>6, Served DEF ResumeJoinerAgain
    <3>2. sch' \in Schedules
      BY <3>1 DEF Sound
    <3> QED BY <1>1, <3>1, <3>2 DEF ControlInv, ControlType, QueueInv, RunInv, CallInv, Ended
  <2>7. ASSUME NEW c \in Co, NEW s \in Streams, ResumeReaderAgain(c, s)
        PROVE  ControlInv'
    <3>1. /\ pc = "pass" /\ Sound(sch) /\ sch.iter # NULL /\ sch.iter = c
          /\ ~IsDead("wait") /\ "wait" \in Status
      BY <1>1, <2>7, Served DEF ResumeReaderAgain, IsDead, Status
    <3>2. /\ Sound(sch') /\ sch'.all = sch.all
          /\ sch'.status = [sch.status EXCEPT ![c] = "wait"]
          /\ UNCHANGED <<pc, cur, over, at>>
      BY <2>7, <3>1, ServeSetState DEF ResumeReaderAgain
    <3>3. sch' \in Schedules /\ sch.status \in [Co -> Status]
      BY <3>1, <3>2 DEF Sound, Schedules
    <3>4. ControlType'
      BY <1>1, <3>2, <3>3 DEF ControlType
    <3>5. QueueInv' /\ RunInv'
      BY <3>1, <3>2 DEF QueueInv, RunInv, Ended
    <3>6. CallInv'
      <4>1. SUFFICES ASSUME NEW d \in Co, at[d] # "script"
                     PROVE  /\ d \notin over /\ d \in sch.all
                            /\ ~IsDead(sch'.status[d])
        BY <3>2 DEF CallInv
      <4>2. d \notin over /\ d \in sch.all /\ ~IsDead(sch.status[d])
        BY <1>1, <3>1, <4>1 DEF ControlInv, CallInv, Ended
      <4> QED BY <3>1, <3>2, <3>3, <4>2
    <3> QED BY <3>4, <3>5, <3>6 DEF ControlInv
  <2> QED BY <1>3, <2>1, <2>2, <2>3, <2>4, <2>5, <2>6, <2>7 DEF Scheduling
<1>4. CASE LeaveRun
  <2>1. pc = "run"
    BY <1>4 DEF LeaveRun, Write, JoinWaits, Yield, Return, Error, ReadWaits, Readable, Running
  <2>2. /\ cur \in sch.all /\ cur \in Co /\ ~IsDead(sch.status[cur]) /\ Sound(sch)
        /\ sch.status \in [Co -> Status] /\ at[cur] = "script"
    BY <1>1, <2>1 DEF ControlInv, RunInv, QueueInv, Ended, Sound, Schedules
  <2>3. ASSUME NEW st \in Status
        PROVE  /\ Sound(SetState(sch, cur, st)) /\ SetState(sch, cur, st).all = sch.all
               /\ SetState(sch, cur, st).status = [sch.status EXCEPT ![cur] = st]
    BY <2>2, SetStateSound
  <2>4. CASE Write \/ JoinWaits \/ Yield
    <3>1. PICK call \in {"cin", "join", "script"} : LeaveIn(call, sch) /\ over' = over
      BY <2>4 DEF Write, JoinWaits, Yield
    <3> QED BY <1>1, <2>1, <2>2, <3>1, LeftControl
  <2>5. CASE Return
    <3>1. LeaveIn("script", SetState(sch, cur, "dead")) /\ over' = over \cup {cur}
      BY <2>5 DEF Return
    <3>2. /\ Sound(SetState(sch, cur, "dead")) /\ SetState(sch, cur, "dead").all = sch.all
          /\ SetState(sch, cur, "dead").status = [sch.status EXCEPT ![cur] = "dead"]
      BY <2>3 DEF Status
    <3>3. \A d \in Co \ {cur} : SetState(sch, cur, "dead").status[d] = sch.status[d]
      BY <2>2, <3>2
    <3> QED BY <1>1, <2>1, <3>1, <3>2, <3>3, LeftControl
  <2>6. ASSUME NEW s \in Streams, ReadWaits(s)
        PROVE  ControlInv'
    <3>1. LeaveIn(s, SetState(sch, cur, "wait")) /\ over' = over
      BY <2>6 DEF ReadWaits
    <3>2. /\ Sound(SetState(sch, cur, "wait")) /\ SetState(sch, cur, "wait").all = sch.all
          /\ SetState(sch, cur, "wait").status = [sch.status EXCEPT ![cur] = "wait"]
      BY <2>3 DEF Status
    <3>3. /\ \A d \in Co \ {cur} : SetState(sch, cur, "wait").status[d] = sch.status[d]
          /\ ~IsDead(SetState(sch, cur, "wait").status[cur])
      BY <2>2, <3>2 DEF IsDead
    <3> QED BY <1>1, <2>1, <3>1, <3>2, <3>3, LeftControl
  <2>7. CASE Error
    <3>1. /\ Sound(sch') /\ sch'.all = sch.all
          /\ sch'.status = [sch.status EXCEPT ![cur] = "error"]
          /\ cur' = NULL /\ pc' = "thrown" /\ over' = over \cup {cur} /\ at' = at
      BY <2>3, <2>7 DEF Error, Status
    <3>2. sch' \in Schedules /\ over' \in SUBSET Co
      BY <1>1, <2>2, <3>1 DEF Sound, ControlType
    <3>3. ControlType'
      BY <1>1, <3>1, <3>2 DEF ControlType
    <3>4. QueueInv' /\ RunInv'
      BY <3>1 DEF QueueInv, RunInv, Ended
    <3>5. CallInv'
      <4>1. SUFFICES ASSUME NEW d \in Co, at[d] # "script"
                     PROVE  /\ d \notin over' /\ d \in sch.all
                            /\ ~IsDead(sch'.status[d])
        BY <3>1 DEF CallInv
      <4>2. d \notin over /\ d \in sch.all /\ ~IsDead(sch.status[d]) /\ d # cur
        BY <1>1, <2>1, <2>2, <4>1 DEF ControlInv, CallInv, Ended
      <4> QED BY <2>2, <3>1, <4>2
    <3> QED BY <3>3, <3>4, <3>5 DEF ControlInv
  <2> QED BY <1>4, <2>4, <2>5, <2>6, <2>7 DEF LeaveRun
<1>5. CASE StayInRun
  <2>1. ASSUME NEW c \in Co, Spawn(c)
        PROVE  ControlInv'
    <3>1. /\ sch' = Host(sch, c) /\ UNCHANGED <<pc, cur, over, at>>
          /\ pc = "run" /\ c \notin sch.all /\ c \notin over
      BY <2>1 DEF Spawn, Running
    <3>2. Sound(sch) /\ sch.status \in [Co -> Status]
      BY <1>1, <3>1 DEF ControlInv, QueueInv, Ended, Sound, Schedules
    <3>3. /\ Sound(sch') /\ sch'.all = sch.all \cup {c}
          /\ sch'.status = [sch.status EXCEPT ![c] = "busy"]
      BY <3>1, <3>2, HostSound
    <3>4. sch' \in Schedules
      BY <3>3 DEF Sound
    <3>5. ControlType'
      BY <1>1, <3>1, <3>4 DEF ControlType
    <3>6. QueueInv'
      BY <3>1, <3>3 DEF QueueInv, Ended
    <3>7. RunInv'
      <4>1. cur \in sch.all /\ cur \in Co /\ cur \notin over /\ at[cur] = "script"
            /\ ~IsDead(sch.status[cur]) /\ cur # c
        BY <1>1, <3>1 DEF ControlInv, RunInv, ControlType, Schedules
      <4> QED BY <3>1, <3>2, <3>3, <4>1 DEF RunInv
    <3>8. CallInv'
      <4>1. SUFFICES ASSUME NEW d \in Co, at[d] # "script"
                     PROVE  /\ d \notin over /\ d \in sch'.all
                            /\ ~IsDead(sch'.status[d])
        BY <3>1 DEF CallInv
      <4>2. d \notin over /\ d \in sch.all /\ ~IsDead(sch.status[d])
        BY <1>1, <3>1, <4>1 DEF ControlInv, CallInv, Ended
      <4> QED BY <3>1, <3>2, <3>3, <4>2
    <3> QED BY <3>5, <3>6, <3>7, <3>8 DEF ControlInv
  <2>2. ASSUME ~ \E c \in Co : Spawn(c)
        PROVE  ControlInv'
    <3>1. UNCHANGED <<sch, pc, cur, over, at>>
      BY <1>5, <2>2 DEF StayInRun, Kill, Collect, Create, ReadNow
    <3> QED BY <1>2, <3>1
  <2> QED BY <2>1, <2>2
<1>6. CASE Events
  <2>1. CASE OnExit
    <3>1. proc.readers["out"] \o proc.readers["err"] \o proc.joiners \in Seq(Co)
      BY <1>1, Queues DEF Streams
    <3> QED BY <1>1, <2>1, <3>1, WokenControl DEF OnExit, Polling
  <2>2. CASE OnWriteDone
    <3>1. <<Head(writes).co>> \in Seq(Co)
      BY <1>1, <2>2, OldestWrite DEF OnWriteDone
    <3>2. CASE Head(writes).live
      BY <1>1, <2>2, <3>1, <3>2, WokenControl DEF OnWriteDone
    <3>3. CASE ~Head(writes).live
      <4>1. pc' = "ub" /\ UNCHANGED <<sch, cur, over, at>> /\ pc \in {"poll", "closing"}
        BY <2>2, <3>3 DEF OnWriteDone
      <4> QED BY <1>1, <4>1 DEF ControlInv, ControlType, QueueInv, RunInv, CallInv, Ended
    <3> QED BY <3>2, <3>3
  <2>3. ASSUME NEW s \in Streams, OnData(s)
        PROVE  ControlInv'
    BY <1>1, <2>3, Queues, WokenControl DEF OnData, Polling
  <2>4. ASSUME NEW s \in Streams, OnEof(s)
        PROVE  ControlInv'
    <3>1. CASE UNCHANGED <<sch, pc>>
      BY <1>2, <2>4, <3>1 DEF OnEof
    <3>2. CASE Wake(proc.readers[s])
      BY <1>1, <2>4, <3>2, Queues, WokenControl DEF OnEof, Polling
    <3> QED BY <2>4, <3>1, <3>2 DEF OnEof
  <2>5. CASE ChildExits \/ \E h \in Handles : OnClose(h)
    BY <1>2, <2>5 DEF ChildExits, OnClose
  <2> QED BY <1>6, <2>1, <2>2, <2>3, <2>4, <2>5 DEF Events
<1>7. CASE PollReturn
  <2>1. /\ pc = "poll" /\ pc' = "pass" /\ sch' = StartIteration(sch)
        /\ UNCHANGED <<cur, over, at>>
    BY <1>7 DEF PollReturn
  <2>2. Sound(sch)
    BY <1>1, <2>1 DEF ControlInv, QueueInv, Ended
  <2>3. Sound(sch') /\ sch'.all = sch.all /\ sch'.status = sch.status
    BY <2>1, <2>2, StartIterationSound
  <2>4. sch' \in Schedules
    BY <2>3 DEF Sound
  <2> QED BY <1>1, <2>1, <2>3, <2>4 DEF ControlInv, ControlType, QueueInv, RunInv, CallInv, Ended
<1>8. CASE Shutdown
  <2>1. /\ pc' = "closing" /\ UNCHANGED <<cur, over, at>> /\ pc \in {"returned", "thrown"}
        /\ sch' = [sch EXCEPT !.all = {}, !.busy = <<>>, !.wait = <<>>]
    BY <1>8 DEF Shutdown
  <2>2. sch' \in Schedules /\ sch'.all = {}
    BY <1>1, <2>1, ReleaseSound DEF ControlType
  <2> QED BY <1>1, <2>1, <2>2 DEF ControlInv, ControlType, QueueInv, RunInv, CallInv, Ended
<1>9. CASE Closed
  <2>1. UNCHANGED <<sch, cur, over, at>> /\ pc = "closing" /\ pc' = "closed"
    BY <1>9 DEF Closed
  <2> QED BY <1>1, <2>1 DEF ControlInv, ControlType, QueueInv, RunInv, CallInv, Ended
<1>10. CASE UNCHANGED vars
  BY <1>2, <1>10 DEF vars
<1> QED BY <1>3, <1>4, <1>5, <1>6, <1>7, <1>8, <1>9, <1>10 DEF Next

-----------------------------------------------------------------------------
(***************************************************************************)
(* The object: what linking a record and taking the output change.         *)
(***************************************************************************)
\* Everything but the records and the caches is the same.
SameButQueues(p, r) ==
    /\ r.life = p.life /\ r.have = p.have
    /\ r.running = p.running /\ r.error = p.error
    /\ r.joiners = p.joiners
    /\ r.closing = p.closing /\ r.closed = p.closed /\ r.freed = p.freed

\* r is p with one more record of c in the queue of s.
Linked(p, c, s, r) ==
    /\ r \in Processes /\ SameButQueues(p, r) /\ r.cache = p.cache
    /\ Len(r.readers[s]) = Len(p.readers[s]) + 1
    /\ ToSet(r.readers[s]) = ToSet(p.readers[s]) \cup {c}
    /\ \A t \in Streams \ {s} : r.readers[t] = p.readers[t]

\* A call links its record behind the others.
LEMMA LinkRecord ==
    ASSUME NEW p \in Processes, NEW c \in Co, NEW s \in Streams,
           NEW r, r = Link(p, c, s)
    PROVE  Linked(p, c, s, r)
<1> DEFINE q == [p.readers EXCEPT ![s] = Append(@, c)]
<1>1. /\ p.readers \in [Streams -> Seq(Co)] /\ p.cache \in [Streams -> Seq(1 .. MaxChunks)]
      /\ p.readers[s] \in Seq(Co)
  BY DEF Processes
<1>2. /\ Append(p.readers[s], c) \in Seq(Co)
      /\ Len(Append(p.readers[s], c)) = Len(p.readers[s]) + 1
      /\ ToSet(Append(p.readers[s], c)) = ToSet(p.readers[s]) \cup {c}
  BY <1>1, AppendNode
<1>3. /\ q \in [Streams -> Seq(Co)] /\ q[s] = Append(p.readers[s], c)
      /\ \A t \in Streams \ {s} : q[t] = p.readers[t]
  BY <1>1, <1>2
<1>4. r = [p EXCEPT !.cache = p.cache, !.readers = q]
  BY DEF Link, Processes
<1> HIDE DEF q
<1>5. r \in Processes /\ SameButQueues(p, r) /\ r.cache = p.cache /\ r.readers = q
  BY <1>1, <1>3, <1>4 DEF Processes, SameButQueues
<1> QED BY <1>2, <1>3, <1>5 DEF Linked

\* The object after c has taken all output of s and freed its record.
Taken(p, c, s) == Unlink([p EXCEPT !.cache[s] = <<>>], c, s)

\* What is known of it: nothing cached for s, and nobody else's record is lost.
Took(p, c, s, r) ==
    /\ r \in Processes /\ SameButQueues(p, r)
    /\ r.cache = [p.cache EXCEPT ![s] = <<>>]
    /\ Len(r.readers[s]) < Len(p.readers[s])
    /\ ToSet(p.readers[s]) \ {c} \subseteq ToSet(r.readers[s])
    /\ \A t \in Streams \ {s} : r.readers[t] = p.readers[t]

\* The cache is emptied and the last record of the coroutine unlinked.
LEMMA TakeRecord ==
    ASSUME NEW p \in Processes, NEW s \in Streams, NEW c \in ToSet(p.readers[s]),
           NEW r, r = Taken(p, c, s)
    PROVE  Took(p, c, s, r)
<1> DEFINE q == [p.readers EXCEPT ![s] = RemoveAt(@, LastPosition(@, c))]
           k == [p.cache EXCEPT ![s] = <<>>]
           o == [p EXCEPT !.cache = k]
           l == RemoveAt(p.readers[s], LastPosition(p.readers[s], c))
<1>1. /\ p.readers \in [Streams -> Seq(Co)] /\ p.cache \in [Streams -> Seq(1 .. MaxChunks)]
      /\ p.readers[s] \in Seq(Co)
  BY DEF Processes
<1>2. /\ l \in Seq(Co) /\ Len(l) < Len(p.readers[s])
      /\ ToSet(p.readers[s]) \ {c} \subseteq ToSet(l)
  <2>1. Len(p.readers[s]) \in Nat
    BY <1>1
  <2> QED BY <1>1, <2>1, RemoveLast
<1> HIDE DEF l
<1>3. /\ q \in [Streams -> Seq(Co)] /\ q[s] = l
      /\ \A t \in Streams \ {s} : q[t] = p.readers[t]
  BY <1>1, <1>2 DEF l
<1>4. k \in [Streams -> Seq(1 .. MaxChunks)]
  BY <1>1
<1>5. [p EXCEPT !.cache[s] = <<>>] = o
  BY DEF Processes
<1>6. Unlink(o, c, s) = [o EXCEPT !.readers = q]
  <2>1. o.readers = p.readers
    BY DEF Processes
  <2> HIDE DEF o
  <2>2. Unlink(o, c, s) =
           [o EXCEPT !.readers = [o.readers EXCEPT ![s] = RemoveAt(@, LastPosition(@, c))]]
    BY DEF Unlink, LastPosition
  <2> QED BY <2>1, <2>2
<1>7. r = [p EXCEPT !.cache = k, !.readers = q]
  BY <1>5, <1>6 DEF Taken
<1> HIDE DEF q, k, o
<1>8. r \in Processes /\ SameButQueues(p, r) /\ r.cache = k /\ r.readers = q
  BY <1>3, <1>4, <1>7 DEF Processes, SameButQueues
<1> QED BY <1>2, <1>3, <1>8 DEF k, Took

-----------------------------------------------------------------------------
(***************************************************************************)
(* Reading.                                                                *)
(***************************************************************************)
\* The cache of s is returned; whoever else has a record keeps it.
GotOutput(c, s) ==
    /\ proc' \in Processes /\ SameButQueues(proc, proc')
    /\ proc.cache[s] # <<>>
    /\ proc'.cache = [proc.cache EXCEPT ![s] = <<>>]
    /\ \A t \in Streams : ToSet(proc.readers[t]) \ {c} \subseteq ToSet(proc'.readers[t])
    /\ \A t \in Streams : Len(proc'.readers[t]) <= Len(proc.readers[t])
    /\ child' = [child EXCEPT !.got[s] = @ \o proc.cache[s]]

\* Nothing is there and nothing will come.
GotNothing(c, s) ==
    /\ proc' \in Processes /\ SameButQueues(proc, proc')
    /\ proc.cache[s] = <<>> /\ (proc.error \/ ~proc.running)
    /\ proc'.cache = proc.cache
    /\ \A t \in Streams : ToSet(proc.readers[t]) \subseteq ToSet(proc'.readers[t])
    /\ \A t \in Streams \ {s} : proc'.readers[t] = proc.readers[t]
    /\ child' = child

\* A resumed read ends in one of the two ways.
LEMMA ResumedRead ==
    ASSUME IInv, NEW c \in Co, NEW s \in Streams, ResumeReader(c, s)
    PROVE  /\ proc.life = "live"
           /\ GotOutput(c, s) \/ (GotNothing(c, s) /\ proc' = proc)
<1>1. c \in sch.all /\ at[c] = s
  BY Served DEF ResumeReader, IInv
<1>2. proc.life = "live" /\ c \in ToSet(proc.readers[s]) /\ proc \in Processes
  BY <1>1 DEF IInv, ReaderInv, DataInv, DataType
<1>3. CASE TakeOutput(proc, c, s)
  <2>1. proc' = Taken(proc, c, s)
    BY <1>3 DEF TakeOutput, Taken
  <2>2. Took(proc, c, s, proc')
    BY <1>2, <2>1, TakeRecord
  <2>3. \A t \in Streams : Len(proc.readers[t]) \in Nat /\ Len(proc'.readers[t]) \in Nat
    BY <1>2, <2>2 DEF Processes, Took
  <2> QED BY <1>2, <1>3, <2>2, <2>3 DEF GotOutput, Took, TakeOutput
<1>4. CASE NoOutput(proc, s)
  BY <1>2, <1>4 DEF NoOutput, GotNothing, SameButQueues
<1> QED BY <1>2, <1>3, <1>4 DEF ResumeReader

\* So does a call that need not wait; its own record stays when it got nothing.
LEMMA ImmediateRead ==
    ASSUME IInv, NEW s \in Streams, ReadNow(s)
    PROVE  /\ proc.life = "live" /\ cur \in Co
           /\ GotOutput(cur, s) \/ GotNothing(cur, s)
<1>1. proc.life = "live" /\ pc = "run" /\ cur \in Co /\ proc \in Processes
  BY DEF IInv, ControlInv, ControlType, RunInv, DataInv, DataType, Schedules,
         ReadNow, Readable, Running
<1>2. PICK l, c : l = Link(proc, c, s) /\ c = cur
  OBVIOUS
<1>3. Linked(proc, c, s, l)
  BY <1>1, <1>2, LinkRecord
<1>4. \A t \in Streams : Len(proc.readers[t]) \in Nat
  BY <1>1 DEF Processes
<1>5. CASE TakeOutput(l, c, s)
  <2>1. proc' = Taken(l, c, s)
    BY <1>5 DEF TakeOutput, Taken
  <2>2. c \in ToSet(l.readers[s]) /\ l \in Processes
    BY <1>3 DEF Linked
  <2>3. Took(l, c, s, proc')
    BY <2>1, <2>2, TakeRecord
  <2>4. SameButQueues(proc, proc')
    BY <1>3, <2>3 DEF SameButQueues, Linked, Took
  <2>5. \A t \in Streams : ToSet(proc.readers[t]) \ {c} \subseteq ToSet(proc'.readers[t])
    BY <1>3, <2>3 DEF Linked, Took
  <2>6. \A t \in Streams : Len(proc'.readers[t]) <= Len(proc.readers[t])
    <3>1. proc'.readers \in [Streams -> Seq(Co)]
      BY <2>3 DEF Took, Processes
    <3>2. \A t \in Streams : Len(proc'.readers[t]) \in Nat
      BY <3>1
    <3> QED BY <1>3, <1>4, <2>3, <3>2 DEF Linked, Took
  <2>7. /\ proc' \in Processes /\ proc.cache[s] # <<>>
        /\ proc'.cache = [proc.cache EXCEPT ![s] = <<>>]
        /\ child' = [child EXCEPT !.got[s] = @ \o proc.cache[s]]
    BY <1>3, <1>5, <2>3 DEF Linked, Took, TakeOutput
  <2>8. GotOutput(c, s)
    BY <2>4, <2>5, <2>6, <2>7 DEF GotOutput
  <2> QED BY <1>1, <1>2, <2>8
<1>6. CASE NoOutput(l, s)
  <2>1. proc' = l /\ child' = child /\ l.cache[s] = <<>> /\ (l.error \/ ~l.running)
    BY <1>6 DEF NoOutput
  <2>2. \A t \in Streams : ToSet(proc.readers[t]) \subseteq ToSet(l.readers[t])
    BY <1>3 DEF Linked
  <2>3. GotNothing(c, s)
    BY <1>3, <2>1, <2>2 DEF GotNothing, SameButQueues, Linked
  <2> QED BY <1>1, <1>2, <2>3
<1> QED BY <1>2, <1>5, <1>6 DEF ReadNow
-----------------------------------------------------------------------------
(***************************************************************************)
(* The data.                                                               *)
(***************************************************************************)
\* The elements of two sequences in a row.
LEMMA ConcatElements ==
    ASSUME NEW S, NEW a \in Seq(S), NEW b \in Seq(S), NEW i \in 1 .. (Len(a) + Len(b))
    PROVE  (a \o b)[i] = IF i <= Len(a) THEN a[i] ELSE b[i - Len(a)]
  OBVIOUS

\* With another chunk the output is still in order.
LEMMA AnotherChunk ==
    ASSUME NEW n \in Nat, NEW a \in Seq(Nat), NEW b \in Seq(Nat),
           a \o b = [i \in 1 .. n |-> i]
    PROVE  a \o Append(b, n + 1) = [i \in 1 .. (n + 1) |-> i]
<1> DEFINE m == a \o b
           c == Append(b, n + 1)
           r == a \o c
<1>1. m \in Seq(Nat) /\ Len(m) = Len(a) + Len(b) /\ Len(m) = n
      /\ Len(a) \in Nat /\ Len(b) \in Nat
  OBVIOUS
<1>2. /\ c \in Seq(Nat) /\ Len(c) = Len(b) + 1 /\ c[Len(b) + 1] = n + 1
      /\ \A i \in 1 .. Len(b) : c[i] = b[i]
  OBVIOUS
<1> HIDE DEF c
<1>3. /\ r \in Seq(Nat) /\ Len(r) = n + 1
      /\ \A i \in 1 .. (n + 1) : r[i] = IF i <= Len(a) THEN a[i] ELSE c[i - Len(a)]
  BY <1>1, <1>2
<1>4. \A i \in 1 .. n : m[i] = IF i <= Len(a) THEN a[i] ELSE b[i - Len(a)]
  <2>1. TAKE i \in 1 .. n
  <2>2. i \in 1 .. (Len(a) + Len(b))
    BY <1>1
  <2>3. (a \o b)[i] = IF i <= Len(a) THEN a[i] ELSE b[i - Len(a)]
    BY ONLY a \in Seq(Nat), b \in Seq(Nat), <2>2, ConcatElements
  <2> QED BY ONLY <2>3 DEF m
<1>5. \A i \in 1 .. n : m[i] = i
  OBVIOUS
<1> HIDE DEF m, r
<1>6. ASSUME NEW i \in 1 .. (n + 1) PROVE r[i] = i
  <2>1. CASE i = n + 1
    <3>1. ~(i <= Len(a)) /\ i - Len(a) = Len(b) + 1
      BY <1>1, <2>1
    <3> QED BY <1>2, <1>3, <2>1, <3>1
  <2>2. CASE i # n + 1
    <3>1. i \in 1 .. n
      BY <2>2
    <3>2. ~(i <= Len(a)) => i - Len(a) \in 1 .. Len(b)
      BY <1>1, <3>1
    <3> QED BY <1>2, <1>3, <1>4, <1>5, <3>1, <3>2
  <2> QED BY <2>1, <2>2
<1>7. r = [i \in 1 .. (n + 1) |-> r[i]]
  BY <1>3
<1>8. r = [i \in 1 .. (n + 1) |-> i]
  BY <1>6, <1>7
<1> QED BY <1>8 DEF r, c

\* After a read, whatever it returned.
LEMMA ReadData ==
    ASSUME DataInv, proc.life = "live", NEW c, NEW s \in Streams,
           GotOutput(c, s) \/ GotNothing(c, s), writes' = writes
    PROVE  DataInv'
<1>1. /\ proc \in Processes /\ child \in Children
      /\ writes \in Seq([co : Co, live : BOOLEAN])
      /\ proc' \in Processes /\ SameButQueues(proc, proc')
  BY DEF DataInv, DataType, GotOutput, GotNothing
<1>2. CASE GotNothing(c, s)
  <2>1. child' = child /\ proc'.cache = proc.cache
    BY <1>2 DEF GotNothing
  <2> QED BY <1>1, <2>1
          DEF DataInv, DataType, ObjectInv, HandleInv, OutputInOrder, SameButQueues
<1>3. CASE GotOutput(c, s)
  <2> DEFINE got == [child.got EXCEPT ![s] = @ \o proc.cache[s]]
  <2>1. /\ child.got \in [Streams -> Seq(1 .. MaxChunks)]
        /\ proc.cache \in [Streams -> Seq(1 .. MaxChunks)]
    BY <1>1 DEF Processes, Children
  <2>2. got \in [Streams -> Seq(1 .. MaxChunks)]
    BY <2>1
  <2>3. child' = [child EXCEPT !.got = got]
    BY <1>1, <1>3 DEF GotOutput, Children
  <2> HIDE DEF got
  <2>4. /\ child' \in Children
        /\ child'.got = got /\ child'.sent = child.sent /\ child'.eof = child.eof
        /\ child'.reported = child.reported
    BY <1>1, <2>2, <2>3 DEF Children
  <2>5. DataType' /\ ObjectInv' /\ HandleInv'
    BY <1>1, <2>4 DEF DataInv, DataType, ObjectInv, HandleInv, SameButQueues
  <2>6. OutputInOrder'
    <3>1. SUFFICES ASSUME NEW t \in Streams
                   PROVE  got[t] \o proc'.cache[t] = [i \in 1 .. child.sent[t] |-> i]
      BY <2>4 DEF OutputInOrder
    <3>2. child.got[t] \o proc.cache[t] = [i \in 1 .. child.sent[t] |-> i]
      BY DEF DataInv, OutputInOrder
    <3>3. /\ child.got[t] \in Seq(1 .. MaxChunks) /\ proc.cache[t] \in Seq(1 .. MaxChunks)
          /\ proc'.cache = [proc.cache EXCEPT ![s] = <<>>]
      BY <1>3, <2>1 DEF GotOutput
    <3>4. CASE t = s
      <4>1. got[t] = child.got[t] \o proc.cache[t] /\ proc'.cache[t] = <<>>
        BY <2>1, <3>3, <3>4 DEF got
      <4>2. (child.got[t] \o proc.cache[t]) \o <<>> = child.got[t] \o proc.cache[t]
        BY <3>3
      <4> QED BY <3>2, <4>1, <4>2
    <3>5. CASE t # s
      BY <2>1, <3>2, <3>3, <3>5 DEF got
    <3> QED BY <3>4, <3>5
  <2> QED BY <2>5, <2>6 DEF DataInv
<1> QED BY <1>2, <1>3

\* While the object lives, the output is in order only as far as its chunks go.
LEMMA ChunkArrives ==
    ASSUME DataInv, proc.life = "live", NEW s \in Streams, child.sent[s] < MaxChunks,
           child' = [child EXCEPT !.sent[s] = @ + 1],
           proc' = [proc EXCEPT !.cache[s] = Append(@, child.sent[s] + 1)],
           writes' = writes
    PROVE  /\ DataInv'
           /\ proc'.life = "live" /\ proc'.readers = proc.readers
           /\ child'.reported = child.reported
           /\ \A t \in Streams \ {s} : proc'.cache[t] = proc.cache[t]
<1> DEFINE n == child.sent[s]
           sent == [child.sent EXCEPT ![s] = @ + 1]
           cache == [proc.cache EXCEPT ![s] = Append(@, n + 1)]
<1>1. /\ proc \in Processes /\ child \in Children
      /\ writes \in Seq([co : Co, live : BOOLEAN]) /\ MaxChunks \in Nat
  BY BoundAssumption DEF DataInv, DataType
<1>2. /\ child.sent \in [Streams -> 0 .. MaxChunks]
      /\ child.got \in [Streams -> Seq(1 .. MaxChunks)]
      /\ proc.cache \in [Streams -> Seq(1 .. MaxChunks)]
  BY <1>1 DEF Processes, Children
<1>3. n \in Nat /\ n + 1 \in 1 .. MaxChunks /\ proc.cache[s] \in Seq(1 .. MaxChunks)
  BY <1>1, <1>2
<1>4. Append(proc.cache[s], n + 1) \in Seq(1 .. MaxChunks)
  BY <1>3
<1>5. cache \in [Streams -> Seq(1 .. MaxChunks)] /\ sent \in [Streams -> 0 .. MaxChunks]
  BY <1>1, <1>2, <1>3, <1>4
<1>6. child' = [child EXCEPT !.sent = sent] /\ proc' = [proc EXCEPT !.cache = cache]
  BY <1>1 DEF Processes, Children
<1>7. /\ \A t \in Streams \ {s} : cache[t] = proc.cache[t] /\ sent[t] = child.sent[t]
      /\ cache[s] = Append(proc.cache[s], n + 1) /\ sent[s] = n + 1
  BY <1>2
<1> HIDE DEF cache, sent, n
<1>8. /\ child' \in Children /\ child'.sent = sent /\ child'.got = child.got
      /\ child'.eof = child.eof /\ child'.reported = child.reported
  BY <1>1, <1>5, <1>6 DEF Children
<1>9. /\ proc' \in Processes /\ proc'.cache = cache /\ proc'.readers = proc.readers
      /\ proc'.life = proc.life /\ proc'.running = proc.running /\ proc'.error = proc.error
      /\ proc'.closing = proc.closing /\ proc'.closed = proc.closed /\ proc'.freed = proc.freed
  BY <1>1, <1>5, <1>6 DEF Processes
<1>10. DataType' /\ ObjectInv' /\ HandleInv'
  BY <1>1, <1>8, <1>9 DEF DataInv, DataType, ObjectInv, HandleInv
<1>11. OutputInOrder'
  <2>1. SUFFICES ASSUME NEW t \in Streams
                 PROVE  child.got[t] \o cache[t] = [i \in 1 .. sent[t] |-> i]
    BY <1>8, <1>9 DEF OutputInOrder
  <2>2. child.got[t] \o proc.cache[t] = [i \in 1 .. child.sent[t] |-> i]
    BY DEF DataInv, OutputInOrder
  <2>3. CASE t = s
    <3>1. child.got[s] \in Seq(Nat) /\ proc.cache[s] \in Seq(Nat)
      BY <1>1, <1>2
    <3>2. child.got[s] \o proc.cache[s] = [i \in 1 .. n |-> i]
      BY <2>2, <2>3 DEF n
    <3>3. child.got[s] \o Append(proc.cache[s], n + 1) = [i \in 1 .. (n + 1) |-> i]
      BY <1>3, <3>1, <3>2, AnotherChunk
    <3> QED BY <1>7, <2>3, <3>3
  <2>4. CASE t # s
    BY <1>7, <2>2, <2>4
  <2> QED BY <2>3, <2>4
<1> QED BY <1>7, <1>8, <1>9, <1>10, <1>11 DEF DataInv

\* What the release of an object leaves of it.
LEMMA FinalizedData ==
    ASSUME DataInv, proc.life = "live", proc' = Finalize(proc),
           writes' = writes, child' = child
    PROVE  DataInv'
<1>1. /\ proc \in Processes /\ child \in Children
      /\ writes \in Seq([co : Co, live : BOOLEAN])
  BY DEF DataInv, DataType
<1>2. Nothing \in [Streams -> Seq(1 .. MaxChunks)] /\ Nothing \in [Streams -> Seq(Co)]
      /\ <<>> \in Seq(Co)
  BY DEF Nothing
<1>3. /\ proc' \in Processes /\ proc'.life = "collected" /\ ~proc'.running /\ ~proc'.error
      /\ proc'.closing = Handles \ proc.closed /\ proc'.closed = proc.closed
      /\ proc'.freed = proc.freed
  BY <1>1, <1>2 DEF Finalize, Release, Processes
<1> QED BY <1>1, <1>3 DEF DataInv, DataType, ObjectInv, HandleInv, OutputInOrder

\* The new object, live or failed at once, has nothing of an earlier one.
LEMMA CreatedData ==
    ASSUME DataInv, NEW have \in Configs, Create(have)
    PROVE  DataInv' /\ proc'.readers = Nothing
<1> DEFINE p == [NoProcess EXCEPT !.have = have, !.closed = Streams \ have]
<1>1. /\ child = NoChild /\ child \in Children /\ writes' = writes
      /\ writes \in Seq([co : Co, live : BOOLEAN])
      /\ have \in SUBSET Streams /\ MaxChunks \in Nat
  BY ConfigAssumption, BoundAssumption DEF DataInv, DataType, ObjectInv, Create
<1>2. /\ \A s \in Streams : Nothing[s] = <<>>
      /\ Nothing \in [Streams -> Seq(1 .. MaxChunks)] /\ Nothing \in [Streams -> Seq(Co)]
      /\ <<>> \in Seq(Co) /\ Streams \subseteq Handles /\ "in" \notin Streams
  BY DEF Nothing, Streams, Handles
<1>3. /\ p \in Processes /\ p.life = "none" /\ ~p.running /\ ~p.error /\ ~p.freed
      /\ p.closing = {} /\ p.closed = Streams \ have /\ p.cache = Nothing
      /\ p.readers = Nothing
  BY <1>1, <1>2 DEF NoProcess, Processes
<1>4. /\ child.got = Nothing /\ child.sent = [s \in Streams |-> 0] /\ ~child.reported
  BY <1>1 DEF NoChild
<1> HIDE DEF p
<1>5. CASE proc' = [p EXCEPT !.life = "live", !.running = TRUE]
           /\ child' = [child EXCEPT !.alive = TRUE]
  <2>1. /\ proc' \in Processes /\ proc'.life = "live" /\ ~proc'.error /\ ~proc'.freed
        /\ proc'.closing = {} /\ proc'.closed = p.closed /\ proc'.cache = Nothing
        /\ proc'.readers = Nothing
    BY <1>3, <1>5 DEF Processes
  <2>2. /\ child' \in Children /\ child'.got = Nothing /\ ~child'.reported
        /\ child'.sent = [s \in Streams |-> 0]
    BY <1>1, <1>4, <1>5 DEF Children
  <2>3. DataType' /\ ObjectInv' /\ HandleInv'
    BY <1>1, <1>2, <1>3, <2>1, <2>2 DEF DataType, ObjectInv, HandleInv
  <2>4. OutputInOrder'
    <3>1. SUFFICES ASSUME NEW s \in Streams
                   PROVE  <<>> \o <<>> = [i \in 1 .. 0 |-> i]
      BY <1>2, <2>1, <2>2 DEF OutputInOrder
    <3> QED OBVIOUS
  <2> QED BY <2>1, <2>3, <2>4 DEF DataInv
<1>6. CASE proc' = [Release(p) EXCEPT !.life = "failed"] /\ child' = child
  <2>1. /\ proc' \in Processes /\ proc'.life = "failed" /\ ~proc'.running /\ ~proc'.error
        /\ ~proc'.freed /\ proc'.closing = Handles \ p.closed /\ proc'.closed = p.closed
        /\ proc'.readers = Nothing
    BY <1>3, <1>6 DEF Processes, Release
  <2>2. DataType' /\ ObjectInv'
    BY <1>1, <1>6, <2>1 DEF DataType, ObjectInv
  <2>3. HandleInv'
    BY <1>2, <1>3, <2>1 DEF HandleInv
  <2> QED BY <2>1, <2>2, <2>3 DEF DataInv, OutputInOrder
<1> QED BY <1>5, <1>6 DEF Create, p

\* A change of the object that leaves the child, the caches and the handles.
LEMMA ObjectData ==
    ASSUME DataInv, proc' \in Processes, writes' = writes, child' = child,
           proc'.life = proc.life, proc'.cache = proc.cache,
           proc'.running => proc.running,
           proc'.error => proc.error,
           proc'.closing = proc.closing, proc'.closed = proc.closed,
           proc'.freed = proc.freed
    PROVE  DataInv'
  BY DEF DataInv, DataType, ObjectInv, HandleInv, OutputInOrder

\* A change of the writes alone.
LEMMA WritesData ==
    ASSUME DataInv, writes' \in Seq([co : Co, live : BOOLEAN]),
           proc' = proc, child' = child,
           "in" \in proc.closed => writes' = <<>>
    PROVE  DataInv'
  BY DEF DataInv, DataType, ObjectInv, HandleInv, OutputInOrder

\* Every step keeps the data sound.
LEMMA DataStep ==
    ASSUME IInv, [Next]_vars
    PROVE  DataInv'
<1>1. /\ DataInv /\ proc \in Processes /\ child \in Children
      /\ writes \in Seq([co : Co, live : BOOLEAN]) /\ cur \in Co \cup {NULL}
      /\ proc.joiners \in Seq(Co) /\ proc.readers \in [Streams -> Seq(Co)]
  BY DEF IInv, DataInv, DataType, ControlInv, ControlType, Processes
<1>2. ASSUME UNCHANGED <<proc, writes, child>>
      PROVE  DataInv'
  BY <1>1, <1>2 DEF DataInv, DataType, ObjectInv, HandleInv, OutputInOrder
<1>3. CASE Scheduling
  <2>1. ASSUME NEW c \in Co, NEW s \in Streams, ResumeReader(c, s)
        PROVE  DataInv'
    <3>1. writes' = writes
      BY <2>1 DEF ResumeReader
    <3> QED BY <1>1, <2>1, <3>1, ResumedRead, ReadData
  <2>2. ASSUME NEW c \in Co, ResumeWriter(c)
        PROVE  DataInv'
    <3>1. /\ writes' \in Seq([co : Co, live : BOOLEAN])
          /\ writes = <<>> => writes' = <<>>
          /\ proc' = proc /\ child' = child
      <4> DEFINE w(i) == IF writes[i].co = c
                         THEN [writes[i] EXCEPT !.live = FALSE] ELSE writes[i]
      <4>1. writes' = [i \in 1 .. Len(writes) |-> w(i)] /\ proc' = proc /\ child' = child
        BY <1>1, <2>2 DEF ResumeWriter
      <4>2. \A i \in 1 .. Len(writes) : w(i) \in [co : Co, live : BOOLEAN]
        <5> DEFINE W == [co : Co, live : BOOLEAN]
        <5>1. writes \in Seq(W)
          BY <1>1
        <5> HIDE DEF W
        <5>2. \A i \in 1 .. Len(writes) : writes[i] \in W
          BY ONLY <5>1
        <5> USE DEF W
        <5> QED BY ONLY <5>2
      <4> HIDE DEF w
      <4>3. Len(writes) \in Nat /\ (writes = <<>> => Len(writes) = 0)
        BY <1>1
      <4> QED BY <4>1, <4>2, <4>3
    <3> QED BY <1>1, <3>1, WritesData DEF DataInv, HandleInv
  <2>3. ASSUME NEW c \in Co, ResumeJoiner(c)
        PROVE  DataInv'
    <3>1. /\ proc' = [proc EXCEPT !.joiners = Erase(@, c)]
          /\ writes' = writes /\ child' = child
      BY <2>3 DEF ResumeJoiner
    <3>2. Erase(proc.joiners, c) \in Seq(Co)
      BY <1>1, EraseAny
    <3>3. /\ proc' \in Processes /\ proc'.life = proc.life /\ proc'.cache = proc.cache
          /\ proc'.running = proc.running /\ proc'.error = proc.error
          /\ proc'.closing = proc.closing /\ proc'.closed = proc.closed
          /\ proc'.freed = proc.freed
      BY <1>1, <3>1, <3>2 DEF Processes
    <3> QED BY <1>1, <3>1, <3>3, ObjectData
  <2>4. ASSUME NEW c \in Co, NEW s \in Streams,
               ResumeScript(c) \/ ResumeJoinerAgain(c) \/ ResumeReaderAgain(c, s)
        PROVE  DataInv'
    BY <1>2, <2>4 DEF ResumeScript, ResumeJoinerAgain, ResumeReaderAgain
  <2>5. CASE ReapDead \/ ResumeFinished \/ EndPass
    BY <1>2, <2>5 DEF ReapDead, ResumeFinished, EndPass
  <2>6. ASSUME NEW c \in Co, ResumeScript(c) \/ ResumeJoinerAgain(c)
        PROVE  DataInv'
    BY <1>2, <2>6 DEF ResumeScript, ResumeJoinerAgain
  <2> QED BY <1>3, <2>1, <2>2, <2>3, <2>4, <2>5, <2>6 DEF Scheduling
<1>4. CASE LeaveRun
  <2>1. pc = "run" /\ cur \in Co
    BY <1>4 DEF LeaveRun, Write, JoinWaits, Yield, Return, Error, ReadWaits, Readable,
                Running, IInv, ControlInv, RunInv, ControlType, Schedules
  <2>2. CASE Write
    <3>1. /\ writes' = Append(writes, [co |-> cur, live |-> TRUE])
          /\ proc' = proc /\ child' = child /\ proc.life = "live"
      BY <2>2 DEF Write
    <3>2. [co |-> cur, live |-> TRUE] \in [co : Co, live : BOOLEAN]
      BY <2>1
    <3>3. writes' \in Seq([co : Co, live : BOOLEAN])
      BY <1>1, <3>1, <3>2
    <3>4. "in" \notin proc.closed
      BY <1>1, <3>1 DEF DataInv, HandleInv
    <3> QED BY <1>1, <3>1, <3>3, <3>4, WritesData
  <2>3. CASE JoinWaits
    <3>1. /\ proc' = [proc EXCEPT !.joiners = Append(@, cur)]
          /\ writes' = writes /\ child' = child
      BY <2>3 DEF JoinWaits
    <3>2. Append(proc.joiners, cur) \in Seq(Co)
      BY <1>1, <2>1
    <3>3. /\ proc' \in Processes /\ proc'.life = proc.life /\ proc'.cache = proc.cache
          /\ proc'.running = proc.running /\ proc'.error = proc.error
          /\ proc'.closing = proc.closing /\ proc'.closed = proc.closed
          /\ proc'.freed = proc.freed
      BY <1>1, <3>1, <3>2 DEF Processes
    <3> QED BY <1>1, <3>1, <3>3, ObjectData
  <2>4. ASSUME NEW s \in Streams, ReadWaits(s)
        PROVE  DataInv'
    <3>1. proc' = Link(proc, cur, s) /\ writes' = writes /\ child' = child
      BY <2>4 DEF ReadWaits
    <3>2. Linked(proc, cur, s, proc')
      BY <1>1, <2>1, <3>1, LinkRecord
    <3> QED BY <1>1, <3>1, <3>2, ObjectData DEF Linked, SameButQueues
  <2>5. CASE Yield \/ Return \/ Error
    BY <1>2, <2>5 DEF Yield, Return, Error
  <2> QED BY <1>4, <2>2, <2>3, <2>4, <2>5 DEF LeaveRun
<1>5. CASE StayInRun
  <2>1. CASE Kill
    <3>1. proc' = [proc EXCEPT !.running = FALSE] /\ writes' = writes /\ child' = child
      BY <2>1 DEF Kill
    <3>2. /\ proc' \in Processes /\ proc'.life = proc.life /\ proc'.cache = proc.cache
          /\ ~proc'.running /\ proc'.error = proc.error
          /\ proc'.closing = proc.closing /\ proc'.closed = proc.closed
          /\ proc'.freed = proc.freed
      BY <1>1, <3>1 DEF Processes
    <3> QED BY <1>1, <3>1, <3>2, ObjectData
  <2>2. CASE Collect
    BY <1>1, <2>2, FinalizedData DEF Collect
  <2>3. CASE \E c \in Co : Spawn(c)
    BY <1>2, <2>3 DEF Spawn
  <2>4. CASE \E have \in Configs : Create(have)
    BY <1>1, <2>4, CreatedData
  <2>5. ASSUME NEW s \in Streams, ReadNow(s)
        PROVE  DataInv'
    <3>1. writes' = writes
      BY <2>5 DEF ReadNow
    <3> QED BY <1>1, <2>5, <3>1, ImmediateRead, ReadData
  <2> QED BY <1>5, <2>1, <2>2, <2>3, <2>4, <2>5 DEF StayInRun
<1>6. CASE Events
  <2>1. CASE OnExit
    <3>1. /\ proc' = [proc EXCEPT !.running = FALSE] /\ proc.life = "live"
          /\ child' = [child EXCEPT !.reported = TRUE] /\ writes' = writes
      BY <2>1 DEF OnExit, Polling
    <3>2. /\ proc' \in Processes /\ proc'.life = "live" /\ proc'.cache = proc.cache
          /\ ~proc'.running /\ proc'.error = proc.error
          /\ proc'.closing = proc.closing /\ proc'.closed = proc.closed
          /\ proc'.freed = proc.freed
      BY <1>1, <3>1 DEF Processes
    <3>3. /\ child' \in Children /\ child'.eof = child.eof
          /\ child'.got = child.got /\ child'.sent = child.sent
      BY <1>1, <3>1 DEF Children
    <3> QED BY <1>1, <3>1, <3>2, <3>3
            DEF DataInv, DataType, ObjectInv, HandleInv, OutputInOrder
  <2>2. CASE OnWriteDone
    <3>1. writes # <<>> /\ writes' = Tail(writes) /\ proc' = proc /\ child' = child
      BY <2>2 DEF OnWriteDone
    <3>2. writes' \in Seq([co : Co, live : BOOLEAN])
      BY <1>1, <3>1, OldestWrite DEF DataInv
    <3>3. "in" \notin proc.closed
      BY <1>1, <3>1 DEF DataInv, HandleInv
    <3> QED BY <1>1, <3>1, <3>2, <3>3, WritesData
  <2>3. CASE ChildExits
    <3>1. /\ child' = [child EXCEPT !.alive = FALSE] /\ proc' = proc /\ writes' = writes
          /\ child.alive
      BY <2>3 DEF ChildExits
    <3>2. /\ child' \in Children /\ child'.eof = child.eof /\ child'.reported = child.reported
          /\ child'.got = child.got /\ child'.sent = child.sent
      BY <1>1, <3>1 DEF Children
    <3>3. proc.life # "none"
      BY <1>1, <3>1 DEF DataInv, ObjectInv, NoChild
    <3> QED BY <1>1, <3>1, <3>2, <3>3
            DEF DataInv, DataType, ObjectInv, HandleInv, OutputInOrder
  <2>4. ASSUME NEW s \in Streams, OnData(s)
        PROVE  DataInv'
    <3>1. /\ proc.life = "live" /\ child.sent[s] < MaxChunks /\ writes' = writes
          /\ child' = [child EXCEPT !.sent[s] = @ + 1]
          /\ proc' = [proc EXCEPT !.cache[s] = Append(@, child.sent[s] + 1)]
      BY <2>4 DEF OnData, Polling
    <3> QED BY <1>1, <3>1, ChunkArrives
  <2>5. ASSUME NEW s \in Streams, OnEof(s)
        PROVE  DataInv'
    <3>1. /\ child' = [child EXCEPT !.eof = @ \cup {s}] /\ writes' = writes
          /\ proc' = proc \/ proc' = [proc EXCEPT !.error = TRUE]
          /\ proc.life = "live"
      BY <2>5 DEF OnEof, Polling
    <3>2. /\ child' \in Children /\ child'.eof # {} /\ child'.reported = child.reported
          /\ child'.got = child.got /\ child'.sent = child.sent
      BY <1>1, <3>1 DEF Children
    <3>3. /\ proc' \in Processes /\ proc'.life = "live" /\ proc'.cache = proc.cache
          /\ proc'.running = proc.running
          /\ proc'.closing = proc.closing /\ proc'.closed = proc.closed
          /\ proc'.freed = proc.freed
      BY <1>1, <3>1 DEF Processes
    <3> QED BY <1>1, <3>1, <3>2, <3>3
            DEF DataInv, DataType, ObjectInv, HandleInv, OutputInOrder
  <2>6. ASSUME NEW h \in Handles, OnClose(h)
        PROVE  DataInv'
    <3>1. /\ h \in proc.closing /\ (h = "in" => writes = <<>>)
          /\ proc' = [proc EXCEPT !.closing = @ \ {h}, !.closed = @ \cup {h},
                                  !.freed = proc.closed \cup {h} = Handles]
          /\ writes' = writes /\ child' = child
      BY <2>6 DEF OnClose
    <3> DEFINE last == proc.closed \cup {h} = Handles
    <3>2. last \in BOOLEAN
      OBVIOUS
    <3>3. /\ proc' \in Processes /\ proc'.life = proc.life /\ proc'.cache = proc.cache
          /\ proc'.running = proc.running /\ proc'.error = proc.error
          /\ proc'.closing = proc.closing \ {h} /\ proc'.closed = proc.closed \cup {h}
          /\ proc'.freed = last
      <4> HIDE DEF last
      <4>1. proc' = [proc EXCEPT !.closing = @ \ {h}, !.closed = @ \cup {h}, !.freed = last]
        BY <3>1 DEF last
      <4> QED BY <1>1, <3>2, <4>1 DEF Processes
    <3>4. HandleInv'
      BY <1>1, <3>1, <3>3 DEF DataInv, HandleInv
    <3> QED BY <1>1, <3>1, <3>3, <3>4
            DEF DataInv, DataType, ObjectInv, OutputInOrder
  <2> QED BY <1>6, <2>1, <2>2, <2>3, <2>4, <2>5, <2>6 DEF Events
<1>7. CASE PollReturn \/ Closed
  BY <1>2, <1>7 DEF PollReturn, Closed
<1>8. CASE Shutdown
  <2>1. CASE proc.life = "live"
    BY <1>1, <1>8, <2>1, FinalizedData DEF Shutdown
  <2>2. CASE proc.life # "live"
    BY <1>2, <1>8, <2>2 DEF Shutdown
  <2> QED BY <2>1, <2>2
<1>9. CASE UNCHANGED vars
  BY <1>2, <1>9 DEF vars
<1> QED BY <1>3, <1>4, <1>5, <1>6, <1>7, <1>8, <1>9 DEF Next

-----------------------------------------------------------------------------
(***************************************************************************)
(* The readers.                                                            *)
(***************************************************************************)
\* Coroutine c, if it is inside a read after the step, was inside the same read
\* before, its record is still there, and if it waits now nothing has come.
Kept(c) ==
    (c \in sch'.all /\ at'[c] \in Streams) =>
        /\ c \in sch.all /\ at[c] = at'[c]
        /\ proc'.life = proc.life
        /\ c \in ToSet(proc.readers[at[c]]) => c \in ToSet(proc'.readers[at[c]])
        /\ (pc' # "ub" /\ sch'.status[c] = "wait") =>
              /\ sch.status[c] = "wait"
              /\ ~child.reported => ~child'.reported
              /\ proc.cache[at[c]] = <<>> => proc'.cache[at[c]] = <<>>

\* What the invariant says of one reader, after the step.
StillServed(c) ==
    (c \in sch'.all /\ at'[c] \in Streams) =>
        /\ proc'.life = "live"
        /\ c \in ToSet(proc'.readers[at'[c]])
        /\ (pc' # "ub" /\ sch'.status[c] = "wait") =>
              ~child'.reported /\ proc'.cache[at'[c]] = <<>>

\* A reader whose situation a step keeps is served after it as it was before.
LEMMA KeptReader ==
    ASSUME IInv, pc # "ub", NEW c \in Co, Kept(c)
    PROVE  StillServed(c)
<1>1. SUFFICES ASSUME c \in sch'.all, at'[c] \in Streams
               PROVE  /\ proc'.life = "live"
                      /\ c \in ToSet(proc'.readers[at'[c]])
                      /\ (pc' # "ub" /\ sch'.status[c] = "wait") =>
                            ~child'.reported /\ proc'.cache[at'[c]] = <<>>
  BY DEF StillServed
<1>2. /\ c \in sch.all /\ at[c] = at'[c] /\ proc'.life = proc.life
      /\ c \in ToSet(proc.readers[at[c]]) => c \in ToSet(proc'.readers[at[c]])
      /\ (pc' # "ub" /\ sch'.status[c] = "wait") =>
              /\ sch.status[c] = "wait"
              /\ ~child.reported => ~child'.reported
              /\ proc.cache[at[c]] = <<>> => proc'.cache[at[c]] = <<>>
  BY <1>1 DEF Kept
<1>3. /\ proc.life = "live" /\ c \in ToSet(proc.readers[at[c]])
      /\ sch.status[c] = "wait" => ~child.reported /\ proc.cache[at[c]] = <<>>
  BY <1>1, <1>2 DEF IInv, ReaderInv
<1> QED BY <1>2, <1>3

\* If every reader is still served, that part of the invariant holds again.
LEMMA ReadersServed ==
    ASSUME sch' \in Schedules, \A c \in Co : StillServed(c)
    PROVE  ReaderInv'
<1>1. sch'.all \subseteq Co
  BY DEF Schedules
<1>2. SUFFICES ASSUME NEW c \in sch'.all, NEW s \in Streams, at'[c] = s
               PROVE  /\ proc'.life = "live"
                      /\ c \in ToSet(proc'.readers[s])
                      /\ (pc' # "ub" /\ sch'.status[c] = "wait") =>
                            ~child'.reported /\ proc'.cache[s] = <<>>
  BY DEF ReaderInv
<1> QED BY <1>1, <1>2 DEF StillServed

\* Whoever is resumed is in no call, everybody else is where he was.
LEMMA KeptByResume ==
    ASSUME IInv, NEW c \in Co, NEW call, Serve(c, call), Continue(c), over' = over
    PROVE  /\ pc # "ub" /\ at'[c] = "script" /\ "script" \notin Streams
           /\ sch'.all = sch.all /\ sch'.status = sch.status
           /\ \A d \in Co \ {c} : at'[d] = at[d]
<1>1. ControlInv /\ at \in [Co -> Streams \cup {"script", "cin", "join"}]
  BY DEF IInv, ControlInv, ControlType
<1>2. /\ sch'.all = sch.all /\ sch'.status = sch.status
      /\ at' = [at EXCEPT ![c] = "script"]
  BY <1>1, ResumedControl
<1>3. pc # "ub" /\ "script" \notin Streams
  BY DEF Serve, Streams
<1> QED BY <1>1, <1>2, <1>3

\* Nobody is woken but whoever has a record in the queue.
LEMMA KeptByWake ==
    ASSUME IInv, pc \in {"poll", "closing"}, NEW q \in Seq(Co), Wake(q),
           cur' = cur, over' = over, at' = at, NEW c \in Co,
           proc'.life = proc.life, proc'.readers = proc.readers,
           ~child.reported => ~child'.reported,
           \A s \in Streams : c \in ToSet(q) \/ proc'.cache[s] = proc.cache[s] \/ at[c] # s
    PROVE  Kept(c)
<1>1. /\ sch'.all = sch.all
      /\ pc' # "ub" => sch'.status[c] = IF c \in ToSet(q) THEN "busy" ELSE sch.status[c]
  BY WokenControl DEF IInv
<1> QED BY <1>1 DEF Kept

\* A callback that is about stream s wakes its readers.
LEMMA ReadersOf ==
    ASSUME IInv, NEW c \in sch.all, NEW s \in Streams, at[c] = s
    PROVE  c \in ToSet(proc.readers[s])
  BY DEF IInv, ReaderInv

\* Everybody who reads has a record in what the exit wakes.
LEMMA ExitWakesAll ==
    ASSUME DataType, NEW s \in Streams
    PROVE  ToSet(proc.readers[s]) \subseteq
              ToSet(proc.readers["out"] \o proc.readers["err"] \o proc.joiners)
<1> DEFINE a == proc.readers["out"]
           b == proc.readers["err"]
           j == proc.joiners
<1>1. a \in Seq(Co) /\ b \in Seq(Co) /\ j \in Seq(Co)
  BY DEF DataType, Processes, Streams
<1>2. s = "out" \/ s = "err"
  BY DEF Streams
<1> HIDE DEF a, b, j
<1>3. ASSUME NEW u \in Seq(Co), NEW v \in Seq(Co)
      PROVE  ToSet(u) \subseteq ToSet(u \o v) /\ ToSet(v) \subseteq ToSet(u \o v)
  <2>1. \A i \in 1 .. Len(u) : u[i] = (u \o v)[i] /\ i \in 1 .. Len(u \o v)
    OBVIOUS
  <2>2. \A i \in 1 .. Len(v) : v[i] = (u \o v)[Len(u) + i]
                                /\ Len(u) + i \in 1 .. Len(u \o v)
    OBVIOUS
  <2> DEFINE w == u \o v
  <2>3. DOMAIN w = 1 .. Len(w) /\ DOMAIN u = 1 .. Len(u) /\ DOMAIN v = 1 .. Len(v)
    OBVIOUS
  <2>4. /\ \A i \in DOMAIN u : \E k \in DOMAIN w : u[i] = w[k]
        /\ \A i \in DOMAIN v : \E k \in DOMAIN w : v[i] = w[k]
    BY <2>1, <2>2, <2>3
  <2> HIDE DEF w
  <2>5. ToSet(u) \subseteq ToSet(w) /\ ToSet(v) \subseteq ToSet(w)
    BY <2>4 DEF ToSet
  <2> QED BY <2>5 DEF w
<1>4. /\ ToSet(a) \subseteq ToSet(a \o b) /\ ToSet(b) \subseteq ToSet(a \o b)
      /\ a \o b \in Seq(Co)
  BY <1>1, <1>3
<1>5. ToSet(a \o b) \subseteq ToSet((a \o b) \o j)
  BY <1>1, <1>3, <1>4
<1> QED BY <1>2, <1>4, <1>5 DEF a, b, j

\* Every step keeps the readers served.
LEMMA ReaderStep ==
    ASSUME IInv, [Next]_vars
    PROVE  ReaderInv'
<1>1. /\ ControlInv /\ DataInv /\ DataType /\ sch \in Schedules
      /\ at \in [Co -> Streams \cup {"script", "cin", "join"}] /\ cur \in Co \cup {NULL}
      /\ proc \in Processes /\ sch.status \in [Co -> Status]
      /\ "script" \notin Streams /\ "cin" \notin Streams /\ "join" \notin Streams
  BY DEF IInv, ControlInv, ControlType, DataInv, DataType, Schedules, Streams
<1>2. sch' \in Schedules
  BY ControlStep DEF ControlInv, ControlType
<1>3. ASSUME pc # "ub", \A c \in Co : Kept(c)
      PROVE  ReaderInv'
  BY <1>2, <1>3, KeptReader, ReadersServed
<1>4. CASE Scheduling
  <2>1. pc = "pass"
    BY <1>4 DEF Scheduling, ReapDead, ResumeFinished, EndPass, ResumeScript, ResumeWriter,
                ResumeJoiner, ResumeJoinerAgain, ResumeReader, ResumeReaderAgain, Serve
  <2>2. Sound(sch)
    BY <1>1, <2>1 DEF ControlInv, QueueInv, Ended
  <2>3. CASE ReapDead
    <3>1. /\ sch'.all = sch.all \ {sch.iter} /\ sch'.status = sch.status
          /\ UNCHANGED <<pc, at, proc, child>>
      BY <2>2, <2>3, ServeDestroy DEF ReapDead
    <3> QED BY <1>3, <2>1, <3>1 DEF Kept
  <2>4. CASE ResumeFinished
    <3>1. /\ sch'.all = sch.all /\ sch'.status = [sch.status EXCEPT ![sch.iter] = "error"]
          /\ UNCHANGED <<at, proc, child>>
      BY <2>2, <2>4, ServeSetState DEF ResumeFinished, Status
    <3> QED BY <1>1, <1>3, <2>1, <3>1 DEF Kept
  <2>5. CASE EndPass
    BY <1>3, <2>1, <2>5 DEF EndPass, Kept
  <2>6. ASSUME NEW c \in Co, ResumeScript(c) \/ ResumeWriter(c)
        PROVE  ReaderInv'
    <3>1. PICK call : Serve(c, call) /\ Continue(c) /\ over' = over /\ UNCHANGED <<proc, child>>
      BY <2>6 DEF ResumeScript, ResumeWriter
    <3>2. /\ at'[c] = "script" /\ sch'.all = sch.all /\ sch'.status = sch.status
          /\ \A d \in Co \ {c} : at'[d] = at[d]
      BY <3>1, KeptByResume
    <3> QED BY <1>1, <1>3, <2>1, <3>1, <3>2 DEF Kept
  <2>7. ASSUME NEW c \in Co, ResumeJoiner(c)
        PROVE  ReaderInv'
    <3>1. /\ Serve(c, "join") /\ Continue(c) /\ over' = over /\ child' = child
          /\ proc' = [proc EXCEPT !.joiners = Erase(@, c)]
      BY <2>7 DEF ResumeJoiner
    <3>2. /\ at'[c] = "script" /\ sch'.all = sch.all /\ sch'.status = sch.status
          /\ \A d \in Co \ {c} : at'[d] = at[d]
      BY <3>1, KeptByResume
    <3>3. proc'.life = proc.life /\ proc'.readers = proc.readers /\ proc'.cache = proc.cache
      BY <1>1, <3>1 DEF Processes
    <3> QED BY <1>1, <1>3, <2>1, <3>1, <3>2, <3>3 DEF Kept
  <2>8. ASSUME NEW c \in Co, ResumeJoinerAgain(c)
        PROVE  ReaderInv'
    <3>1. /\ sch'.all = sch.all /\ sch'.status = sch.status
          /\ UNCHANGED <<pc, at, proc, child>>
      BY <1>1, <2>8, Served DEF ResumeJoinerAgain
    <3> QED BY <1>3, <2>1, <3>1 DEF Kept
  <2>9. ASSUME NEW c \in Co, NEW s \in Streams, ResumeReader(c, s)
        PROVE  ReaderInv'
    <3>1. Serve(c, s) /\ Continue(c) /\ over' = over
      BY <2>9 DEF ResumeReader
    <3>2. /\ at'[c] = "script" /\ sch'.all = sch.all /\ sch'.status = sch.status
          /\ \A d \in Co \ {c} : at'[d] = at[d]
      BY <3>1, KeptByResume
    <3>3. /\ proc'.life = proc.life /\ child'.reported = child.reported
          /\ \A t \in Streams : ToSet(proc.readers[t]) \ {c} \subseteq ToSet(proc'.readers[t])
          /\ \A t \in Streams : proc.cache[t] = <<>> => proc'.cache[t] = <<>>
      <4>1. GotOutput(c, s) \/ GotNothing(c, s)
        BY <2>9, ResumedRead
      <4>2. proc.cache \in [Streams -> Seq(1 .. MaxChunks)] /\ child \in Children
        BY <1>1 DEF Processes, DataType
      <4>3. child'.reported = child.reported
        BY <4>1, <4>2 DEF GotOutput, GotNothing, Children
      <4> QED BY <4>1, <4>2, <4>3 DEF GotOutput, GotNothing, SameButQueues
    <3> QED BY <1>1, <1>3, <2>1, <3>2, <3>3 DEF Kept
  <2>10. ASSUME NEW c \in Co, NEW s \in Streams, ResumeReaderAgain(c, s)
         PROVE  ReaderInv'
    <3>1. /\ c \in sch.all /\ at[c] = s /\ sch.iter = c /\ sch.iter # NULL
          /\ MustWait(proc, s) /\ UNCHANGED <<pc, at, proc, child>>
          /\ sch' = SetState(Advance(sch), c, "wait") /\ "wait" \in Status
      BY <1>1, <2>10, Served DEF ResumeReaderAgain, Status
    <3>2. sch'.all = sch.all /\ sch'.status = [sch.status EXCEPT ![c] = "wait"]
      BY <2>2, <3>1, ServeSetState
    <3>3. ASSUME NEW d \in Co \ {c}
          PROVE  StillServed(d)
      <4>1. Kept(d)
        BY <1>1, <3>1, <3>2 DEF Kept
      <4> QED BY <2>1, <4>1, KeptReader
    <3>4. StillServed(c)
      <4>1. proc.cache[s] = <<>> /\ ~child.reported
        BY <1>1, <3>1 DEF MustWait, DataInv, ObjectInv
      <4>2. proc.life = "live" /\ c \in ToSet(proc.readers[s])
        BY <3>1 DEF IInv, ReaderInv
      <4> QED BY <3>1, <4>1, <4>2 DEF StillServed
    <3> QED BY <1>2, <3>3, <3>4, ReadersServed
  <2> QED BY <1>4, <2>3, <2>4, <2>5, <2>6, <2>7, <2>8, <2>9, <2>10 DEF Scheduling
<1>5. CASE LeaveRun
  <2>1. pc = "run"
    BY <1>5 DEF LeaveRun, Write, JoinWaits, Yield, Return, Error, ReadWaits, Readable, Running
  <2>2. /\ cur \in sch.all /\ cur \in Co /\ at[cur] = "script" /\ Sound(sch)
    BY <1>1, <2>1 DEF ControlInv, RunInv, QueueInv, Ended, Schedules
  <2>3. ASSUME NEW st \in Status
        PROVE  /\ SetState(sch, cur, st).all = sch.all
               /\ SetState(sch, cur, st).status = [sch.status EXCEPT ![cur] = st]
    BY <2>2, SetStateSound
  <2>4. CASE Write \/ Yield
    <3>1. PICK call \in {"cin", "script"} :
             sch' = sch /\ at' = [at EXCEPT ![cur] = call] /\ UNCHANGED <<proc, child>>
      BY <2>4 DEF Write, Yield, LeaveIn
    <3> QED BY <1>1, <1>3, <2>1, <2>2, <3>1 DEF Kept
  <2>5. CASE JoinWaits
    <3>1. /\ sch' = sch /\ at' = [at EXCEPT ![cur] = "join"] /\ child' = child
          /\ proc' = [proc EXCEPT !.joiners = Append(@, cur)]
      BY <2>5 DEF JoinWaits, LeaveIn
    <3>2. proc'.life = proc.life /\ proc'.readers = proc.readers /\ proc'.cache = proc.cache
      BY <1>1, <3>1 DEF Processes
    <3> QED BY <1>1, <1>3, <2>1, <2>2, <3>1, <3>2 DEF Kept
  <2>6. CASE Return
    <3>1. /\ sch' = SetState(sch, cur, "dead") /\ at' = [at EXCEPT ![cur] = "script"]
          /\ UNCHANGED <<proc, child>>
      BY <2>6 DEF Return, LeaveIn
    <3>2. sch'.all = sch.all /\ sch'.status = [sch.status EXCEPT ![cur] = "dead"]
      BY <2>3, <3>1 DEF Status
    <3> QED BY <1>1, <1>3, <2>1, <2>2, <3>1, <3>2 DEF Kept
  <2>7. CASE Error
    <3>1. /\ sch' = SetState(sch, cur, "error") /\ UNCHANGED <<at, proc, child>>
      BY <2>7 DEF Error
    <3>2. sch'.all = sch.all /\ sch'.status = [sch.status EXCEPT ![cur] = "error"]
      BY <2>3, <3>1 DEF Status
    <3> QED BY <1>1, <1>3, <2>1, <2>2, <3>1, <3>2 DEF Kept
  <2>8. ASSUME NEW s \in Streams, ReadWaits(s)
        PROVE  ReaderInv'
    <3>1. /\ sch' = SetState(sch, cur, "wait") /\ at' = [at EXCEPT ![cur] = s]
          /\ child' = child /\ proc' = Link(proc, cur, s)
          /\ proc.life = "live" /\ MustWait(proc, s)
      BY <2>8 DEF ReadWaits, LeaveIn, Readable
    <3>2. sch'.all = sch.all /\ sch'.status = [sch.status EXCEPT ![cur] = "wait"]
      BY <2>3, <3>1 DEF Status
    <3>3. Linked(proc, cur, s, proc')
      BY <1>1, <2>2, <3>1, LinkRecord
    <3>4. /\ proc'.life = proc.life /\ proc'.cache = proc.cache
          /\ \A t \in Streams : ToSet(proc.readers[t]) \subseteq ToSet(proc'.readers[t])
          /\ cur \in ToSet(proc'.readers[s])
      BY <3>3 DEF Linked, SameButQueues
    <3>5. ASSUME NEW d \in Co \ {cur}
          PROVE  StillServed(d)
      <4>1. Kept(d)
        BY <1>1, <3>1, <3>2, <3>4 DEF Kept
      <4> QED BY <2>1, <4>1, KeptReader
    <3>6. StillServed(cur)
      <4>1. proc.cache[s] = <<>> /\ ~child.reported
        BY <1>1, <3>1 DEF MustWait, DataInv, ObjectInv
      <4>2. at'[cur] = s
        BY <1>1, <2>2, <3>1
      <4> QED BY <3>1, <3>4, <4>1, <4>2 DEF StillServed
    <3> QED BY <1>2, <3>5, <3>6, ReadersServed
  <2> QED BY <1>5, <2>4, <2>5, <2>6, <2>7, <2>8 DEF LeaveRun
<1>6. CASE StayInRun
  <2>1. pc = "run"
    BY <1>6 DEF StayInRun, Kill, Collect, Spawn, Create, ReadNow, Readable, Running
  <2>2. /\ cur \in sch.all /\ cur \in Co /\ at[cur] = "script" /\ Sound(sch)
    BY <1>1, <2>1 DEF ControlInv, RunInv, QueueInv, Ended, Schedules
  <2>3. CASE Kill
    <3>1. proc' = [proc EXCEPT !.running = FALSE] /\ UNCHANGED <<sch, pc, at, child>>
      BY <2>3 DEF Kill
    <3>2. proc'.life = proc.life /\ proc'.readers = proc.readers /\ proc'.cache = proc.cache
      BY <1>1, <3>1 DEF Processes
    <3> QED BY <1>3, <2>1, <3>1, <3>2 DEF Kept
  <2>4. CASE Collect
    <3>1. UNCHANGED <<sch, at>> /\ \A c \in sch.all : at[c] = "script"
      BY <2>4 DEF Collect
    <3> QED BY <1>1, <1>3, <2>1, <3>1 DEF Kept
  <2>5. ASSUME NEW c \in Co, Spawn(c)
        PROVE  ReaderInv'
    <3>1. /\ sch' = Host(sch, c) /\ UNCHANGED <<pc, at, proc, child>> /\ c \notin sch.all
      BY <2>5 DEF Spawn
    <3>2. sch'.all = sch.all \cup {c} /\ sch'.status = [sch.status EXCEPT ![c] = "busy"]
      BY <2>2, <3>1, HostSound
    <3>3. at[c] = "script"
      BY <1>1, <2>1, <3>1 DEF ControlInv, CallInv, Ended
    <3> QED BY <1>1, <1>3, <2>1, <3>1, <3>2, <3>3 DEF Kept
  <2>6. ASSUME NEW have \in Configs, Create(have)
        PROVE  ReaderInv'
    <3>1. UNCHANGED <<sch, at>> /\ proc.life = "none"
      BY <2>6 DEF Create
    <3>2. \A c \in sch.all : at[c] \notin Streams
      BY <3>1 DEF IInv, ReaderInv
    <3> QED BY <1>1, <1>3, <2>1, <3>1, <3>2 DEF Kept
  <2>7. ASSUME NEW s \in Streams, ReadNow(s)
        PROVE  ReaderInv'
    <3>1. UNCHANGED <<sch, pc, at>>
      BY <2>7 DEF ReadNow
    <3>2. /\ proc'.life = proc.life /\ child'.reported = child.reported
          /\ \A t \in Streams : ToSet(proc.readers[t]) \ {cur} \subseteq ToSet(proc'.readers[t])
          /\ \A t \in Streams : proc.cache[t] = <<>> => proc'.cache[t] = <<>>
      <4>1. GotOutput(cur, s) \/ GotNothing(cur, s)
        BY <2>7, ImmediateRead
      <4>2. proc.cache \in [Streams -> Seq(1 .. MaxChunks)] /\ child \in Children
        BY <1>1 DEF Processes, DataType
      <4>3. child'.reported = child.reported
        BY <4>1, <4>2 DEF GotOutput, GotNothing, Children
      <4> QED BY <4>1, <4>2, <4>3 DEF GotOutput, GotNothing, SameButQueues
    <3> QED BY <1>1, <1>3, <2>1, <2>2, <3>1, <3>2 DEF Kept
  <2> QED BY <1>6, <2>3, <2>4, <2>5, <2>6, <2>7 DEF StayInRun
<1>7. CASE Events
  <2>1. CASE OnExit
    <3> DEFINE q == proc.readers["out"] \o proc.readers["err"] \o proc.joiners
    <3>1. /\ pc = "poll" /\ proc.life = "live" /\ Wake(q)
          /\ UNCHANGED <<cur, over, at>>
          /\ proc' = [proc EXCEPT !.running = FALSE]
      BY <2>1 DEF OnExit, Polling
    <3>2. q \in Seq(Co)
      BY <1>1, Queues DEF Streams
    <3>3. /\ proc'.life = proc.life /\ proc'.readers = proc.readers
      BY <1>1, <3>1 DEF Processes
    <3>4. \A s \in Streams : ToSet(proc.readers[s]) \subseteq ToSet(q)
      BY <1>1, ExitWakesAll
    <3> HIDE DEF q
    <3>5. /\ sch'.all = sch.all
          /\ pc' # "ub" => \A c \in Co : sch'.status[c] =
                              IF c \in ToSet(q) THEN "busy" ELSE sch.status[c]
      BY <1>1, <3>1, <3>2, WokenControl
    <3>6. ASSUME NEW c \in Co
          PROVE  Kept(c)
      <4>1. (c \in sch.all /\ at[c] \in Streams) => c \in ToSet(q)
        BY <3>4, ReadersOf
      <4> QED BY <3>1, <3>3, <3>5, <4>1 DEF Kept
    <3> QED BY <1>3, <3>1, <3>6
  <2>2. CASE OnWriteDone
    <3>1. /\ pc \in {"poll", "closing"} /\ writes # <<>> /\ UNCHANGED <<cur, over, at, proc, child>>
      BY <2>2 DEF OnWriteDone
    <3>2. CASE Head(writes).live
      <4>1. Wake(<<Head(writes).co>>)
        BY <2>2, <3>2 DEF OnWriteDone
      <4>2. <<Head(writes).co>> \in Seq(Co)
        BY <1>1, <3>1, OldestWrite
      <4>3. \A c \in Co : Kept(c)
        BY <3>1, <4>1, <4>2, KeptByWake
      <4> QED BY <1>3, <3>1, <4>3
    <3>3. CASE ~Head(writes).live
      <4>1. pc' = "ub" /\ UNCHANGED sch
        BY <2>2, <3>3 DEF OnWriteDone
      <4> QED BY <1>3, <3>1, <4>1 DEF Kept
    <3> QED BY <3>2, <3>3
  <2>3. ASSUME NEW s \in Streams, OnData(s)
        PROVE  ReaderInv'
    <3>1. /\ pc = "poll" /\ proc.life = "live" /\ Wake(proc.readers[s])
          /\ UNCHANGED <<cur, over, at, writes>> /\ child.sent[s] < MaxChunks
          /\ child' = [child EXCEPT !.sent[s] = @ + 1]
          /\ proc' = [proc EXCEPT !.cache[s] = Append(@, child.sent[s] + 1)]
      BY <2>3 DEF OnData, Polling
    <3>2. /\ proc'.life = "live" /\ proc'.readers = proc.readers
          /\ child'.reported = child.reported
          /\ \A t \in Streams \ {s} : proc'.cache[t] = proc.cache[t]
      BY <1>1, <3>1, ChunkArrives
    <3>3. proc.readers[s] \in Seq(Co)
      BY <1>1, Queues
    <3>4. /\ sch'.all = sch.all
          /\ pc' # "ub" => \A c \in Co : sch'.status[c] =
                  IF c \in ToSet(proc.readers[s]) THEN "busy" ELSE sch.status[c]
      BY <1>1, <3>1, <3>3, WokenControl
    <3>5. ASSUME NEW c \in Co
          PROVE  Kept(c)
      <4>1. (c \in sch.all /\ at[c] = s) => c \in ToSet(proc.readers[s])
        BY ReadersOf
      <4> QED BY <3>1, <3>2, <3>4, <4>1 DEF Kept
    <3> QED BY <1>3, <3>1, <3>5
  <2>4. ASSUME NEW s \in Streams, OnEof(s)
        PROVE  ReaderInv'
    <3>1. /\ pc = "poll" /\ UNCHANGED <<cur, over, at>>
          /\ child' = [child EXCEPT !.eof = @ \cup {s}]
      BY <2>4 DEF OnEof, Polling
    <3>2. child'.reported = child.reported
      BY <1>1, <3>1 DEF DataType, Children
    <3>3. CASE UNCHANGED <<proc, sch, pc>>
      BY <1>3, <3>1, <3>2, <3>3 DEF Kept
    <3>4. CASE proc' = [proc EXCEPT !.error = TRUE] /\ Wake(proc.readers[s])
      <4>1. /\ proc'.life = proc.life /\ proc'.readers = proc.readers
            /\ proc'.cache = proc.cache
        BY <1>1, <3>4 DEF Processes
      <4>2. proc.readers[s] \in Seq(Co)
        BY <1>1, Queues
      <4>3. \A c \in Co : Kept(c)
        BY <3>1, <3>2, <3>4, <4>1, <4>2, KeptByWake
      <4> QED BY <1>3, <3>1, <4>3
    <3> QED BY <2>4, <3>3, <3>4 DEF OnEof
  <2>5. CASE ChildExits
    <3>1. /\ child' = [child EXCEPT !.alive = FALSE] /\ UNCHANGED <<sch, pc, at, proc>>
          /\ pc = "poll"
      BY <2>5 DEF ChildExits
    <3>2. child'.reported = child.reported
      BY <1>1, <3>1 DEF DataType, Children
    <3> QED BY <1>3, <3>1, <3>2 DEF Kept
  <2>6. ASSUME NEW h \in Handles, OnClose(h)
        PROVE  ReaderInv'
    <3>1. /\ pc # "ub" /\ UNCHANGED <<sch, pc, at, child>>
          /\ proc' = [proc EXCEPT !.closing = @ \ {h}, !.closed = @ \cup {h},
                                  !.freed = proc.closed \cup {h} = Handles]
      BY <2>6 DEF OnClose
    <3>2. proc'.life = proc.life /\ proc'.readers = proc.readers /\ proc'.cache = proc.cache
      BY <1>1, <3>1 DEF Processes
    <3> QED BY <1>3, <3>1, <3>2 DEF Kept
  <2> QED BY <1>7, <2>1, <2>2, <2>3, <2>4, <2>5, <2>6 DEF Events
<1>8. CASE PollReturn
  <2>1. pc = "poll" /\ sch' = StartIteration(sch) /\ UNCHANGED <<at, proc, child>>
    BY <1>8 DEF PollReturn
  <2>2. Sound(sch)
    BY <1>1, <2>1 DEF ControlInv, QueueInv, Ended
  <2>3. sch'.all = sch.all /\ sch'.status = sch.status
    BY <2>1, <2>2, StartIterationSound
  <2> QED BY <1>3, <2>1, <2>3 DEF Kept
<1>9. CASE Shutdown
  <2>1. sch'.all = {}
    BY <1>1, <1>9, ReleaseSound DEF Shutdown
  <2> QED BY <2>1 DEF ReaderInv
<1>10. CASE Closed
  <2>1. pc = "closing" /\ UNCHANGED <<sch, at, proc, child>>
    BY <1>10 DEF Closed
  <2> QED BY <1>3, <2>1 DEF Kept
<1>11. CASE UNCHANGED vars
  BY <1>11 DEF vars, IInv, ReaderInv
<1> QED BY <1>4, <1>5, <1>6, <1>7, <1>8, <1>9, <1>10, <1>11 DEF Next

-----------------------------------------------------------------------------
(***************************************************************************)
(* The invariant, and what follows from it.                                *)
(***************************************************************************)
\* The script is hosted, and there is no object yet.
LEMMA InitIInv == Init => IInv
<1> SUFFICES ASSUME Init PROVE IInv
  OBVIOUS
<1>1. Sound(sch) /\ sch.all = {Main} /\ sch \in Schedules
  <2>1. Main \in Co /\ sch = StartIteration(Host(EmptySchedule, Main))
    BY MainAssumption DEF Init
  <2>2. Sound(sch) /\ sch.all = {Main}
    BY <2>1, FirstPass
  <2> QED BY <2>2 DEF Sound
<1>2. ControlInv
  BY <1>1 DEF Init, ControlInv, ControlType, QueueInv, RunInv, CallInv, Ended
<1>3. proc \in Processes /\ proc.life = "none"
  <2>1. Nothing \in [Streams -> Seq(1 .. MaxChunks)] /\ Nothing \in [Streams -> Seq(Co)]
    BY DEF Nothing
  <2> QED BY <2>1 DEF Init, NoProcess, Processes
<1>4. child \in Children
  <2>1. Nothing \in [Streams -> Seq(1 .. MaxChunks)] /\ MaxChunks \in Nat
    BY BoundAssumption DEF Nothing
  <2>2. [s \in Streams |-> 0] \in [Streams -> 0 .. MaxChunks]
    BY <2>1
  <2> QED BY <2>1, <2>2 DEF Init, NoChild, Children
<1>5. DataInv
  <2>1. DataType
    BY <1>3, <1>4 DEF Init, DataType
  <2>2. ObjectInv /\ HandleInv
    BY DEF Init, NoProcess, NoChild, ObjectInv, HandleInv
  <2> QED BY <1>3, <2>1, <2>2 DEF DataInv, OutputInOrder
<1>6. ReaderInv
  BY <1>1 DEF Init, ReaderInv, Streams, Schedules
<1> QED BY <1>2, <1>5, <1>6 DEF Init, IInv

\* Whether uv_run blocks stays a question with a yes or a no.
LEMMA BlockingStep ==
    ASSUME blocking \in BOOLEAN, [Next]_vars
    PROVE  blocking' \in BOOLEAN
<1>1. CASE Scheduling
  BY <1>1 DEF Scheduling, ReapDead, ResumeFinished, EndPass, ResumeScript, ResumeWriter,
              ResumeJoiner, ResumeJoinerAgain, ResumeReader, ResumeReaderAgain
<1>2. CASE LeaveRun
  BY <1>2 DEF LeaveRun, Write, JoinWaits, Yield, Return, Error, ReadWaits
<1>3. CASE StayInRun
  BY <1>3 DEF StayInRun, Kill, Collect, Spawn, Create, ReadNow
<1>4. CASE Events
  BY <1>4 DEF Events, OnExit, OnWriteDone, ChildExits, OnData, OnEof, OnClose
<1>5. CASE PollReturn \/ Shutdown \/ Closed \/ UNCHANGED vars
  BY <1>5 DEF PollReturn, Shutdown, Closed, vars
<1> QED BY <1>1, <1>2, <1>3, <1>4, <1>5 DEF Next

\* The inductive invariant of auto.process.
THEOREM Inductive == Spec => []IInv
<1>1. Init => IInv
  BY InitIInv
<1>2. IInv /\ [Next]_vars => IInv'
  BY ControlStep, DataStep, ReaderStep, BlockingStep DEF IInv
<1> QED BY <1>1, <1>2, PTL DEF Spec

\* The schedule, the object and what libuv holds keep their types, for any
\* number of coroutines and any bounds (lua/process.c, runtime.h).
THEOREM TypeCorrect == Spec => []TypeOK
<1>1. IInv => TypeOK
  BY DEF IInv, ControlInv, ControlType, DataInv, DataType, Processes, Children, TypeOK
<1> QED BY <1>1, Inductive, PTL

\* No chunk is lost, returned twice or out of order, however many coroutines
\* read the stream (lua/process.c:459-470, 494-505).
THEOREM OutputStaysInOrder == Spec => []OutputInOrder
<1>1. IInv => OutputInOrder
  BY DEF IInv, DataInv
<1> QED BY <1>1, Inductive, PTL

\* A coroutine that waits for output is not forgotten: it has a record, nothing
\* is there for it, and the exit that wakes everybody is still to come
\* (lua/process.c:445-454, 616-619).
THEOREM ReadersAreNotLost == Spec => []NoLostReader
<1>1. IInv => NoLostReader
  BY DEF IInv, ReaderInv, NoLostReader
<1> QED BY <1>1, Inductive, PTL

\* The process record is freed after its last callback (lua/process.c:316-325).
THEOREM FreedAtTheEnd == Spec => []NoCallbackAfterFree
<1>1. IInv => NoCallbackAfterFree
  <2>1. SUFFICES ASSUME IInv, proc.freed PROVE proc.closing = {} /\ writes = <<>>
    BY DEF NoCallbackAfterFree
  <2>2. /\ proc.closed = Handles /\ proc.closing \subseteq Handles
        /\ proc.closing \cap proc.closed = {} /\ "in" \in Handles
        /\ "in" \in proc.closed => writes = <<>>
    BY <2>1 DEF IInv, DataInv, DataType, HandleInv, Processes, Handles
  <2> QED BY <2>2
<1> QED BY <1>1, Inductive, PTL

\* Only a read that got nothing returns nothing.
LEMMA NothingStep ==
    ASSUME IInv, [Next]_vars, NEW s \in Streams, ReturnsNothing(s)
    PROVE  proc.cache[s] = <<>> /\ (child.eof # {} \/ ~proc.running)
<1>1. /\ ControlInv /\ DataInv /\ s # "script" /\ s # "cin" /\ s # "join"
      /\ at \in [Co -> Streams \cup {"script", "cin", "join"}]
      /\ proc \in Processes /\ child \in Children
      /\ proc.readers[s] \in Seq(Co) /\ Len(proc.readers[s]) \in Nat
  BY DEF IInv, ControlInv, ControlType, DataInv, DataType, Processes, Streams
<1>2. ASSUME NEW c, GotNothing(c, s)
      PROVE  proc.cache[s] = <<>> /\ (child.eof # {} \/ ~proc.running)
  BY <1>1, <1>2 DEF GotNothing, DataInv, ObjectInv
<1>3. ASSUME NEW c, GotOutput(c, s)
      PROVE  child'.got[s] # child.got[s]
  <2>1. /\ child.got[s] \in Seq(1 .. MaxChunks) /\ proc.cache[s] \in Seq(1 .. MaxChunks)
        /\ child.got \in [Streams -> Seq(1 .. MaxChunks)]
    BY <1>1 DEF Processes, Children
  <2>2. child'.got[s] = child.got[s] \o proc.cache[s] /\ proc.cache[s] # <<>>
    BY <1>1, <1>3, <2>1 DEF GotOutput, Children
  <2> DEFINE a == child.got[s]
             b == proc.cache[s]
  <2>3. Len(a \o b) = Len(a) + Len(b) /\ Len(b) > 0 /\ Len(a) \in Nat /\ Len(b) \in Nat
    BY <2>1, <2>2
  <2>4. \A l, m, n \in Nat : l = m + n /\ n > 0 => l # m
    OBVIOUS
  <2>5. child'.got[s] = a \o b /\ child.got[s] = a
    BY <2>2
  <2> HIDE DEF a, b
  <2>6. Len(a) + Len(b) \in Nat
    BY <2>3
  <2>7. Len(a \o b) # Len(a)
    BY ONLY <2>3, <2>4, <2>6
  <2> QED BY <2>5, <2>7
<1>4. CASE \E c \in Co : at[c] = s /\ at'[c] = "script" /\ child'.got[s] = child.got[s]
  <2>1. PICK c \in Co : at[c] = s /\ at'[c] = "script" /\ child'.got[s] = child.got[s]
    BY <1>4
  <2>2. at' # at
    BY <1>1, <2>1
  <2>3. CASE Scheduling
    <3>1. ASSUME NEW d \in Co, NEW call, Serve(d, call), Continue(d)
          PROVE  call = s
      BY <1>1, <2>1, <3>1 DEF Serve, Continue
    <3>2. ASSUME NEW d \in Co, ResumeScript(d) \/ ResumeWriter(d) \/ ResumeJoiner(d)
          PROVE  FALSE
      BY <1>1, <3>1, <3>2 DEF ResumeScript, ResumeWriter, ResumeJoiner
    <3>3. PICK d \in Co, t \in Streams : ResumeReader(d, t)
      BY <2>2, <2>3, <3>2 DEF Scheduling, ReapDead, ResumeFinished, EndPass,
         ResumeJoinerAgain, ResumeReaderAgain
    <3>4. t = s
      BY <3>1, <3>3 DEF ResumeReader
    <3>5. GotOutput(d, s) \/ GotNothing(d, s)
      BY <3>3, <3>4, ResumedRead
    <3> QED BY <1>2, <1>3, <2>1, <3>5
  <2>4. CASE LeaveRun
    <3>1. at[cur] = "script"
      BY <1>1, <2>4 DEF LeaveRun, Write, JoinWaits, Yield, Return, Error, ReadWaits, Readable,
                Running, ControlInv, RunInv
    <3>2. PICK call : at' = [at EXCEPT ![cur] = call] \/ at' = at
      BY <2>4 DEF LeaveRun, Write, JoinWaits, Yield, Return, Error, ReadWaits, LeaveIn
    <3> QED BY <1>1, <2>1, <3>1, <3>2
  <2>5. CASE StayInRun \/ Events \/ PollReturn \/ Shutdown \/ Closed \/ UNCHANGED vars
    BY <2>2, <2>5 DEF StayInRun, Kill, Collect, Spawn, Create, ReadNow, Events, OnExit,
       OnWriteDone, ChildExits, OnData, OnEof, OnClose, PollReturn, Shutdown, Closed, vars
  <2> QED BY <2>3, <2>4, <2>5 DEF Next
<1>5. CASE pc' = "run" /\ Len(proc'.readers[s]) > Len(proc.readers[s])
  <2>1. proc' # proc /\ proc'.readers[s] # proc.readers[s]
    BY <1>1, <1>5
  <2>2. CASE Scheduling
    <3>1. ASSUME NEW d \in Co, ResumeJoiner(d)
          PROVE  FALSE
      <4>1. proc'.readers = proc.readers
        BY <1>1, <3>1 DEF ResumeJoiner, Processes
      <4> QED BY <2>1, <4>1
    <3>2. PICK d \in Co, t \in Streams : ResumeReader(d, t)
      BY <2>1, <2>2, <3>1 DEF Scheduling, ReapDead, ResumeFinished, EndPass, ResumeScript,
         ResumeWriter, ResumeJoinerAgain, ResumeReaderAgain
    <3>3. GotOutput(d, t) \/ proc' = proc
      BY <3>2, ResumedRead
    <3>4. Len(proc'.readers[s]) <= Len(proc.readers[s])
      BY <2>1, <3>3 DEF GotOutput
    <3>5. Len(proc'.readers[s]) \in Nat
      BY <2>1, <3>3 DEF GotOutput, Processes
    <3> QED BY <1>1, <1>5, <3>4, <3>5
  <2>3. CASE StayInRun
    <3>1. CASE Kill
      BY <1>1, <2>1, <3>1 DEF Kill, Processes
    <3>2. CASE Collect
      <4>1. proc'.readers[s] = <<>>
        BY <1>1, <3>2 DEF Collect, Finalize, Release, Processes, Nothing
      <4> QED BY <1>1, <1>5, <4>1
    <3>3. CASE \E c \in Co : Spawn(c)
      BY <2>1, <3>3 DEF Spawn
    <3>4. CASE \E have \in Configs : Create(have)
      <4>1. proc'.readers[s] = <<>>
        BY <1>1, <3>4, CreatedData DEF Nothing
      <4> QED BY <1>1, <1>5, <4>1
    <3>5. ASSUME NEW t \in Streams, ReadNow(t)
          PROVE  proc.cache[s] = <<>> /\ (child.eof # {} \/ ~proc.running)
      <4>1. CASE GotOutput(cur, t)
        <5>1. Len(proc'.readers[s]) <= Len(proc.readers[s]) /\ Len(proc'.readers[s]) \in Nat
          BY <4>1 DEF GotOutput, Processes
        <5> QED BY <1>1, <1>5, <5>1
      <4>2. CASE GotNothing(cur, t)
        <5>1. t = s
          BY <2>1, <4>2 DEF GotNothing
        <5> QED BY <1>2, <4>2, <5>1
      <4> QED BY <3>5, <4>1, <4>2, ImmediateRead
    <3> QED BY <2>3, <3>1, <3>2, <3>3, <3>4, <3>5 DEF StayInRun
  <2>4. CASE LeaveRun
    BY <1>5, <2>4 DEF LeaveRun, Write, JoinWaits, Yield, Return, Error, ReadWaits, LeaveIn
  <2>5. CASE Events
    <3>1. pc \in {"poll", "closing"} /\ pc' \in {pc, "ub"}
      BY <2>5 DEF Events, OnExit, OnWriteDone, ChildExits, OnData, OnEof, OnClose, Polling, Wake
    <3> QED BY <1>5, <3>1
  <2>6. CASE PollReturn \/ Shutdown \/ Closed \/ UNCHANGED vars
    BY <1>5, <2>1, <2>6 DEF PollReturn, Shutdown, Closed, vars
  <2> QED BY <2>2, <2>3, <2>4, <2>5, <2>6 DEF Next
<1> QED BY <1>4, <1>5 DEF ReturnsNothing

\* A read returns nothing only when nothing is there, after an end of a stream,
\* the exit or kill() (lua/process.c:445-450).
THEOREM NothingComesFromAnEnd == Spec => NothingOnlyAtEnd
<1>1. IInv /\ [Next]_vars =>
         [\A s \in Streams : ReturnsNothing(s) =>
            /\ proc.cache[s] = <<>>
            /\ child.eof # {} \/ ~proc.running]_vars
  BY NothingStep
<1> QED BY <1>1, Inductive, PTL DEF Spec, NothingOnlyAtEnd
=============================================================================
