--------------------------- MODULE SchedulerProofs ---------------------------
(***************************************************************************)
(* The callbacks of SingleThreadedSchedulerClient run one at a time and in *)
(* order, and none is left behind, for any number of service threads,      *)
(* producers and callbacks.                                                *)
(*                                                                         *)
(* The inductive invariant puts the callbacks in one line: the ones that   *)
(* are done, the one that runs, the ones that wait.  Who runs it is known  *)
(* by pc; m_are_callbacks_running says whether there is one.               *)
(***************************************************************************)
EXTENDS Scheduler, SequenceTheorems, FiniteSetTheorems, TLAPS

PCs == {"start", "head", "woken", "wait", "timed", "run", "exited", "out", "maybe",
        "schedule", "callback", "sync", "joining", "joined", "emptying", "finished"}

Tasks == [time : Nat, f : {"repeat", "process"}]

\* The callbacks are numbered along done, the running one and pending.
Line ==
    LET n == Len(done) + (IF running THEN 1 ELSE 0)
    IN /\ added = n + Len(pending)
       /\ \A i \in 1..Len(pending) : pending[i] = n + i

\* The flag tells whether an actor runs a callback; it is the next one.
Runner ==
    /\ running <=> \E a \in Actors : pc[a] = "callback"
    /\ \A a \in Actors : pc[a] = "callback" => current[a] = Len(done) + 1

IInv == TypeOK /\ Serial /\ InOrder /\ Line /\ Runner /\ NeverStranded

-----------------------------------------------------------------------------
(* Facts about the operators.                                              *)

\* A task put into a queue at place k + 1.
LEMMA Spliced ==
    ASSUME NEW q \in Seq(Tasks), NEW task \in Tasks, NEW k \in 0..Len(q)
    PROVE  LET r == SubSeq(q, 1, k) \o <<task>> \o SubSeq(q, k + 1, Len(q))
           IN /\ r \in Seq(Tasks)
              /\ Len(r) = Len(q) + 1
              /\ r[k + 1] = task
              /\ \A i \in 1..k : r[i] = q[i]
              /\ \A i \in (k + 1)..Len(q) : r[i + 1] = q[i]
<1> DEFINE a == SubSeq(q, 1, k)
           b == SubSeq(q, k + 1, Len(q))
           l == a \o <<task>>
<1>0. Len(q) \in Nat
  OBVIOUS
<1>1. a \in Seq(Tasks) /\ Len(a) = k /\ \A i \in 1..k : a[i] = q[i]
  OBVIOUS
<1>2. b \in Seq(Tasks) /\ Len(b) = Len(q) - k /\ \A i \in 1..(Len(q) - k) : b[i] = q[k + i]
  OBVIOUS
<1> HIDE DEF a, b
<1>3. l \in Seq(Tasks) /\ Len(l) = k + 1 /\ l[k + 1] = task /\ \A i \in 1..k : l[i] = q[i]
  BY <1>1
<1> HIDE DEF l
<1>4. /\ l \o b \in Seq(Tasks) /\ Len(l \o b) = Len(q) + 1
      /\ \A i \in 1..(k + 1) : (l \o b)[i] = l[i]
      /\ \A i \in (k + 2)..(Len(q) + 1) : (l \o b)[i] = b[i - (k + 1)]
  <2>1. l \o b \in Seq(Tasks) /\ Len(l \o b) = Len(l) + Len(b)
    BY <1>2, <1>3, ConcatProperties, Zenon
  <2>2. \A i \in 1..(Len(l) + Len(b)) :
           (l \o b)[i] = IF i <= Len(l) THEN l[i] ELSE b[i - Len(l)]
    BY <1>2, <1>3, SMTT(60)
  <2>3. Len(l) = k + 1 /\ Len(l) + Len(b) = Len(q) + 1
    BY <1>0, <1>2, <1>3
  <2> QED BY <1>0, <2>1, <2>2, <2>3
<1>5. \A i \in (k + 1)..Len(q) : (l \o b)[i + 1] = q[i]
  <2> SUFFICES ASSUME NEW i \in (k + 1)..Len(q)
               PROVE  (l \o b)[i + 1] = q[i]
    BY Zenon
  <2>1. i + 1 \in (k + 2)..(Len(q) + 1) /\ i - k \in 1..(Len(q) - k)
    BY <1>0
  <2>2. (l \o b)[i + 1] = b[(i + 1) - (k + 1)]
    BY <1>4, <2>1
  <2> QED BY <1>2, <2>1, <2>2
<1>6. (l \o b)[k + 1] = task /\ \A i \in 1..k : (l \o b)[i] = q[i]
  BY <1>3, <1>4
<1> QED BY <1>4, <1>5, <1>6, Zenon DEF l, a, b

\* Inserting keeps the tasks of the queue and adds the new one.
LEMMA InsertedFacts ==
    ASSUME NEW q \in Seq(Tasks), NEW task \in Tasks
    PROVE  /\ Inserted(q, task) \in Seq(Tasks)
           /\ \E i \in 1..Len(Inserted(q, task)) : Inserted(q, task)[i] = task
           /\ \A i \in 1..Len(q) :
                 \E j \in 1..Len(Inserted(q, task)) : Inserted(q, task)[j] = q[i]
<1> DEFINE S == {i \in 1..Len(q) : q[i].time <= task.time}
           k == Cardinality(S)
           r == SubSeq(q, 1, k) \o <<task>> \o SubSeq(q, k + 1, Len(q))
<1>1. Len(q) \in Nat /\ IsFiniteSet(1..Len(q)) /\ Cardinality(1..Len(q)) = Len(q)
  <2>1. Len(q) \in Nat
    OBVIOUS
  <2> QED BY <2>1, FS_Interval, SMTT(60)
<1>2. S \subseteq 1..Len(q)
  OBVIOUS
<1>3. IsFiniteSet(S) /\ Cardinality(S) <= Len(q)
  BY <1>1, <1>2, FS_Subset
<1>4. k \in 0..Len(q)
  BY <1>1, <1>3, FS_CardinalityType
<1>5. Inserted(q, task) = r
  BY DEF Inserted
<1> HIDE DEF S, k
<1>6. /\ r \in Seq(Tasks) /\ Len(r) = Len(q) + 1 /\ r[k + 1] = task
      /\ \A i \in 1..k : r[i] = q[i]
      /\ \A i \in (k + 1)..Len(q) : r[i + 1] = q[i]
  BY <1>4, Spliced, ZenonT(60)
<1> HIDE DEF r
<1>7. k + 1 \in 1..Len(r)
  BY <1>1, <1>4, <1>6
<1>8. ASSUME NEW i \in 1..Len(q) PROVE \E j \in 1..Len(r) : r[j] = q[i]
  <2>1. CASE i <= k
    BY <1>1, <1>4, <1>6, <2>1
  <2>2. CASE ~(i <= k)
    <3>1. i + 1 \in 1..Len(r) /\ i \in (k + 1)..Len(q)
      BY <1>1, <1>4, <1>6, <2>2
    <3> QED BY <1>6, <3>1
  <2> QED BY <2>1, <2>2
<1> QED BY <1>5, <1>6, <1>7, <1>8

\* What is left of a queue that was not empty.
LEMMA FirstFacts ==
    ASSUME NEW S, NEW q \in Seq(S), q # <<>>
    PROVE  /\ Len(q) \in Nat \ {0} /\ q[1] \in S /\ Head(q) = q[1]
           /\ Tail(q) \in Seq(S) /\ Len(Tail(q)) = Len(q) - 1
           /\ \A i \in 1..(Len(q) - 1) : Tail(q)[i] = q[i + 1]
<1>1. Len(q) \in Nat /\ Len(q) # 0
  BY EmptySeq
<1>2. 1 \in 1..Len(q)
  BY <1>1
<1>3. q[1] \in S
  BY <1>2, ElementOfSeq
<1> QED BY <1>1, <1>3, HeadTailProperties

\* Threads and Main are actors.
LEMMA ActorsFacts == Threads \subseteq Actors /\ Main \in Actors /\ Main \notin Threads
BY ActorsAssumption DEF Actors

\* notify_one wakes at most one thread that waits.
LEMMA NotifyOneFacts ==
    ASSUME NEW pcs \in [Actors -> PCs], NotifyOne(pcs)
    PROVE  /\ pc' \in [Actors -> PCs]
           /\ \A a \in Actors : pc'[a] # pcs[a] => pcs[a] \in {"wait", "timed"} /\ pc'[a] = "woken"
BY ActorsFacts DEF NotifyOne, Waiting, PCs

\* notify_all wakes threads that wait.
LEMMA NotifyAllFacts ==
    ASSUME NEW pcs \in [Actors -> PCs], NotifyAll(pcs)
    PROVE  /\ pc' \in [Actors -> PCs]
           /\ \A a \in Actors : pc'[a] # pcs[a] => pcs[a] \in {"wait", "timed"} /\ pc'[a] = "woken"
BY ActorsFacts DEF NotifyAll, Waiting, PCs

\* A step that leaves the callbacks alone.
LEMMA Quiet ==
    ASSUME IInv, TypeOK', NeverStranded',
           UNCHANGED <<pending, running, current, added, done>>,
           \A a \in Actors : pc'[a] = "callback" <=> pc[a] = "callback"
    PROVE  IInv'
BY DEF IInv, Serial, InOrder, Line, Runner

\* A step that leaves whoever is about to look at the queue where they are.
LEMMA StillWatched ==
    ASSUME IInv, UNCHANGED pending,
           \A a \in Actors : pc[a] \in {"callback", "maybe", "schedule"} => pc'[a] = pc[a],
           \A t \in Threads : InProcessQueue(t) => InProcessQueue(t)',
           \A i \in 1..Len(taskQueue) : taskQueue[i].f = "process" =>
              \/ \E j \in 1..Len(taskQueue') : taskQueue'[j].f = "process"
              \/ \E t \in Threads : InProcessQueue(t)'
    PROVE  NeverStranded'
<1> SUFFICES ASSUME pending # <<>>
             PROVE  \/ \E a \in Actors : pc'[a] \in {"callback", "maybe", "schedule"}
                    \/ \E t \in Threads : InProcessQueue(t)'
                    \/ \E i \in 1..Len(taskQueue') : taskQueue'[i].f = "process"
  BY DEF NeverStranded
<1>1. \/ \E a \in Actors : pc[a] \in {"callback", "maybe", "schedule"}
      \/ \E t \in Threads : InProcessQueue(t)
      \/ \E i \in 1..Len(taskQueue) : taskQueue[i].f = "process"
  BY DEF IInv, NeverStranded
<1>2. CASE \E a \in Actors : pc[a] \in {"callback", "maybe", "schedule"}
  <2> PICK a \in Actors : pc[a] \in {"callback", "maybe", "schedule"}
    BY <1>2
  <2>1. pc'[a] = pc[a]
    OBVIOUS
  <2> QED BY <2>1
<1>3. CASE \E t \in Threads : InProcessQueue(t)
  BY <1>3
<1>4. CASE \E i \in 1..Len(taskQueue) : taskQueue[i].f = "process"
  BY <1>4
<1> QED BY <1>1, <1>2, <1>3, <1>4

-----------------------------------------------------------------------------
(* The service threads.                                                    *)

\* What a step may do with the places of the actors that run no callback.
Roaming == {"start", "head", "woken", "wait", "timed"}

\* A thread that finds nothing to run waits or returns.
LEMMA ProceedInv ==
    ASSUME IInv, NEW t \in Threads, pc[t] \in Roaming, Proceed(t)
    PROVE  IInv'
<1>0. TypeOK /\ t \in Actors
  BY ActorsFacts DEF IInv
<1>1. /\ pc' \in [Actors -> PCs]
      /\ \A a \in Actors : pc'[a] # pc[a] =>
            pc[a] \in Roaming /\ pc'[a] \in {"exited", "wait", "timed", "woken"}
  <2>0. pc \in [Actors -> PCs]
    BY <1>0 DEF TypeOK, PCs
  <2>1. CASE ShouldStop
    <3> DEFINE pcs == [pc EXCEPT ![t] = "exited"]
    <3>1. pcs \in [Actors -> PCs] /\ NotifyOne(pcs)
      BY <2>0, <2>1, Zenon DEF Proceed, PCs
    <3>2. /\ pc' \in [Actors -> PCs]
          /\ \A a \in Actors : pc'[a] # pcs[a] => pcs[a] \in {"wait", "timed"} /\ pc'[a] = "woken"
      BY <3>1, NotifyOneFacts, Zenon
    <3> QED BY <1>0, <2>0, <3>2 DEF Roaming
  <2>2. CASE ~ShouldStop
    BY <1>0, <2>0, <2>2 DEF Proceed, PCs, Roaming
  <2> QED BY <2>1, <2>2
<1>2. TypeOK'
  <2>1. until' \in [Threads -> Nat]
    <3>0. taskQueue \in Seq(Tasks)
      BY <1>0 DEF TypeOK, Tasks
    <3>1. ASSUME taskQueue # <<>> PROVE taskQueue[1].time \in Nat
      <4>1. taskQueue[1] \in Tasks
        BY <3>0, <3>1, FirstFacts
      <4> QED BY <4>1 DEF Tasks
    <3> QED BY <1>0, <3>1 DEF TypeOK, Proceed
  <2>2. job' \in [Threads -> [time : Nat, f : {"none", "repeat", "process"}]]
    BY <1>0 DEF TypeOK, Proceed, NoTask
  <2>3. \A u \in Threads : pc'[u] = "run" => job'[u].f # "none"
    BY <1>0, <1>1, ActorsFacts, ZenonT(60) DEF TypeOK, Proceed, Roaming
  <2> QED BY <1>0, <1>1, <2>1, <2>2, <2>3, SMTT(60) DEF TypeOK, Proceed, PCs
<1>3. NeverStranded'
  <2>1. \A u \in Threads : InProcessQueue(u) => InProcessQueue(u)'
    BY <1>0, <1>1, ActorsFacts, Zenon DEF InProcessQueue, Proceed, Roaming, TypeOK
  <2>2. taskQueue' = taskQueue /\ pending' = pending
    BY DEF Proceed
  <2>3. \A a \in Actors : pc[a] \in {"callback", "maybe", "schedule"} => pc'[a] = pc[a]
    BY <1>1 DEF Roaming
  <2> QED BY <2>1, <2>2, <2>3, StillWatched
<1>4. \A a \in Actors : pc'[a] = "callback" <=> pc[a] = "callback"
  BY <1>1 DEF Roaming
<1> QED BY <1>2, <1>3, <1>4, Quiet DEF Proceed

\* A thread whose wait timed out takes the first task.
LEMMA TimeoutInv ==
    ASSUME IInv, NEW t \in Threads, Timeout(t)
    PROVE  IInv'
<1>0. TypeOK /\ t \in Actors /\ pc[t] = "timed"
  BY ActorsFacts DEF IInv, Timeout
<1>1. CASE Proceed(t)
  BY <1>0, <1>1, ProceedInv DEF Roaming
<1>2. CASE /\ taskQueue # <<>>
           /\ job' = [job EXCEPT ![t] = taskQueue[1]]
           /\ taskQueue' = Tail(taskQueue)
           /\ pc' = [pc EXCEPT ![t] = "run"]
           /\ UNCHANGED <<now, stopRequested, stopWhenEmpty, until, pending, running,
                          current, promise, added, done>>
  <2>0. taskQueue \in Seq(Tasks)
    BY <1>0 DEF TypeOK, Tasks
  <2>1. taskQueue[1] \in Tasks /\ Len(taskQueue) \in Nat \ {0}
    BY <1>2, <2>0, FirstFacts
  <2>2. /\ taskQueue' \in Seq(Tasks) /\ Len(taskQueue') = Len(taskQueue) - 1
        /\ \A i \in 1..(Len(taskQueue) - 1) : taskQueue'[i] = taskQueue[i + 1]
    BY <1>2, <2>0, FirstFacts, SMTT(60)
  <2>3. TypeOK'
    <3>1. pc' \in [Actors -> PCs] /\ pc \in [Actors -> PCs]
      BY <1>0, <1>2 DEF TypeOK, PCs
    <3>2. job' \in [Threads -> [time : Nat, f : {"none", "repeat", "process"}]]
      BY <1>0, <1>2, <2>1, SMTT(60) DEF TypeOK, Tasks
    <3>3. \A u \in Threads : pc'[u] = "run" => job'[u].f # "none"
      BY <1>0, <1>2, <2>1, ActorsFacts, SMTT(60) DEF TypeOK, Tasks
    <3> QED BY <1>0, <1>2, <2>2, <3>1, <3>2, <3>3, SMTT(60) DEF TypeOK, Tasks, PCs
  <2>4. NeverStranded'
    <3>1. \A u \in Threads : InProcessQueue(u) => InProcessQueue(u)'
      BY <1>0, <1>2, ActorsFacts DEF InProcessQueue, TypeOK
    <3>2. \A a \in Actors : pc[a] \in {"callback", "maybe", "schedule"} => pc'[a] = pc[a]
      BY <1>0, <1>2 DEF TypeOK
    <3>3. ASSUME NEW i \in 1..Len(taskQueue), taskQueue[i].f = "process"
          PROVE  \/ \E j \in 1..Len(taskQueue') : taskQueue'[j].f = "process"
                 \/ \E u \in Threads : InProcessQueue(u)'
      <4>1. CASE i = 1
        <5>1. pc'[t] = "run" /\ job'[t] = taskQueue[1]
          BY <1>0, <1>2 DEF TypeOK
        <5> QED BY <3>3, <4>1, <5>1 DEF InProcessQueue
      <4>2. CASE i # 1
        <5>1. i - 1 \in 1..(Len(taskQueue) - 1) /\ (i - 1) + 1 = i
          BY <2>1, <4>2
        <5>2. taskQueue'[i - 1] = taskQueue[i]
          BY <2>2, <5>1
        <5> QED BY <2>2, <3>3, <5>1, <5>2
      <4> QED BY <4>1, <4>2
    <3> QED BY <1>2, <3>1, <3>2, <3>3, StillWatched
  <2>5. \A a \in Actors : pc'[a] = "callback" <=> pc[a] = "callback"
    BY <1>0, <1>2, SMTT(60) DEF TypeOK
  <2> QED BY <1>2, <2>3, <2>4, <2>5, Quiet, SMTT(60)
<1> QED BY <1>1, <1>2 DEF Timeout

\* The places where actors go on after a call.
Homes == {"head", "emptying", "out", "sync", "run"}

\* schedule: a task is put into the queue and a thread notified.
LEMMA ScheduledInv ==
    ASSUME IInv, NEW a \in Actors, NEW task \in Tasks, NEW home \in Homes,
           home = "run" => a \in Threads /\ job[a].f = "repeat",
           taskQueue' = Inserted(taskQueue, task), NotifyOne([pc EXCEPT ![a] = home]),
           UNCHANGED <<now, stopRequested, stopWhenEmpty, until, job, pending, running,
                       current, promise, added, done>>,
           \/ pc[a] = "schedule" /\ task.f = "process"
           \/ pc[a] = "run" /\ a \in Threads /\ job[a].f = "repeat"
    PROVE  IInv'
<1>0. TypeOK /\ taskQueue \in Seq(Tasks) /\ pc \in [Actors -> PCs]
  BY DEF IInv, TypeOK, Tasks, PCs
<1>1. /\ taskQueue' \in Seq(Tasks)
      /\ \E i \in 1..Len(taskQueue') : taskQueue'[i] = task
      /\ \A i \in 1..Len(taskQueue) : \E j \in 1..Len(taskQueue') : taskQueue'[j] = taskQueue[i]
  BY <1>0, InsertedFacts, ZenonT(60)
<1> DEFINE pcs == [pc EXCEPT ![a] = home]
<1>2. pcs \in [Actors -> PCs] /\ NotifyOne(pcs)
  BY <1>0 DEF PCs, Homes
<1>3. /\ pc' \in [Actors -> PCs]
      /\ \A b \in Actors : pc'[b] # pcs[b] => pcs[b] \in {"wait", "timed"} /\ pc'[b] = "woken"
  BY <1>2, NotifyOneFacts, Zenon
<1>4. /\ \A b \in Actors : pc'[b] # pc[b] =>
            \/ b = a /\ pc'[b] = home
            \/ pc[b] \in {"wait", "timed"} /\ pc'[b] = "woken"
  BY <1>0, <1>3, SMTT(60) DEF Homes
<1> HIDE DEF pcs
<1>5. TypeOK'
  <2>1. \A u \in Threads : pc'[u] = "run" => job'[u].f # "none"
    BY <1>0, <1>4, ActorsFacts, SMTT(60) DEF TypeOK
  <2> QED BY <1>0, <1>1, <1>3, <2>1, SMTT(60) DEF TypeOK, Tasks, PCs
<1>6. NeverStranded'
  <2>1. CASE task.f = "process"
    BY <1>1, <2>1 DEF NeverStranded
  <2>2. CASE pc[a] = "run" /\ a \in Threads /\ job[a].f = "repeat"
    <3>1. \A u \in Threads : InProcessQueue(u) => InProcessQueue(u)'
      BY <1>4, <2>2, ActorsFacts, SMTT(60) DEF InProcessQueue
    <3>2. \A b \in Actors : pc[b] \in {"callback", "maybe", "schedule"} => pc'[b] = pc[b]
      BY <1>4, <2>2, SMTT(60)
    <3>3. \A i \in 1..Len(taskQueue) : taskQueue[i].f = "process" =>
             \E j \in 1..Len(taskQueue') : taskQueue'[j].f = "process"
      BY <1>1, Zenon
    <3> QED BY <3>1, <3>2, <3>3, StillWatched
  <2> QED BY <2>1, <2>2
<1>7. \A b \in Actors : pc'[b] = "callback" <=> pc[b] = "callback"
  BY <1>4 DEF Homes
<1> QED BY <1>5, <1>6, <1>7, Quiet, SMTT(60)

\* scheduleEvery.
LEMMA RepeatInv ==
    ASSUME IInv, NEW t \in Threads, Repeat(t)
    PROVE  IInv'
<1>1. [time |-> now + Period, f |-> "repeat"] \in Tasks
  BY BoundsAssumption DEF IInv, TypeOK, Tasks
<1>2. "head" \in Homes
  BY DEF Homes
<1> QED BY <1>1, <1>2, ActorsFacts, ScheduledInv, Zenon DEF Repeat

\* MockForward keeps the tasks and changes their times.
LEMMA MockForwardInv ==
    ASSUME IInv, NEW d \in MockDeltas, MockForward(d)
    PROVE  IInv'
<1>0. /\ TypeOK /\ taskQueue \in Seq(Tasks) /\ pc \in [Actors -> PCs]
      /\ d \in Nat
  BY BoundsAssumption DEF IInv, TypeOK, Tasks, PCs
<1>1. Len(taskQueue) \in Nat /\ \A i \in 1..Len(taskQueue) : taskQueue[i] \in Tasks
  BY <1>0, ElementOfSeq
<1>2. \A i \in 1..Len(taskQueue) :
         /\ [taskQueue[i] EXCEPT !.time = @ - d] \in Tasks
         /\ [taskQueue[i] EXCEPT !.time = @ - d].f = taskQueue[i].f
  <2>1. ASSUME NEW x \in Tasks, x.time >= d
        PROVE  [x EXCEPT !.time = @ - d] \in Tasks /\ [x EXCEPT !.time = @ - d].f = x.f
    <3>1. x.time - d \in Nat
      BY <1>0, <2>1 DEF Tasks
    <3> QED BY <3>1 DEF Tasks
  <2>2. \A i \in 1..Len(taskQueue) : taskQueue[i].time >= d
    BY DEF MockForward
  <2> QED BY <1>1, <2>1, <2>2
<1>3. /\ taskQueue' \in Seq(Tasks) /\ Len(taskQueue') = Len(taskQueue)
      /\ \A i \in 1..Len(taskQueue) : taskQueue'[i].f = taskQueue[i].f
  <2> DEFINE g(i) == [taskQueue[i] EXCEPT !.time = @ - d]
             r == [i \in 1..Len(taskQueue) |-> g(i)]
  <2>1. taskQueue' = r
    BY DEF MockForward
  <2>2. \A i \in 1..Len(taskQueue) : g(i) \in Tasks /\ g(i).f = taskQueue[i].f
    BY <1>2
  <2> HIDE DEF g
  <2>3. r \in Seq(Tasks) /\ Len(r) = Len(taskQueue)
    BY <1>1, <2>2, IsASeq, LenProperties, SMTT(60)
  <2> QED BY <2>1, <2>2, <2>3
<1>4. /\ pc' \in [Actors -> PCs]
      /\ \A b \in Actors : pc'[b] # pc[b] => pc[b] \in {"wait", "timed"} /\ pc'[b] = "woken"
  BY <1>0, NotifyOneFacts DEF MockForward
<1>5. TypeOK'
  <2>1. \A u \in Threads : pc'[u] = "run" => job'[u].f # "none"
    BY <1>0, <1>4, ActorsFacts DEF TypeOK, MockForward
  <2> QED BY <1>0, <1>3, <1>4, <2>1, Zenon DEF TypeOK, Tasks, PCs, MockForward
<1>6. NeverStranded'
  <2>1. \A u \in Threads : InProcessQueue(u) => InProcessQueue(u)'
    BY <1>4, ActorsFacts DEF InProcessQueue, MockForward
  <2>2. \A b \in Actors : pc[b] \in {"callback", "maybe", "schedule"} => pc'[b] = pc[b]
    BY <1>4
  <2>3. \A i \in 1..Len(taskQueue) : taskQueue[i].f = "process" =>
           \E j \in 1..Len(taskQueue') : taskQueue'[j].f = "process"
    BY <1>3
  <2>4. UNCHANGED pending
    BY DEF MockForward
  <2> QED BY <2>1, <2>2, <2>3, <2>4, StillWatched
<1>7. \A b \in Actors : pc'[b] = "callback" <=> pc[b] = "callback"
  BY <1>4, SMTT(60)
<1> QED BY <1>5, <1>6, <1>7, Quiet DEF MockForward

\* Time passes.
LEMMA TickInv == IInv /\ Tick => IInv'
BY SMTT(60)
   DEF IInv, Tick, TypeOK, Serial, InOrder, Line, Runner, NeverStranded, InProcessQueue

-----------------------------------------------------------------------------
(* The client.                                                             *)

\* A callback joins the line at its end.
LEMMA AddInv ==
    ASSUME IInv, NEW a \in Actors, MayAdd(a), AddToProcessQueue(a),
           promise' \in [Producers -> Nat]
    PROVE  IInv'
<1>0. /\ TypeOK /\ pc[a] \in {"out", "run", "joined"} /\ pc \in [Actors -> PCs]
      /\ pending \in Seq(Nat) /\ added \in Nat /\ Len(pending) \in Nat
      /\ done \in Seq(Nat) /\ Len(done) \in Nat
  BY DEF IInv, TypeOK, MayAdd, PCs
<1>1. /\ pending' \in Seq(Nat) /\ Len(pending') = Len(pending) + 1
      /\ \A i \in 1..Len(pending) : pending'[i] = pending[i]
      /\ pending'[Len(pending) + 1] = added + 1
  BY <1>0 DEF AddToProcessQueue
<1>2. pc' \in [Actors -> PCs] /\ pc'[a] = "maybe" /\ \A b \in Actors \ {a} : pc'[b] = pc[b]
  BY <1>0, SMTT(60) DEF AddToProcessQueue, PCs
<1>3. TypeOK'
  <2>1. \A u \in Threads : pc'[u] = "run" => job'[u].f # "none"
    BY <1>0, <1>2, ActorsFacts, SMTT(60) DEF TypeOK, AddToProcessQueue
  <2> QED BY <1>0, <1>1, <1>2, <2>1, SMTT(60) DEF TypeOK, PCs, AddToProcessQueue
<1>4. Line'
  <2> DEFINE n == Len(done) + (IF running THEN 1 ELSE 0)
  <2>1. n \in Nat /\ n' = n
    BY <1>0 DEF AddToProcessQueue
  <2>2. added = n + Len(pending) /\ \A i \in 1..Len(pending) : pending[i] = n + i
    BY DEF IInv, Line
  <2> HIDE DEF n
  <2>3. added' = n + Len(pending')
    BY <1>0, <1>1, <2>1, <2>2 DEF AddToProcessQueue
  <2>4. ASSUME NEW i \in 1..Len(pending') PROVE pending'[i] = n + i
    <3>1. CASE i = Len(pending) + 1
      BY <1>0, <1>1, <2>1, <2>2, <3>1
    <3>2. CASE i # Len(pending) + 1
      <4>1. i \in 1..Len(pending)
        BY <1>0, <1>1, <3>2
      <4> QED BY <1>1, <2>2, <4>1
    <3> QED BY <3>1, <3>2
  <2> QED BY <2>1, <2>3, <2>4, Zenon DEF Line, n
<1>5. \A b \in Actors : pc'[b] = "callback" <=> pc[b] = "callback"
  BY <1>0, <1>2
<1>6. Serial' /\ InOrder' /\ Runner'
  BY <1>5 DEF IInv, Serial, InOrder, Runner, AddToProcessQueue
<1>7. NeverStranded'
  BY <1>2 DEF NeverStranded
<1> QED BY <1>3, <1>4, <1>6, <1>7 DEF IInv

\* Where an actor goes on.
LEMMA HomeFacts ==
    \A a \in Actors : /\ Home(a) \in Homes
                      /\ Home(a) = "run" => a \in Threads /\ job[a].f = "repeat"
BY DEF Home, Homes

\* MaybeScheduleProcessQueue walks away only if somebody runs a callback.
LEMMA MaybeInv ==
    ASSUME IInv, NEW a \in Actors, MaybeScheduleProcessQueue(a)
    PROVE  IInv'
<1>0. TypeOK /\ pc[a] = "maybe" /\ pc \in [Actors -> PCs]
  BY DEF IInv, TypeOK, MaybeScheduleProcessQueue, PCs
<1>1. /\ pc' \in [Actors -> PCs] /\ \A b \in Actors \ {a} : pc'[b] = pc[b]
      /\ pc'[a] \in Homes \cup {"schedule"}
      /\ pc'[a] = "run" => a \in Threads /\ job[a].f = "repeat"
      /\ ~running /\ pending # <<>> => pc'[a] = "schedule"
  <2> DEFINE h == Home(a)
  <2>1. h \in Homes /\ (h = "run" => a \in Threads /\ job[a].f = "repeat")
    BY HomeFacts
  <2>2. pc' = [pc EXCEPT ![a] = IF running \/ pending = <<>> THEN h ELSE "schedule"]
    BY DEF MaybeScheduleProcessQueue
  <2> HIDE DEF h
  <2> QED BY <1>0, <2>1, <2>2 DEF PCs, Homes
<1>2. TypeOK'
  <2>1. \A u \in Threads : pc'[u] = "run" => job'[u].f # "none"
    BY <1>0, <1>1, ActorsFacts DEF TypeOK, MaybeScheduleProcessQueue
  <2> QED BY <1>0, <1>1, <2>1, SMTT(60) DEF TypeOK, PCs, MaybeScheduleProcessQueue
<1>3. \A b \in Actors : pc'[b] = "callback" <=> pc[b] = "callback"
  BY <1>0, <1>1 DEF Homes
<1>4. NeverStranded'
  <2>1. CASE running
    <3> PICK b \in Actors : pc[b] = "callback"
      BY <2>1 DEF IInv, Runner
    <3> QED BY <1>3 DEF NeverStranded
  <2>2. CASE ~running /\ pending # <<>>
    BY <1>1, <2>2 DEF NeverStranded
  <2>3. CASE pending = <<>>
    BY <2>3, SMTT(60) DEF NeverStranded, MaybeScheduleProcessQueue
  <2> QED BY <2>1, <2>2, <2>3, SMTT(60)
<1> QED BY <1>2, <1>3, <1>4, Quiet, SMTT(60) DEF MaybeScheduleProcessQueue

\* ProcessQueue is scheduled.
LEMMA ScheduleInv ==
    ASSUME IInv, NEW a \in Actors, Schedule(a)
    PROVE  IInv'
<1>1. [time |-> now, f |-> "process"] \in Tasks /\ [time |-> now, f |-> "process"].f = "process"
  BY DEF IInv, TypeOK, Tasks
<1>2. Home(a) \in Homes /\ (Home(a) = "run" => a \in Threads /\ job[a].f = "repeat")
  BY HomeFacts
<1> QED BY <1>1, <1>2, ScheduledInv, Zenon DEF Schedule

\* ProcessQueue takes the first callback of the line, or leaves it to the one
\* who runs.
LEMMA ProcessQueueInv ==
    ASSUME IInv, NEW a \in Actors, ProcessQueue(a)
    PROVE  IInv'
<1>0. /\ TypeOK /\ pc[a] = "run" /\ pc \in [Actors -> PCs]
      /\ pending \in Seq(Nat) /\ added \in Nat /\ Len(pending) \in Nat
      /\ done \in Seq(Nat) /\ Len(done) \in Nat /\ current \in [Actors -> Nat]
  BY DEF IInv, TypeOK, ProcessQueue, InProcessQueue, PCs
<1>1. CASE running \/ pending = <<>>
  <2>1. /\ pc' \in [Actors -> PCs] /\ \A b \in Actors \ {a} : pc'[b] = pc[b]
        /\ pc'[a] \in Homes
        /\ pc'[a] = "run" => a \in Threads /\ job[a].f = "repeat"
    <3> DEFINE h == Home(a)
    <3>1. h \in Homes /\ (h = "run" => a \in Threads /\ job[a].f = "repeat")
      BY HomeFacts
    <3>2. pc' = [pc EXCEPT ![a] = h]
      BY <1>1 DEF ProcessQueue
    <3> HIDE DEF h
    <3> QED BY <1>0, <3>1, <3>2 DEF PCs, Homes
  <2>2. UNCHANGED <<now, taskQueue, stopRequested, stopWhenEmpty, until, job, pending, running,
                    current, promise, added, done>>
    BY <1>1, SMTT(60) DEF ProcessQueue
  <2>3. TypeOK'
    <3>1. \A u \in Threads : pc'[u] = "run" => job'[u].f # "none"
      BY <1>0, <2>1, <2>2, ActorsFacts, SMTT(60) DEF TypeOK
    <3> QED BY <1>0, <2>1, <2>2, <3>1, SMTT(60) DEF TypeOK, PCs
  <2>4. \A b \in Actors : pc'[b] = "callback" <=> pc[b] = "callback"
    BY <1>0, <2>1 DEF Homes
  <2>5. NeverStranded'
    <3>1. CASE running
      <4> PICK b \in Actors : pc[b] = "callback"
        BY <3>1 DEF IInv, Runner
      <4> QED BY <2>4 DEF NeverStranded
    <3>2. CASE pending = <<>>
      BY <2>2, <3>2 DEF NeverStranded
    <3> QED BY <1>1, <3>1, <3>2, SMTT(60)
  <2> QED BY <2>2, <2>3, <2>4, <2>5, Quiet
<1>2. CASE ~running /\ pending # <<>>
  <2>1. /\ pc' = [pc EXCEPT ![a] = "callback"] /\ running' = TRUE
        /\ current' = [current EXCEPT ![a] = Head(pending)] /\ pending' = Tail(pending)
        /\ UNCHANGED <<now, taskQueue, stopRequested, stopWhenEmpty, until, job, promise,
                       added, done>>
    BY <1>2 DEF ProcessQueue
  <2>2. /\ Len(pending) \in Nat \ {0} /\ Head(pending) = pending[1]
        /\ pending' \in Seq(Nat) /\ Len(pending') = Len(pending) - 1
        /\ \A i \in 1..(Len(pending) - 1) : pending'[i] = pending[i + 1]
    BY <1>0, <1>2, <2>1, FirstFacts
  <2>3. added = Len(done) + Len(pending) /\ \A i \in 1..Len(pending) : pending[i] = Len(done) + i
    BY <1>0, <1>2 DEF IInv, Line
  <2>4. Head(pending) = Len(done) + 1
    BY <2>2, <2>3
  <2>5. /\ pc' \in [Actors -> PCs] /\ pc'[a] = "callback"
        /\ \A b \in Actors \ {a} : pc'[b] = pc[b] /\ pc[b] # "callback"
        /\ current' \in [Actors -> Nat] /\ current'[a] = Len(done) + 1
    <3>1. \A b \in Actors : pc[b] # "callback"
      BY <1>2, SMTT(60) DEF IInv, Runner
    <3> QED BY <1>0, <2>1, <2>4, <3>1 DEF PCs
  <2>6. TypeOK'
    <3>1. \A u \in Threads : pc'[u] = "run" => job'[u].f # "none"
      BY <1>0, <2>1, <2>5, ActorsFacts, SMTT(60) DEF TypeOK
    <3> QED BY <1>0, <2>1, <2>2, <2>5, <3>1, SMTT(60) DEF TypeOK, PCs
  <2>7. Line'
    <3>1. added' = (Len(done) + 1) + Len(pending')
      BY <1>0, <2>1, <2>2, <2>3, SMTT(60)
    <3>2. ASSUME NEW i \in 1..Len(pending') PROVE pending'[i] = (Len(done) + 1) + i
      <4>1. i \in 1..(Len(pending) - 1) /\ i + 1 \in 1..Len(pending)
        BY <2>2
      <4> QED BY <1>0, <2>2, <2>3, <4>1, SMTT(60)
    <3> QED BY <2>1, <3>1, <3>2 DEF Line
  <2>8. Serial' /\ Runner'
    BY <2>1, <2>5 DEF Serial, Runner
  <2>9. InOrder' /\ NeverStranded'
    BY <2>1, <2>5 DEF IInv, InOrder, NeverStranded
  <2> QED BY <2>6, <2>7, <2>8, <2>9, SMTT(60) DEF IInv
<1> QED BY <1>1, <1>2

\* The callback that ends is the next one in the line.
LEMMA FinishCallbackInv ==
    ASSUME IInv, NEW a \in Actors, FinishCallback(a)
    PROVE  IInv'
<1>0. /\ TypeOK /\ pc[a] = "callback" /\ pc \in [Actors -> PCs] /\ Len(pending) \in Nat
      /\ done \in Seq(Nat) /\ Len(done) \in Nat /\ current \in [Actors -> Nat]
  BY DEF IInv, TypeOK, FinishCallback, PCs
<1>1. running /\ current[a] = Len(done) + 1 /\ \A b \in Actors \ {a} : pc[b] # "callback"
  BY <1>0 DEF IInv, Runner, Serial
<1>2. /\ done' \in Seq(Nat) /\ Len(done') = Len(done) + 1
      /\ \A i \in 1..Len(done) : done'[i] = done[i]
      /\ done'[Len(done) + 1] = Len(done) + 1
  BY <1>0, <1>1 DEF FinishCallback
<1>3. /\ pc' \in [Actors -> PCs] /\ pc'[a] = "maybe" /\ \A b \in Actors \ {a} : pc'[b] = pc[b]
      /\ current' \in [Actors -> Nat]
  BY <1>0, SMTT(60) DEF FinishCallback, PCs
<1>4. TypeOK'
  <2>1. \A u \in Threads : pc'[u] = "run" => job'[u].f # "none"
    BY <1>0, <1>3, ActorsFacts DEF TypeOK, FinishCallback
  <2> QED BY <1>0, <1>2, <1>3, <2>1, Zenon DEF TypeOK, PCs, FinishCallback
<1>5. Line'
  <2>1. added = (Len(done) + 1) + Len(pending)
        /\ \A i \in 1..Len(pending) : pending[i] = (Len(done) + 1) + i
    BY <1>1 DEF IInv, Line
  <2>2. pending' = pending /\ added' = added /\ ~running'
    BY DEF FinishCallback
  <2>3. Len(done') + 0 = Len(done) + 1
    BY <1>0, <1>2
  <2> QED BY <2>1, <2>2, <2>3, SMTT(60) DEF Line
<1>6. Serial' /\ Runner'
  BY <1>1, <1>3 DEF Serial, Runner, FinishCallback
<1>7. InOrder'
  <2>1. ASSUME NEW i \in 1..Len(done') PROVE done'[i] = i
    <3>1. CASE i = Len(done) + 1
      BY <1>2, <3>1
    <3>2. CASE i # Len(done) + 1
      <4>1. i \in 1..Len(done)
        BY <1>0, <1>2, <3>2
      <4> QED BY <1>2, <4>1 DEF IInv, InOrder
    <3> QED BY <3>1, <3>2
  <2> QED BY <2>1 DEF InOrder
<1>8. NeverStranded'
  BY <1>3 DEF NeverStranded
<1> QED BY <1>4, <1>5, <1>6, <1>7, <1>8, SMTT(60) DEF IInv

\* A producer that adds nothing: its promise was fulfilled, or it ends.
LEMMA ProducerInv ==
    ASSUME IInv, NEW p \in Producers, Synced(p) \/ LoaderEnds(p)
    PROVE  IInv'
<1>0. /\ TypeOK /\ pc \in [Actors -> PCs] /\ p \in Actors /\ p \notin Threads
      /\ promise \in [Producers -> Nat] /\ pc[p] \in {"sync", "out"}
  BY ActorsAssumption, Zenon DEF IInv, TypeOK, PCs, Actors, Synced, LoaderEnds
<1>1. /\ pc' \in [Actors -> PCs] /\ pc'[p] \in {"out", "exited"}
      /\ \A b \in Actors \ {p} : pc'[b] = pc[b]
  BY <1>0 DEF Synced, LoaderEnds, PCs
<1>2. UNCHANGED <<now, taskQueue, stopRequested, stopWhenEmpty, until, job, pending, running,
                  current, added, done>> /\ promise' \in [Producers -> Nat]
  BY <1>0 DEF Synced, LoaderEnds
<1>3. TypeOK'
  <2>1. \A u \in Threads : pc'[u] = "run" => job'[u].f # "none"
    BY <1>0, <1>1, <1>2, ActorsFacts, Zenon DEF TypeOK
  <2> QED BY <1>0, <1>1, <1>2, <2>1, SMTT(60) DEF TypeOK, PCs
<1>4. \A a \in Actors : pc'[a] = "callback" <=> pc[a] = "callback"
  BY <1>0, <1>1
<1>5. NeverStranded'
  <2>1. \A u \in Threads : InProcessQueue(u) => InProcessQueue(u)'
    BY <1>0, <1>1, <1>2, ActorsFacts, Zenon DEF InProcessQueue
  <2>2. \A b \in Actors : pc[b] \in {"callback", "maybe", "schedule"} => pc'[b] = pc[b]
    BY <1>0, <1>1
  <2> QED BY <1>2, <2>1, <2>2, StillWatched
<1> QED BY <1>2, <1>3, <1>4, <1>5, Quiet

-----------------------------------------------------------------------------
(* Shutdown.                                                               *)

\* A step of Main outside the client that may wake threads.
LEMMA MainInv ==
    ASSUME IInv, pc' \in [Actors -> PCs],
           {stopRequested', stopWhenEmpty'} \subseteq BOOLEAN,
           pc[Main] \in {"out", "joining", "joined", "emptying"},
           pc'[Main] \in {"joining", "joined", "run", "finished"},
           \A a \in Actors \ {Main} : pc'[a] # pc[a] =>
              pc[a] \in {"wait", "timed"} /\ pc'[a] = "woken",
           UNCHANGED <<now, taskQueue, until, job, pending, running, current, promise, added,
                       done>>
    PROVE  IInv'
<1>0. TypeOK
  BY DEF IInv
<1>1. TypeOK'
  <2>1. \A u \in Threads : pc'[u] = "run" => job'[u].f # "none"
    BY <1>0, ActorsFacts, ZenonT(60) DEF TypeOK
  <2> QED BY <1>0, <2>1, SMTT(60) DEF TypeOK, PCs
<1>2. \A a \in Actors : pc'[a] = "callback" <=> pc[a] = "callback"
  OBVIOUS
<1>3. NeverStranded'
  <2>1. \A u \in Threads : InProcessQueue(u) => InProcessQueue(u)'
    BY ActorsFacts DEF InProcessQueue
  <2>2. \A b \in Actors : pc[b] \in {"callback", "maybe", "schedule"} => pc'[b] = pc[b]
    OBVIOUS
  <2> QED BY <2>1, <2>2, StillWatched
<1> QED BY <1>1, <1>2, <1>3, Quiet, SMTT(60)

\* Stop, StopWhenDrained, Join and EmptyQueue.
LEMMA ShutdownInv ==
    ASSUME IInv, Stop \/ StopWhenDrained \/ Join \/ EmptyQueue
    PROVE  IInv'
<1>0. TypeOK /\ pc \in [Actors -> PCs] /\ {stopRequested, stopWhenEmpty} \subseteq BOOLEAN
  BY DEF IInv, TypeOK, PCs
<1>1. CASE Stop \/ StopWhenDrained
  <2> DEFINE pcs == [pc EXCEPT ![Main] = "joining"]
  <2>1. pcs \in [Actors -> PCs] /\ NotifyAll(pcs) /\ pc[Main] = "out"
    BY <1>0, <1>1, Zenon DEF Stop, StopWhenDrained, PCs
  <2>2. /\ pc' \in [Actors -> PCs]
        /\ \A a \in Actors : pc'[a] # pcs[a] => pcs[a] \in {"wait", "timed"} /\ pc'[a] = "woken"
    BY <2>1, NotifyAllFacts, ZenonT(60)
  <2>3. pc'[Main] = "joining" /\ \A a \in Actors \ {Main} : pc'[a] # pc[a] =>
           pc[a] \in {"wait", "timed"} /\ pc'[a] = "woken"
    BY <1>0, <2>2, ActorsFacts
  <2>4. {stopRequested', stopWhenEmpty'} \subseteq BOOLEAN
    BY <1>0, <1>1, Zenon DEF Stop, StopWhenDrained
  <2> QED BY <1>1, <2>1, <2>2, <2>3, <2>4, MainInv, SMTT(60) DEF Stop, StopWhenDrained
<1>2. CASE Join \/ EmptyQueue
  <2>1. /\ pc[Main] \in {"joining", "joined", "emptying"}
        /\ pc'[Main] \in {"joined", "run", "finished"} /\ pc' \in [Actors -> PCs]
        /\ \A a \in Actors \ {Main} : pc'[a] = pc[a]
    BY <1>0, <1>2, ActorsFacts DEF Join, EmptyQueue, PCs
  <2>2. UNCHANGED <<now, taskQueue, stopRequested, stopWhenEmpty, until, job, pending, running,
                    current, promise, added, done>>
    BY <1>2 DEF Join, EmptyQueue
  <2> QED BY <1>0, <2>1, <2>2, MainInv
<1> QED BY <1>1, <1>2

-----------------------------------------------------------------------------
(* The theorems.                                                           *)

\* No callback exists at first.
LEMMA InitInv == Init => IInv
<1> SUFFICES ASSUME Init PROVE IInv
  OBVIOUS
<1>1. taskQueue \in Seq(Tasks)
  <2>1. [time |-> Period, f |-> "repeat"] \in Tasks
    BY BoundsAssumption DEF Tasks
  <2> DEFINE first == [time |-> Period, f |-> "repeat"]
  <2>2. taskQueue = <<>> \/ taskQueue = <<first>>
    BY DEF Init
  <2> HIDE DEF first
  <2>3. first \in Tasks
    BY <2>1 DEF first
  <2>4. <<first>> \in Seq(Tasks) /\ <<>> \in Seq(Tasks)
    BY <2>3
  <2> QED BY <2>2, <2>4, Zenon
<1>2. \A a \in Actors : pc[a] \in {"start", "out"}
  BY DEF Init
<1>3. TypeOK
  <2>1. job \in [Threads -> [time : Nat, f : {"none", "repeat", "process"}]]
    BY DEF Init, NoTask
  <2>2. pc \in [Actors -> PCs]
    BY DEF Init, PCs
  <2>3. \A u \in Threads : pc[u] = "run" => job[u].f # "none"
    BY <1>2, ActorsFacts
  <2>4. /\ now \in Nat /\ added \in Nat /\ until \in [Threads -> Nat]
        /\ {stopRequested, stopWhenEmpty, running} \subseteq BOOLEAN
        /\ current \in [Actors -> Nat] /\ promise \in [Producers -> Nat]
    BY Zenon DEF Init
  <2>5. pending \in Seq(Nat) /\ done \in Seq(Nat)
    BY DEF Init
  <2> QED BY <1>1, <2>1, <2>2, <2>3, <2>4, <2>5 DEF TypeOK, Tasks, PCs
<1>4. Serial /\ InOrder /\ Line /\ Runner /\ NeverStranded
  BY <1>2 DEF Init, Serial, InOrder, Line, Runner, NeverStranded
<1> QED BY <1>3, <1>4 DEF IInv

\* Every step keeps the callbacks in line.
LEMMA StepInv == IInv /\ [Next]_vars => IInv'
<1> SUFFICES ASSUME IInv, [Next]_vars PROVE IInv'
  OBVIOUS
<1>1. ASSUME NEW t \in Threads, ServiceQueue(t) PROVE IInv'
  BY <1>1, ProceedInv DEF ServiceQueue, Roaming
<1>2. ASSUME NEW t \in Threads, Timeout(t) PROVE IInv'
  BY <1>2, TimeoutInv
<1>3. ASSUME NEW t \in Threads, Repeat(t) PROVE IInv'
  BY <1>3, RepeatInv
<1>4. ASSUME NEW a \in Actors, Signal(a) PROVE IInv'
  <2>1. promise' \in [Producers -> Nat]
    BY <1>4 DEF Signal, IInv, TypeOK
  <2> QED BY <1>4, <2>1, AddInv DEF Signal
<1>5. ASSUME NEW a \in Actors, ClientStep(a) PROVE IInv'
  BY <1>5, MaybeInv, ScheduleInv, ProcessQueueInv, FinishCallbackInv, SMTT(60)
     DEF ClientStep
<1>6. ASSUME NEW d \in MockDeltas, MockForward(d) PROVE IInv'
  BY <1>6, MockForwardInv
<1>7. CASE Stop \/ StopWhenDrained \/ Join \/ EmptyQueue
  BY <1>7, ShutdownInv
<1>8. CASE Tick
  BY <1>8, TickInv, SMTT(60)
<1>9. ASSUME NEW p \in Producers, SyncWithValidationInterfaceQueue(p) PROVE IInv'
  <2>1. promise' \in [Producers -> Nat] /\ p \in Actors
    BY <1>9 DEF SyncWithValidationInterfaceQueue, IInv, TypeOK, Actors
  <2> QED BY <1>9, <2>1, AddInv DEF SyncWithValidationInterfaceQueue
<1>10. ASSUME NEW p \in Producers, Synced(p) \/ LoaderEnds(p) PROVE IInv'
  BY <1>10, ProducerInv
<1>11. \A p \in Loaders : p \in Producers
  BY ActorsAssumption
<1>12. CASE UNCHANGED vars
  BY <1>12, SMTT(60)
     DEF vars, IInv, TypeOK, Serial, InOrder, Line, Runner, NeverStranded, InProcessQueue
<1> QED BY <1>1, <1>2, <1>3, <1>4, <1>5, <1>6, <1>7, <1>8, <1>9, <1>10, <1>11, <1>12, Zenon
        DEF Next, ThreadStep

\* The inductive invariant holds throughout.
LEMMA Invariant == Spec => []IInv
BY InitInv, StepInv, PTL DEF Spec

\* Every variable keeps its type, and no thread takes a task off an empty queue
\* (the second test of the queue in serviceQueue).
THEOREM TypeCorrect == Spec => []TypeOK
<1>1. IInv => TypeOK
  BY DEF IInv
<1> QED BY <1>1, Invariant, PTL

\* Two callbacks never run at the same time (m_are_callbacks_running), with any
\* number of service threads and with EmptyQueue run by the thread that shuts down.
THEOREM OneAtATime == Spec => []Serial
<1>1. IInv => Serial
  BY DEF IInv
<1> QED BY <1>1, Invariant, PTL

\* The callbacks run in the order in which AddToProcessQueue was called.
THEOREM AlwaysInOrder == Spec => []InOrder
<1>1. IInv => InOrder
  BY DEF IInv
<1> QED BY <1>1, Invariant, PTL

\* MaybeScheduleProcessQueue lets the lock go before it schedules, and still no
\* pending callback is left without somebody who will look at the queue.
THEOREM NoneStranded == Spec => []NeverStranded
<1>1. IInv => NeverStranded
  BY DEF IInv
<1> QED BY <1>1, Invariant, PTL
=============================================================================
