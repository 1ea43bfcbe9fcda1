------------------------------ MODULE Scheduler ------------------------------
(***************************************************************************)
(* CScheduler and SingleThreadedSchedulerClient (scheduler.h,              *)
(* scheduler.cpp): threads that serve a queue of timed tasks, and a client *)
(* that uses them to run callbacks one at a time and in order.  The        *)
(* client is the queue behind CMainSignals (validationinterface.cpp).      *)
(*                                                                         *)
(* A step that holds newTaskMutex or m_cs_callbacks_pending is one action. *)
(* Callbacks are numbered in the order in which they are added.            *)
(***************************************************************************)
EXTENDS Integers, Sequences, FiniteSets

CONSTANTS
    Threads,         \* threads in CScheduler::serviceQueue
    Producers,       \* threads that call AddToProcessQueue
    Loaders,         \* the producers that Shutdown joins after it has stopped the
                     \* scheduler: the load-block thread
    Main,            \* the thread that runs Shutdown
    QueueLimit,      \* pending callbacks that LimitValidationInterfaceQueue lets pass
    MaxCallbacks,    \* bound on the callbacks that are added
    MaxTime,         \* bound on the clock
    Period,          \* the period given to scheduleEvery
    MockDeltas       \* arguments of MockForward

ASSUME ActorsAssumption ==
    /\ Threads \cap Producers = {} /\ Main \notin Threads \cup Producers
    /\ IsFiniteSet(Threads) /\ Loaders \subseteq Producers

ASSUME BoundsAssumption ==
    /\ QueueLimit \in Nat /\ MaxCallbacks \in Nat /\ MaxTime \in Nat /\ Period \in Nat \ {0}
    /\ MockDeltas \subseteq Nat \ {0}

Actors == Threads \cup Producers \cup {Main}

VARIABLES
    now,             \* the clock
    taskQueue,       \* tasks, by time
    stopRequested, stopWhenEmpty,
    pc,              \* where an actor is
    until,           \* the time a thread waits for
    job,             \* the task a thread has taken off the queue
    pending,         \* m_callbacks_pending
    running,         \* m_are_callbacks_running
    current,         \* the callback an actor runs
    promise,         \* the callback whose promise a producer waits for
    added,           \* history: number of callbacks added
    done             \* history: the callbacks that were run, in order

vars == <<now, taskQueue, stopRequested, stopWhenEmpty, pc, until, job, pending, running,
          current, promise, added, done>>

ShouldStop == stopRequested \/ (stopWhenEmpty /\ taskQueue = <<>>)

NoTask == [time |-> 0, f |-> "none"]

\* A task may have been given to scheduleEvery; the threads are created.
Init ==
    /\ now = 0
    /\ taskQueue \in {<<>>, <<[time |-> Period, f |-> "repeat"]>>}
    /\ stopRequested = FALSE /\ stopWhenEmpty = FALSE
    /\ pc = [a \in Actors |-> IF a \in Threads THEN "start" ELSE "out"]
    /\ until = [t \in Threads |-> 0]
    /\ job = [t \in Threads |-> NoTask]
    /\ pending = <<>> /\ running = FALSE
    /\ current = [a \in Actors |-> 0] /\ promise = [p \in Producers |-> 0]
    /\ added = 0 /\ done = <<>>

-----------------------------------------------------------------------------
(* CScheduler.                                                             *)

\* multimap::insert: behind the tasks with the same time.
Inserted(q, task) ==
    LET k == Cardinality({i \in 1..Len(q) : q[i].time <= task.time})
    IN SubSeq(q, 1, k) \o <<task>> \o SubSeq(q, k + 1, Len(q))

Waiting(pcs) == {t \in Threads : pcs[t] \in {"wait", "timed"}}

\* notify_one: one waiting thread, if there is one.
NotifyOne(pcs) ==
    \/ Waiting(pcs) = {} /\ pc' = pcs
    \/ \E t \in Waiting(pcs) : pc' = [pcs EXCEPT ![t] = "woken"]

NotifyAll(pcs) == pc' = [a \in Actors |-> IF a \in Waiting(pcs) THEN "woken" ELSE pcs[a]]

\* serviceQueue with newTaskMutex held and no task to run: return, or wait for a
\* task, or wait for the time of the first one.
Proceed(t) ==
    /\ \/ ShouldStop /\ NotifyOne([pc EXCEPT ![t] = "exited"])
       \/ ~ShouldStop /\ taskQueue = <<>> /\ pc' = [pc EXCEPT ![t] = "wait"]
       \/ ~ShouldStop /\ taskQueue # <<>> /\ pc' = [pc EXCEPT ![t] = "timed"]
    /\ until' = [until EXCEPT ![t] = IF ShouldStop \/ taskQueue = <<>> THEN 0
                                     ELSE taskQueue[1].time]
    /\ job' = [job EXCEPT ![t] = NoTask]
    /\ UNCHANGED <<now, taskQueue, stopRequested, stopWhenEmpty, pending, running, current,
                   promise, added, done>>

\* The thread enters serviceQueue, comes back from a task, or was notified.
ServiceQueue(t) == pc[t] \in {"start", "head", "woken"} /\ Proceed(t)

\* wait_until times out: the thread takes the task that is now the first one.
Timeout(t) ==
    /\ pc[t] = "timed" /\ now >= until[t]
    /\ \/ (ShouldStop \/ taskQueue = <<>>) /\ Proceed(t)
       \/ /\ ~ShouldStop /\ taskQueue # <<>>
          /\ job' = [job EXCEPT ![t] = taskQueue[1]]
          /\ taskQueue' = Tail(taskQueue)
          /\ pc' = [pc EXCEPT ![t] = "run"]
          /\ UNCHANGED <<now, stopRequested, stopWhenEmpty, until, pending, running,
                         current, promise, added, done>>

\* The function given to scheduleEvery runs and schedules itself again.
Repeat(t) ==
    /\ pc[t] = "run" /\ job[t].f = "repeat"
    /\ taskQueue' = Inserted(taskQueue, [time |-> now + Period, f |-> "repeat"])
    /\ NotifyOne([pc EXCEPT ![t] = "head"])
    /\ UNCHANGED <<now, stopRequested, stopWhenEmpty, until, job, pending, running, current,
                   promise, added, done>>

\* MockForward, from the mockscheduler RPC; times stay above zero as a bound.
MockForward(d) ==
    /\ pc[Main] = "out"
    /\ \A i \in 1..Len(taskQueue) : taskQueue[i].time >= d
    /\ taskQueue' = [i \in 1..Len(taskQueue) |-> [taskQueue[i] EXCEPT !.time = @ - d]]
    /\ NotifyOne(pc)
    /\ UNCHANGED <<now, stopRequested, stopWhenEmpty, until, job, pending, running, current,
                   promise, added, done>>

Tick ==
    /\ now < MaxTime
    /\ now' = now + 1
    /\ UNCHANGED <<taskQueue, stopRequested, stopWhenEmpty, pc, until, job, pending,
                   running, current, promise, added, done>>

-----------------------------------------------------------------------------
(* SingleThreadedSchedulerClient.                                          *)

\* Where an actor goes on after a call of ProcessQueue or AddToProcessQueue.  A
\* thread may have made it from within the function given to scheduleEvery.
Home(a) ==
    IF a \in Threads THEN IF job[a].f = "repeat" THEN "run" ELSE "head"
    ELSE IF a = Main THEN "emptying"
    ELSE IF promise[a] # 0 THEN "sync" ELSE "out"

\* Mutant: the callback is put in front.
AddToProcessQueueInFront(a) ==
    /\ pending' = <<added + 1>> \o pending
    /\ added' = added + 1
    /\ pc' = [pc EXCEPT ![a] = "maybe"]
    /\ UNCHANGED <<now, taskQueue, stopRequested, stopWhenEmpty, until, job, running,
                   current, done>>

AddToProcessQueue(a) ==
    /\ pending' = Append(pending, added + 1)
    /\ added' = added + 1
    /\ pc' = [pc EXCEPT ![a] = "maybe"]
    /\ UNCHANGED <<now, taskQueue, stopRequested, stopWhenEmpty, until, job, running,
                   current, done>>

\* The producers whose threads Shutdown ends before it stops the scheduler add
\* callbacks until then, the load-block thread until it is joined, and a thread
\* whenever its task does.  Main adds ChainStateFlushed before it empties the queue.
MayAdd(a) ==
    /\ added < MaxCallbacks
    /\ \/ a \in Producers /\ pc[a] = "out" /\ (a \in Loaders \/ pc[Main] = "out")
       \/ a \in Threads /\ pc[a] = "run" /\ job[a].f = "repeat"
       \/ a = Main /\ pc[a] = "joined"

\* A signal of CMainSignals.
Signal(a) == MayAdd(a) /\ AddToProcessQueue(a) /\ UNCHANGED promise

\* SyncWithValidationInterfaceQueue: a callback that fulfils a promise.  The
\* load-block thread calls it in LimitValidationInterfaceQueue only.
SyncWithValidationInterfaceQueue(p) ==
    /\ MayAdd(p) /\ (p \in Loaders => Len(pending) > QueueLimit)
    /\ promise' = [promise EXCEPT ![p] = added + 1]
    /\ AddToProcessQueue(p)

\* The promise was fulfilled.
Synced(p) ==
    /\ pc[p] = "sync" /\ \E i \in 1..Len(done) : done[i] = promise[p]
    /\ promise' = [promise EXCEPT ![p] = 0]
    /\ pc' = [pc EXCEPT ![p] = "out"]
    /\ UNCHANGED <<now, taskQueue, stopRequested, stopWhenEmpty, until, job, pending,
                   running, current, added, done>>

\* MaybeScheduleProcessQueue looks at the queue ...
MaybeScheduleProcessQueue(a) ==
    /\ pc[a] = "maybe"
    /\ pc' = [pc EXCEPT ![a] = IF running \/ pending = <<>> THEN Home(a) ELSE "schedule"]
    /\ UNCHANGED <<now, taskQueue, stopRequested, stopWhenEmpty, until, job, pending,
                   running, current, promise, added, done>>

\* Mutant: no thread is notified.
ScheduleSilently(a) ==
    /\ pc[a] = "schedule"
    /\ taskQueue' = Inserted(taskQueue, [time |-> now, f |-> "process"])
    /\ pc' = [pc EXCEPT ![a] = Home(a)]
    /\ UNCHANGED <<now, stopRequested, stopWhenEmpty, until, job, pending, running, current,
                   promise, added, done>>

\* ... and schedules ProcessQueue after it has let the lock go.
Schedule(a) ==
    /\ pc[a] = "schedule"
    /\ taskQueue' = Inserted(taskQueue, [time |-> now, f |-> "process"])
    /\ NotifyOne([pc EXCEPT ![a] = Home(a)])
    /\ UNCHANGED <<now, stopRequested, stopWhenEmpty, until, job, pending, running, current,
                   promise, added, done>>

\* An actor is about to run ProcessQueue.
InProcessQueue(a) == pc[a] = "run" /\ (a \in Threads => job[a].f = "process")

\* ProcessQueue takes the first callback, unless one is running.
ProcessQueue(a) ==
    /\ InProcessQueue(a)
    /\ IF running \/ pending = <<>>
       THEN pc' = [pc EXCEPT ![a] = Home(a)] /\ UNCHANGED <<pending, running, current>>
       ELSE /\ pc' = [pc EXCEPT ![a] = "callback"]
            /\ running' = TRUE
            /\ current' = [current EXCEPT ![a] = Head(pending)]
            /\ pending' = Tail(pending)
    /\ UNCHANGED <<now, taskQueue, stopRequested, stopWhenEmpty, until, job, promise, added,
                   done>>

\* Mutant: nobody looks at the queue after a callback.
FinishCallbackOnly(a) ==
    /\ pc[a] = "callback"
    /\ done' = Append(done, current[a])
    /\ current' = [current EXCEPT ![a] = 0]
    /\ running' = FALSE
    /\ pc' = [pc EXCEPT ![a] = Home(a)]
    /\ UNCHANGED <<now, taskQueue, stopRequested, stopWhenEmpty, until, job, pending,
                   promise, added>>

\* The callback ends; the destructor of RAIICallbacksRunning follows.
FinishCallback(a) ==
    /\ pc[a] = "callback"
    /\ done' = Append(done, current[a])
    /\ current' = [current EXCEPT ![a] = 0]
    /\ running' = FALSE
    /\ pc' = [pc EXCEPT ![a] = "maybe"]
    /\ UNCHANGED <<now, taskQueue, stopRequested, stopWhenEmpty, until, job, pending,
                   promise, added>>

-----------------------------------------------------------------------------
(* Shutdown.                                                               *)

\* The load-block thread comes to its end.
LoaderEnds(p) ==
    /\ pc[p] = "out"
    /\ pc' = [pc EXCEPT ![p] = "exited"]
    /\ UNCHANGED <<now, taskQueue, stopRequested, stopWhenEmpty, until, job, pending,
                   running, current, promise, added, done>>

\* The threads of the other producers have ended: RPC and network are stopped.
OthersOut == \A p \in Producers \ Loaders : pc[p] = "out"

\* Mutant: the waiting threads are not notified.
StopSilently ==
    /\ pc[Main] = "out" /\ OthersOut
    /\ stopRequested' = TRUE
    /\ pc' = [pc EXCEPT ![Main] = "joining"]
    /\ UNCHANGED <<now, taskQueue, stopWhenEmpty, until, job, pending, running, current,
                   promise, added, done>>

Stop ==
    /\ pc[Main] = "out" /\ OthersOut
    /\ stopRequested' = TRUE
    /\ NotifyAll([pc EXCEPT ![Main] = "joining"])
    /\ UNCHANGED <<now, taskQueue, stopWhenEmpty, until, job, pending, running, current,
                   promise, added, done>>

StopWhenDrained ==
    /\ pc[Main] = "out" /\ OthersOut
    /\ stopWhenEmpty' = TRUE
    /\ NotifyAll([pc EXCEPT ![Main] = "joining"])
    /\ UNCHANGED <<now, taskQueue, stopRequested, until, job, pending, running, current,
                   promise, added, done>>

\* The load-block thread is joined, then the threads.
Join ==
    /\ pc[Main] = "joining" /\ \A a \in Loaders \cup Threads : pc[a] = "exited"
    /\ pc' = [pc EXCEPT ![Main] = "joined"]
    /\ UNCHANGED <<now, taskQueue, stopRequested, stopWhenEmpty, until, job, pending,
                   running, current, promise, added, done>>

\* EmptyQueue: ProcessQueue once, then until nothing is pending.
EmptyQueue ==
    /\ pc[Main] \in {"joined", "emptying"}
    /\ pc' = [pc EXCEPT ![Main] = IF pc[Main] = "joined" \/ pending # <<>> THEN "run"
                                  ELSE "finished"]
    /\ UNCHANGED <<now, taskQueue, stopRequested, stopWhenEmpty, until, job, pending,
                   running, current, promise, added, done>>

ThreadStep(t) == ServiceQueue(t) \/ Timeout(t) \/ Repeat(t)

ClientStep(a) ==
    MaybeScheduleProcessQueue(a) \/ Schedule(a) \/ ProcessQueue(a) \/ FinishCallback(a)

Next ==
    \/ \E t \in Threads : ThreadStep(t)
    \/ \E a \in Actors : Signal(a) \/ ClientStep(a)
    \/ \E p \in Producers : SyncWithValidationInterfaceQueue(p) \/ Synced(p)
    \/ \E p \in Loaders : LoaderEnds(p)
    \/ \E d \in MockDeltas : MockForward(d)
    \/ Stop \/ StopWhenDrained \/ Join \/ EmptyQueue \/ Tick

Spec == Init /\ [][Next]_vars

\* Threads that can run do, calls are finished, the load-block thread comes to its
\* end and time passes.  The node need not be shut down.
FairSpec ==
    /\ Spec
    /\ \A t \in Threads : WF_vars(ThreadStep(t))
    /\ \A a \in Actors : WF_vars(ClientStep(a))
    /\ \A p \in Producers : WF_vars(Synced(p))
    /\ \A p \in Loaders : WF_vars(LoaderEnds(p))
    /\ WF_vars(Join) /\ WF_vars(EmptyQueue) /\ WF_vars(Tick)

-----------------------------------------------------------------------------
(* Properties.                                                             *)

\* Every variable keeps its type, and a thread that runs has a task: it never
\* takes the first task of an empty queue.
TypeOK ==
    /\ now \in Nat /\ added \in Nat
    /\ taskQueue \in Seq([time : Nat, f : {"repeat", "process"}])
    /\ {stopRequested, stopWhenEmpty, running} \subseteq BOOLEAN
    /\ pc \in [Actors -> {"start", "head", "woken", "wait", "timed", "run", "exited", "out",
                          "maybe", "schedule", "callback", "sync", "joining", "joined",
                          "emptying", "finished"}]
    /\ until \in [Threads -> Nat]
    /\ job \in [Threads -> [time : Nat, f : {"none", "repeat", "process"}]]
    /\ pending \in Seq(Nat) /\ done \in Seq(Nat)
    /\ current \in [Actors -> Nat] /\ promise \in [Producers -> Nat]
    /\ \A t \in Threads : pc[t] = "run" => job[t].f # "none"

\* "No two jobs will be executed at the same time" (SingleThreadedSchedulerClient).
Serial ==
    \A a, b \in Actors : pc[a] = "callback" /\ pc[b] = "callback" => a = b

\* Callbacks run "as if they are executed in order by a single thread"
\* (AddToProcessQueue), whichever threads run them.
InOrder == \A i \in 1..Len(done) : done[i] = i

\* While a callback is pending, ProcessQueue is scheduled or somebody is about to
\* look at the queue: MaybeScheduleProcessQueue never leaves one behind.
NeverStranded ==
    pending # <<>> =>
        \/ \E a \in Actors : pc[a] \in {"callback", "maybe", "schedule"}
        \/ \E t \in Threads : InProcessQueue(t)
        \/ \E i \in 1..Len(taskQueue) : taskQueue[i].f = "process"

\* The load-block thread waits in LimitValidationInterfaceQueue, and the threads
\* that would run the callback it waits for have returned: scheduler->stop() comes
\* before g_load_block.join() in Shutdown.
LoaderStuck ==
    /\ \E p \in Loaders : pc[p] = "sync"
    /\ \A t \in Threads : pc[t] = "exited"

\* Every callback that was added is run, by the threads or by EmptyQueue, also one
\* that is added while the threads stop; unless the load-block thread is stuck.
AllRun ==
    \A c \in 1..MaxCallbacks :
        added >= c ~> (\E i \in 1..Len(done) : done[i] = c) \/ LoaderStuck

\* stop() at any moment ends every serviceQueue, and EmptyQueue returns, whatever
\* is added meanwhile; unless the load-block thread is stuck.
ShutdownEnds == stopRequested ~> pc[Main] = "finished" \/ LoaderStuck

=============================================================================
