----------------------------- MODULE CheckQueue -----------------------------
(***************************************************************************)
(* The queue of script checks (checkqueue.h).  A master (ConnectBlock)     *)
(* takes the queue with CCheckQueueControl, adds batches of checks and     *)
(* calls Wait; it then works on the queue next to the worker threads and   *)
(* returns whether all checks succeeded.                                   *)
(*                                                                         *)
(* A step that holds the mutex is one action, up to the wait on a          *)
(* condition variable or the release of the lock.  The checks of a batch   *)
(* run without the lock and touch only the thread's own fOk.  "As the      *)
(* order of booleans doesn't matter" (checkqueue.h) the queue is a set.    *)
(***************************************************************************)
EXTENDS Integers, FiniteSets

CONSTANTS
    Workers,     \* threads in CCheckQueue::Thread
    Masters,     \* threads that construct a CCheckQueueControl
    NoMaster,
    Checks,      \* the checks a master may add
    Good,        \* the ones that return true
    nBatchSize

ASSUME ThreadsAssumption ==
    /\ IsFiniteSet(Workers) /\ IsFiniteSet(Masters)
    /\ Workers \cap Masters = {} /\ NoMaster \notin Workers \cup Masters

ASSUME ChecksAssumption ==
    IsFiniteSet(Checks) /\ Good \subseteq Checks /\ nBatchSize \in Nat

Threads == Workers \cup Masters

VARIABLES
    queue, nIdle, nTotal, fAllOk, nTodo,
    pc,        \* where a thread is
    batch,     \* vChecks of Loop, by thread
    fOk,       \* fOk of Loop, by thread; what Wait returned, for a master
    control,   \* the holder of ControlMutex
    added      \* history: the checks added since control was taken

vars == <<queue, nIdle, nTotal, fAllOk, nTodo, pc, batch, fOk, control, added>>

\* Workers are created at startup and enter the loop when they first run.
Init ==
    /\ queue = {} /\ nIdle = 0 /\ nTotal = 0 /\ fAllOk = TRUE /\ nTodo = 0
    /\ pc = [t \in Threads |-> IF t \in Masters THEN "out" ELSE "start"]
    /\ batch = [t \in Threads |-> {}]
    /\ fOk = [t \in Threads |-> TRUE]
    /\ control = NoMaster /\ added = {}

-----------------------------------------------------------------------------
(* The master.                                                             *)

\* CCheckQueueControl's constructor.
Enter(m) ==
    /\ pc[m] = "out" /\ control = NoMaster
    /\ control' = m /\ added' = {}
    /\ pc' = [pc EXCEPT ![m] = "adding"]
    /\ UNCHANGED <<queue, nIdle, nTotal, fAllOk, nTodo, batch, fOk>>

\* notify_one for one new check, notify_all for more; nobody may be waiting.
Notified(n) ==
    LET waiting == {w \in Workers : pc[w] = "wait"}
    IN IF n > 1 THEN {waiting}
       ELSE IF waiting = {} THEN {{}} ELSE {{w} : w \in waiting}

Add(m, S) ==
    /\ pc[m] = "adding" /\ S # {} /\ S \cap added = {}
    /\ queue' = queue \cup S
    /\ nTodo' = nTodo + Cardinality(S)
    /\ added' = added \cup S
    /\ \E W \in Notified(Cardinality(S)) :
          pc' = [t \in Threads |-> IF t \in W THEN "woken" ELSE pc[t]]
    /\ UNCHANGED <<nIdle, nTotal, fAllOk, batch, fOk, control>>

\* ~CCheckQueueControl, after Wait.
Leave(m) ==
    /\ pc[m] = "done"
    /\ control' = NoMaster
    /\ pc' = [pc EXCEPT ![m] = "out"]
    /\ UNCHANGED <<queue, nIdle, nTotal, fAllOk, nTodo, batch, fOk, added>>

-----------------------------------------------------------------------------
(* CCheckQueue::Loop.                                                      *)

AtMost(x, y) == IF x < y THEN x ELSE y

\* nNow.
BatchSize(total, idle) ==
    LET n == AtMost(nBatchSize, Cardinality(queue) \div (total + idle + 1))
    IN IF n < 1 THEN 1 ELSE n

\* The loop head with the lock held: the master returns, ...
Return(m, pcs, total, idle, todo, ok) ==
    /\ queue = {} /\ m \in Masters /\ todo = 0
    /\ nTotal' = total - 1 /\ nIdle' = idle /\ nTodo' = todo
    /\ fOk' = [fOk EXCEPT ![m] = ok]
    /\ fAllOk' = TRUE
    /\ pc' = [pcs EXCEPT ![m] = "done"]
    /\ batch' = [batch EXCEPT ![m] = {}]
    /\ UNCHANGED <<queue, control, added>>

\* ... a thread that finds nothing to do waits, ...
Wait(t, pcs, total, idle, todo, ok) ==
    /\ queue = {} /\ (t \notin Masters \/ todo # 0)
    /\ nTotal' = total /\ nIdle' = idle + 1 /\ nTodo' = todo /\ fAllOk' = ok
    /\ pc' = [pcs EXCEPT ![t] = "wait"]
    /\ batch' = [batch EXCEPT ![t] = {}]
    /\ UNCHANGED <<queue, fOk, control, added>>

\* ... and otherwise it takes some checks off the queue.
Take(t, pcs, total, idle, todo, ok) ==
    /\ \E S \in SUBSET queue :
          /\ Cardinality(S) = BatchSize(total, idle)
          /\ queue' = queue \ S
          /\ batch' = [batch EXCEPT ![t] = S]
    /\ nTotal' = total /\ nIdle' = idle /\ nTodo' = todo /\ fAllOk' = ok
    /\ fOk' = [fOk EXCEPT ![t] = ok]
    /\ pc' = [pcs EXCEPT ![t] = "work"]
    /\ UNCHANGED <<control, added>>

LoopHead(t, pcs, total, idle, todo, ok) ==
    \/ Return(t, pcs, total, idle, todo, ok)
    \/ Wait(t, pcs, total, idle, todo, ok)
    \/ Take(t, pcs, total, idle, todo, ok)

\* The first iteration; for a master this is the call of Wait.
EnterLoop(t) ==
    /\ pc[t] \in {"start", "adding"}
    /\ LoopHead(t, pc, nTotal + 1, nIdle, nTodo, fAllOk)

\* The checks of the batch, until one fails.
Execute(t) ==
    /\ pc[t] = "work"
    /\ fOk' = [fOk EXCEPT ![t] = @ /\ batch[t] \subseteq Good]
    /\ pc' = [pc EXCEPT ![t] = "report"]
    /\ UNCHANGED <<queue, nIdle, nTotal, fAllOk, nTodo, batch, control, added>>

\* Mutant: the last batch wakes nobody.
InformedNobody(t, todo) == pc

\* "We processed the last element; inform the master."
Informed(t, todo) ==
    IF todo = 0 /\ t \notin Masters
    THEN [u \in Threads |-> IF u \in Masters /\ pc[u] = "wait" THEN "woken" ELSE pc[u]]
    ELSE pc

\* Mutant: the outcome of the batch is lost.
ReportLosesOutcome(t) ==
    /\ pc[t] = "report"
    /\ LET todo == nTodo - Cardinality(batch[t])
       IN LoopHead(t, Informed(t, todo), nTotal, nIdle, todo, fAllOk)

\* The clean-up of the previous iteration, in the same critical section.
Report(t) ==
    /\ pc[t] = "report"
    /\ LET todo == nTodo - Cardinality(batch[t])
       IN LoopHead(t, Informed(t, todo), nTotal, nIdle, todo, fAllOk /\ fOk[t])

\* A wait on a condition variable ends with the lock held again.
Wake(t) ==
    /\ pc[t] = "woken"
    /\ LoopHead(t, pc, nTotal, nIdle - 1, nTodo, fAllOk)

\* Condition variables may wake a thread for no reason.
SpuriousWakeup(t) ==
    /\ pc[t] = "wait"
    /\ pc' = [pc EXCEPT ![t] = "woken"]
    /\ UNCHANGED <<queue, nIdle, nTotal, fAllOk, nTodo, batch, fOk, control, added>>

\* Shutdown interrupts the worker threads: the wait throws, even when the thread
\* has just been notified, and nIdle and nTotal keep counting it.
Interrupt(w) ==
    /\ pc[w] \in {"wait", "woken"}
    /\ pc' = [pc EXCEPT ![w] = "exited"]
    /\ UNCHANGED <<queue, nIdle, nTotal, fAllOk, nTodo, batch, fOk, control, added>>

Next ==
    \/ \E m \in Masters : Enter(m) \/ Leave(m) \/ \E S \in SUBSET Checks : Add(m, S)
    \/ \E t \in Threads : EnterLoop(t) \/ Execute(t) \/ Report(t) \/ Wake(t)
                             \/ SpuriousWakeup(t)
    \/ \E w \in Workers : Interrupt(w)

Spec == Init /\ [][Next]_vars

\* A thread that can run does; nothing is assumed of spurious wakeups.
FairSpec ==
    /\ Spec
    /\ \A t \in Threads : WF_vars(Execute(t) \/ Report(t) \/ Wake(t))

-----------------------------------------------------------------------------
(* Properties.                                                             *)

\* Every variable keeps its type; the counters never go below zero.
TypeOK ==
    /\ queue \subseteq Checks /\ added \subseteq Checks
    /\ nIdle \in Nat /\ nTotal \in Nat /\ nTodo \in Nat
    /\ fAllOk \in BOOLEAN
    /\ pc \in [Threads -> {"out", "adding", "done", "start", "work", "report", "wait",
                           "woken", "exited"}]
    /\ batch \in [Threads -> SUBSET Checks]
    /\ fOk \in [Threads -> BOOLEAN]
    /\ control \in Masters \cup {NoMaster}

Pending == {c \in Checks : c \in queue \/ \E t \in Threads : c \in batch[t]}

\* nTodo is the "number of verifications that haven't completed yet", the ones
\* in the threads' own batches included.
TodoExact == nTodo = Cardinality(Pending)

\* Wait returns whether all checks added by this master succeeded: none is
\* skipped unless another failed, and no outcome of an earlier block is left.
ResultExact == \A m \in Masters : pc[m] = "done" => (fOk[m] <=> added \subseteq Good)

\* CCheckQueueControl "guarantees the passed queue is finished before
\* continuing": nothing is pending and the status is fresh for the next master.
QueueFinished ==
    control = NoMaster \/ pc[control] = "done" =>
        Pending = {} /\ nTodo = 0 /\ fAllOk

\* Wait returns, with any number of workers interrupted and any notification
\* taken by a worker that exits.
WaitReturns ==
    \A m \in Masters : pc[m] \in {"work", "report", "wait", "woken"} ~> pc[m] = "done"
=============================================================================
