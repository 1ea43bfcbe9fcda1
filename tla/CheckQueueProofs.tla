-------------------------- MODULE CheckQueueProofs --------------------------
(***************************************************************************)
(* The verdict of the check queue is exact for any number of workers,      *)
(* masters and checks and any batch size.                                  *)
(*                                                                         *)
(* The inductive invariant says who owns which check, that nTodo counts    *)
(* the checks that are owned, and that fAllOk together with the threads'   *)
(* fOk accounts for every check that is no longer owned.  The loop head is *)
(* entered from three places with the lock held; Mid describes the state   *)
(* there, when thread t has dropped its batch.                             *)
(***************************************************************************)
EXTENDS CheckQueue, FiniteSetTheorems, TLAPS

Busy == {"work", "report"}
Parked == {"wait", "woken", "exited"}
Looping == Busy \cup Parked
PCs == {"out", "adding", "done", "start", "work", "report", "wait", "woken", "exited"}
MasterPCs == {"out", "adding", "done", "work", "report", "wait", "woken"}
WorkerPCs == {"start", "work", "report", "wait", "woken", "exited"}

\* Masters and workers are where they can be; only the holder of ControlMutex
\* is inside.
Roles ==
    /\ \A m \in Masters : pc[m] \in MasterPCs /\ (pc[m] # "out" <=> control = m)
    /\ \A w \in Workers : pc[w] \in WorkerPCs

\* A check has one owner, and only busy threads own checks.
Owned ==
    \A t \in Threads :
        /\ queue \cap batch[t] = {}
        /\ batch[t] # {} <=> pc[t] \in Busy
        /\ \A u \in Threads \ {t} : batch[t] \cap batch[u] = {}

Counted ==
    /\ nIdle = Cardinality({t \in Threads : pc[t] \in Parked})
    /\ nTotal = Cardinality({t \in Threads : pc[t] \in Looping})

\* A master is between taking the queue and the return of Wait.
Open == control # NoMaster /\ pc[control] # "done"

\* What is known of the checks that are no longer pending.
Verdict ==
    /\ Open => /\ fAllOk => added \ Pending \subseteq Good
               /\ ~fAllOk => ~(added \subseteq Good)
    /\ ~Open => Pending = {} /\ fAllOk

\* What a busy thread's fOk says.
Outcomes ==
    \A t \in Threads :
        /\ pc[t] = "report" /\ fOk[t] => batch[t] \subseteq Good
        /\ pc[t] \in Busy /\ ~fOk[t] => ~(added \subseteq Good)

IInv ==
    /\ TypeOK /\ Roles /\ Owned /\ Counted
    /\ TodoExact /\ Pending \subseteq added
    /\ Verdict /\ Outcomes /\ ResultExact

-----------------------------------------------------------------------------
\* The checks that are pending when t has given its batch up.
Rest(t) == {c \in Checks : c \in queue \/ \E u \in Threads \ {t} : c \in batch[u]}

MidTypes(t, pcs, total, idle, todo, ok) ==
    /\ t \in Threads
    /\ TypeOK
    /\ pcs \in [Threads -> PCs] /\ ok \in BOOLEAN
    /\ idle = Cardinality({u \in Threads : pcs[u] \in Parked} \ {t})
    /\ total = Cardinality({u \in Threads : pcs[u] \in Looping} \ {t}) + 1
    /\ todo = Cardinality(Rest(t)) /\ Rest(t) \subseteq added

MidRoles(t, pcs) ==
    /\ \A m \in Masters \ {t} : pcs[m] \in MasterPCs /\ (pcs[m] # "out" <=> control = m)
    /\ \A w \in Workers \ {t} : pcs[w] \in WorkerPCs
    /\ t \in Masters => control = t
    /\ \A u \in Threads \ {t} :
          /\ queue \cap batch[u] = {}
          /\ batch[u] # {} <=> pcs[u] \in Busy
          /\ \A v \in Threads \ {t, u} : batch[u] \cap batch[v] = {}

MidOpen(t, pcs) == t \in Masters \/ (control # NoMaster /\ pcs[control] # "done")

MidVerdict(t, pcs, ok) ==
    /\ MidOpen(t, pcs) => /\ ok => added \ Rest(t) \subseteq Good
                          /\ ~ok => ~(added \subseteq Good)
    /\ ~MidOpen(t, pcs) => Rest(t) = {} /\ ok
    /\ \A u \in Threads \ {t} :
          /\ pcs[u] = "report" /\ fOk[u] => batch[u] \subseteq Good
          /\ pcs[u] \in Busy /\ ~fOk[u] => ~(added \subseteq Good)
    /\ \A m \in Masters \ {t} : pcs[m] = "done" => (fOk[m] <=> added \subseteq Good)

Mid(t, pcs, total, idle, todo, ok) ==
    /\ MidTypes(t, pcs, total, idle, todo, ok)
    /\ MidRoles(t, pcs)
    /\ MidVerdict(t, pcs, ok)

-----------------------------------------------------------------------------
\* Sets of threads and of checks are finite.
LEMMA FiniteParts ==
    /\ IsFiniteSet(Threads)
    /\ \A S \in SUBSET Threads : IsFiniteSet(S) /\ Cardinality(S) \in Nat
    /\ \A S \in SUBSET Checks : IsFiniteSet(S) /\ Cardinality(S) \in Nat
  <1>1. IsFiniteSet(Threads)
    BY ThreadsAssumption, FS_Union, Zenon DEF Threads
  <1>2. \A S \in SUBSET Threads : IsFiniteSet(S) /\ Cardinality(S) \in Nat
    BY <1>1, FS_Subset, FS_CardinalityType
  <1>3. \A S \in SUBSET Checks : IsFiniteSet(S) /\ Cardinality(S) \in Nat
    BY ChecksAssumption, FS_Subset, FS_CardinalityType
  <1> QED BY <1>1, <1>2, <1>3

\* How the count of a class of threads changes when t moves to another place.
LEMMA CountMoved ==
    ASSUME NEW pcs \in [Threads -> PCs], NEW t \in Threads, NEW p \in PCs, NEW C
    PROVE  LET q == [pcs EXCEPT ![t] = p]
               n == Cardinality({u \in Threads : pcs[u] \in C} \ {t})
           IN  /\ n \in Nat
               /\ Cardinality({u \in Threads : q[u] \in C}) = IF p \in C THEN n + 1 ELSE n
  <1> DEFINE S == {u \in Threads : pcs[u] \in C} \ {t}
             q == [pcs EXCEPT ![t] = p]
  <1>1. IsFiniteSet(S) /\ Cardinality(S) \in Nat
    BY FiniteParts
  <1>2. CASE p \in C
    <2>1. {u \in Threads : q[u] \in C} = S \cup {t}
      BY <1>2
    <2>2. Cardinality(S \cup {t}) = Cardinality(S) + 1
      BY <1>1, FS_AddElement
    <2> QED BY <1>1, <1>2, <2>1, <2>2
  <1>3. CASE p \notin C
    <2>1. {u \in Threads : q[u] \in C} = S
      BY <1>3
    <2> QED BY <1>1, <1>3, <2>1
  <1> QED BY <1>2, <1>3

-----------------------------------------------------------------------------
\* The loop head's three ways on, from Mid to the invariant.
LEMMA ReturnInv ==
    ASSUME NEW t, NEW pcs, NEW total, NEW idle, NEW todo, NEW ok,
           Mid(t, pcs, total, idle, todo, ok), Return(t, pcs, total, idle, todo, ok)
    PROVE  IInv'
  <1> USE DEF Mid
  <1>0. /\ t \in Threads /\ t \in Masters /\ control = t /\ queue = {} /\ todo = 0
        /\ pc' = [pcs EXCEPT ![t] = "done"] /\ pcs \in [Threads -> PCs]
        /\ batch' = [batch EXCEPT ![t] = {}] /\ fOk' = [fOk EXCEPT ![t] = ok]
        /\ batch \in [Threads -> SUBSET Checks] /\ fOk \in [Threads -> BOOLEAN]
        /\ ok \in BOOLEAN
        /\ UNCHANGED <<queue, control, added>> /\ control # NoMaster
    BY ThreadsAssumption DEF Return, MidTypes, MidRoles, TypeOK, Threads
  <1>1. Rest(t) = {}
    BY <1>0, FiniteParts, FS_EmptySet, Zenon DEF MidTypes, Rest
  <1>2. \A u \in Threads : batch'[u] = {}
    BY <1>0, <1>1 DEF Rest
  <1>3. Pending' = {}
    BY <1>0, <1>2 DEF Pending
  <1>4. Counted'
    <2>1. "done" \in PCs /\ "done" \notin Parked /\ "done" \notin Looping
      BY DEF PCs, Parked, Looping, Busy
    <2>2. nIdle' = idle /\ nTotal' = total - 1
      BY DEF Return
    <2>3. Cardinality({u \in Threads : pc'[u] \in Parked}) = idle
      BY <1>0, <2>1, CountMoved, Zenon DEF MidTypes
    <2>4. /\ Cardinality({u \in Threads : pc'[u] \in Looping})
                = Cardinality({u \in Threads : pcs[u] \in Looping} \ {t})
          /\ Cardinality({u \in Threads : pcs[u] \in Looping} \ {t}) \in Nat
      BY <1>0, <2>1, CountMoved, SMTT(60)
    <2>5. total = Cardinality({u \in Threads : pcs[u] \in Looping} \ {t}) + 1
      BY DEF MidTypes
    <2> QED BY <2>2, <2>3, <2>4, <2>5 DEF Counted
  <1>5. TypeOK'
    <2>1. nIdle' \in Nat /\ nTotal' \in Nat
      BY <1>4, FiniteParts DEF Counted
    <2>2. nTodo' \in Nat /\ fAllOk' \in BOOLEAN
      BY <1>0 DEF Return
    <2>3. pc' \in [Threads -> PCs]
      BY <1>0 DEF PCs
    <2>4. batch' \in [Threads -> SUBSET Checks] /\ fOk' \in [Threads -> BOOLEAN]
      BY <1>0
    <2> QED BY <1>0, <2>1, <2>2, <2>3, <2>4 DEF TypeOK, MidTypes, PCs
  <1>6. Roles'
    BY <1>0, ThreadsAssumption DEF Roles, MidRoles, MasterPCs, WorkerPCs, Threads, PCs
  <1>7. \A u \in Threads : pc'[u] \notin Busy
    BY <1>0, <1>2 DEF MidRoles, Busy
  <1>8. Owned'
    BY <1>0, <1>2, <1>7 DEF Owned
  <1>9. TodoExact' /\ (Pending \subseteq added)'
    BY <1>0, <1>3, FS_EmptySet DEF TodoExact, Return
  <1>10. ~Open' /\ fAllOk'
    BY <1>0 DEF Open, Return
  <1>11. Verdict'
    BY <1>3, <1>10 DEF Verdict
  <1>12. Outcomes'
    BY <1>7 DEF Outcomes, Busy
  <1>13. ResultExact'
    <2>1. ok <=> added \subseteq Good
      BY <1>0, <1>1 DEF MidVerdict, MidOpen
    <2>2. \A m \in Masters \ {t} : pc'[m] # "done"
      BY <1>0 DEF MidRoles, Threads
    <2> QED BY <1>0, <2>1, <2>2 DEF ResultExact
  <1> QED BY <1>4, <1>5, <1>6, <1>8, <1>9, <1>11, <1>12, <1>13 DEF IInv

LEMMA WaitInv ==
    ASSUME NEW t, NEW pcs, NEW total, NEW idle, NEW todo, NEW ok,
           Mid(t, pcs, total, idle, todo, ok), Wait(t, pcs, total, idle, todo, ok)
    PROVE  IInv'
  <1> USE DEF Mid
  <1>0. /\ t \in Threads /\ queue = {}
        /\ pc' = [pcs EXCEPT ![t] = "wait"] /\ pcs \in [Threads -> PCs]
        /\ batch' = [batch EXCEPT ![t] = {}]
        /\ batch \in [Threads -> SUBSET Checks] /\ fOk \in [Threads -> BOOLEAN]
        /\ ok \in BOOLEAN /\ fAllOk' = ok /\ nTodo' = todo
        /\ UNCHANGED <<queue, fOk, control, added>>
        /\ t \in Masters => control = t
    BY DEF Wait, MidTypes, MidRoles, TypeOK
  <1>1. Pending' = Rest(t)
    BY <1>0 DEF Pending, Rest
  <1>4. Counted'
    <2>1. "wait" \in PCs /\ "wait" \in Parked /\ "wait" \in Looping
      BY DEF PCs, Parked, Looping, Busy
    <2>2. nIdle' = idle + 1 /\ nTotal' = total
      BY DEF Wait
    <2>3. Cardinality({u \in Threads : pc'[u] \in Parked}) = idle + 1
      BY <1>0, <2>1, CountMoved, SMTT(60) DEF MidTypes
    <2>4. Cardinality({u \in Threads : pc'[u] \in Looping})
             = Cardinality({u \in Threads : pcs[u] \in Looping} \ {t}) + 1
      <3> DEFINE q == [pcs EXCEPT ![t] = "wait"]
      <3>1. Cardinality({u \in Threads : q[u] \in Looping})
               = Cardinality({u \in Threads : pcs[u] \in Looping} \ {t}) + 1
        <4>1. t \in Threads /\ pcs \in [Threads -> PCs] /\ "wait" \in PCs
          BY <1>0, <2>1
        <4>2. "wait" \in Looping
          BY <2>1
        <4> HIDE DEF q, Mid
        <4>3. Cardinality({u \in Threads : [pcs EXCEPT ![t] = "wait"][u] \in Looping})
                 = IF "wait" \in Looping
                   THEN Cardinality({u \in Threads : pcs[u] \in Looping} \ {t}) + 1
                   ELSE Cardinality({u \in Threads : pcs[u] \in Looping} \ {t})
          BY ONLY <4>1, CountMoved
        <4> QED BY <4>2, <4>3 DEF q
      <3> QED BY <1>0, <3>1
    <2>5. total = Cardinality({u \in Threads : pcs[u] \in Looping} \ {t}) + 1
      BY DEF MidTypes
    <2> QED BY <2>2, <2>3, <2>4, <2>5 DEF Counted
  <1>5. TypeOK'
    <2>1. nIdle' \in Nat /\ nTotal' \in Nat
      BY <1>4, FiniteParts DEF Counted
    <2>2. nTodo' \in Nat
      BY <1>0, FiniteParts DEF MidTypes, Rest
    <2>3. pc' \in [Threads -> PCs]
      BY <1>0 DEF PCs
    <2>4. batch' \in [Threads -> SUBSET Checks]
      BY <1>0
    <2> QED BY <1>0, <2>1, <2>2, <2>3, <2>4 DEF TypeOK, MidTypes, PCs
  <1>6. Roles'
    <2>1. t \in Masters => control' # NoMaster
      BY <1>0, ThreadsAssumption DEF Threads
    <2> QED BY <1>0, ThreadsAssumption
               DEF Roles, MidRoles, MasterPCs, WorkerPCs, Threads, PCs
  <1>8. Owned'
    BY <1>0 DEF Owned, MidRoles, Busy
  <1>9. TodoExact' /\ (Pending \subseteq added)'
    BY <1>0, <1>1 DEF TodoExact, MidTypes
  <1>10. Open' <=> MidOpen(t, pcs)
    <2>1. CASE t \in Masters
      BY <1>0, <2>1, ThreadsAssumption DEF Open, MidOpen, Threads
    <2>2. CASE t \notin Masters
      BY <1>0, <2>2 DEF Open, MidOpen, MidTypes, TypeOK, Threads
    <2> QED BY <2>1, <2>2
  <1>11. Verdict'
    BY <1>0, <1>1, <1>10 DEF Verdict, MidVerdict
  <1>12. Outcomes'
    BY <1>0 DEF Outcomes, Busy, MidVerdict
  <1>13. ResultExact'
    BY <1>0 DEF ResultExact, MidVerdict, Threads
  <1> QED BY <1>4, <1>5, <1>6, <1>8, <1>9, <1>11, <1>12, <1>13 DEF IInv

LEMMA TakeInv ==
    ASSUME NEW t, NEW pcs, NEW total, NEW idle, NEW todo, NEW ok,
           Mid(t, pcs, total, idle, todo, ok), Take(t, pcs, total, idle, todo, ok)
    PROVE  IInv'
  <1> USE DEF Mid
  <1>a. PICK S \in SUBSET queue : /\ Cardinality(S) = BatchSize(total, idle)
                                  /\ queue' = queue \ S
                                  /\ batch' = [batch EXCEPT ![t] = S]
    BY Zenon DEF Take
  <1>0. /\ t \in Threads
        /\ pc' = [pcs EXCEPT ![t] = "work"] /\ pcs \in [Threads -> PCs]
        /\ fOk' = [fOk EXCEPT ![t] = ok]
        /\ batch \in [Threads -> SUBSET Checks] /\ fOk \in [Threads -> BOOLEAN]
        /\ queue \subseteq Checks
        /\ ok \in BOOLEAN /\ fAllOk' = ok /\ nTodo' = todo
        /\ UNCHANGED <<control, added>>
        /\ t \in Masters => control = t
    BY DEF Take, MidTypes, MidRoles, TypeOK
  <1>b. S # {}
    <2>1. Cardinality(S) # 0
      BY <1>a DEF BatchSize
    <2> QED BY <2>1, FS_EmptySet
  <1>c. MidOpen(t, pcs)
    BY <1>a, <1>b, <1>0 DEF MidVerdict, Rest
  <1>1. Pending' = Rest(t)
    BY <1>0, <1>a DEF Pending, Rest
  <1>4. Counted'
    <2>1. "work" \in PCs /\ "work" \notin Parked /\ "work" \in Looping
      BY DEF PCs, Parked, Looping, Busy
    <2>2. nIdle' = idle /\ nTotal' = total
      BY DEF Take
    <2>3. Cardinality({u \in Threads : pc'[u] \in Parked}) = idle
      BY <1>0, <2>1, CountMoved, SMTT(60) DEF MidTypes
    <2>4. Cardinality({u \in Threads : pc'[u] \in Looping})
             = Cardinality({u \in Threads : pcs[u] \in Looping} \ {t}) + 1
      BY <1>0, <2>1, CountMoved, SMTT(60)
    <2>5. total = Cardinality({u \in Threads : pcs[u] \in Looping} \ {t}) + 1
      BY DEF MidTypes
    <2> QED BY <2>2, <2>3, <2>4, <2>5 DEF Counted
  <1>5. TypeOK'
    <2>1. nIdle' \in Nat /\ nTotal' \in Nat
      BY <1>4, FiniteParts DEF Counted
    <2>2. nTodo' \in Nat
      BY <1>0, FiniteParts DEF MidTypes, Rest
    <2>3. pc' \in [Threads -> PCs]
      BY <1>0 DEF PCs
    <2>4. batch' \in [Threads -> SUBSET Checks] /\ fOk' \in [Threads -> BOOLEAN]
      BY <1>0, <1>a
    <2>5. queue' \subseteq Checks
      BY <1>0, <1>a
    <2> QED BY <1>0, <2>1, <2>2, <2>3, <2>4, <2>5 DEF TypeOK, MidTypes, PCs
  <1>6. Roles'
    <2>1. t \in Masters => control' # NoMaster
      BY <1>0, ThreadsAssumption DEF Threads
    <2> QED BY <1>0, ThreadsAssumption
               DEF Roles, MidRoles, MasterPCs, WorkerPCs, Threads, PCs
  <1>8. Owned'
    BY <1>0, <1>a, <1>b DEF Owned, MidRoles, Busy
  <1>9. TodoExact' /\ (Pending \subseteq added)'
    BY <1>0, <1>1 DEF TodoExact, MidTypes
  <1>10. Open'
    <2>1. CASE t \in Masters
      BY <1>0, <2>1, ThreadsAssumption, SMTT(60) DEF Open, Threads
    <2>2. CASE t \notin Masters
      BY <1>0, <1>c, <2>2 DEF Open, MidOpen, MidTypes, TypeOK, Threads
    <2> QED BY <2>1, <2>2
  <1>11. Verdict'
    BY <1>0, <1>1, <1>c, <1>10 DEF Verdict, MidVerdict
  <1>12. Outcomes'
    BY <1>0, <1>a, <1>c DEF Outcomes, Busy, MidVerdict
  <1>13. ResultExact'
    BY <1>0 DEF ResultExact, MidVerdict, Threads
  <1> QED BY <1>4, <1>5, <1>6, <1>8, <1>9, <1>11, <1>12, <1>13 DEF IInv

\* The loop head, entered from Mid, establishes the invariant.
LEMMA LoopHeadInv ==
    ASSUME NEW t, NEW pcs, NEW total, NEW idle, NEW todo, NEW ok,
           Mid(t, pcs, total, idle, todo, ok), LoopHead(t, pcs, total, idle, todo, ok)
    PROVE  IInv'
  BY ReturnInv, WaitInv, TakeInv DEF LoopHead

-----------------------------------------------------------------------------
\* Dropping the batch of t leaves Rest(t).
LEMMA PendingSplit ==
    ASSUME TypeOK, Owned, NEW t \in Threads
    PROVE  /\ Pending = Rest(t) \cup batch[t] /\ Rest(t) \cap batch[t] = {}
           /\ Cardinality(Rest(t)) = Cardinality(Pending) - Cardinality(batch[t])
           /\ batch[t] = {} => Pending = Rest(t)
  <1>1. Pending = Rest(t) \cup batch[t] /\ Rest(t) \cap batch[t] = {}
    BY DEF TypeOK, Owned, Pending, Rest
  <1>2. Rest(t) \subseteq Checks /\ batch[t] \subseteq Checks
    BY DEF TypeOK, Rest
  <1>3. Cardinality(Pending) = Cardinality(Rest(t)) + Cardinality(batch[t]) - 0
    BY <1>1, <1>2, FiniteParts, FS_Union, FS_EmptySet
  <1>4. Cardinality(Rest(t)) \in Nat /\ Cardinality(batch[t]) \in Nat
    BY <1>2, FiniteParts
  <1>5. Cardinality(Rest(t)) = Cardinality(Pending) - Cardinality(batch[t])
    BY <1>3, <1>4
  <1> QED BY <1>1, <1>5

\* Taking t out of a class of threads.
LEMMA CountWithout ==
    ASSUME NEW t \in Threads, NEW C, pc \in [Threads -> PCs]
    PROVE  LET S == {u \in Threads : pc[u] \in C}
           IN  Cardinality(S \ {t}) =
                 IF pc[t] \in C THEN Cardinality(S) - 1 ELSE Cardinality(S)
  <1> DEFINE S == {u \in Threads : pc[u] \in C}
  <1>1. IsFiniteSet(S)
    BY FiniteParts
  <1> QED BY <1>1, FS_RemoveElement, SMTT(60)

LEMMA EnterLoopInv ==
    ASSUME IInv, NEW t \in Threads, EnterLoop(t)
    PROVE  IInv'
  <1> USE DEF IInv
  <1>1. pc[t] \notin Busy /\ pc[t] \notin Parked /\ pc[t] \notin Looping /\ pc[t] # "done"
        /\ (t \in Masters => control = t)
    BY DEF EnterLoop, Busy, Parked, Looping, Roles
  <1>2. pc \in [Threads -> PCs]
    BY DEF TypeOK, PCs
  <1>3. batch[t] = {} /\ Pending = Rest(t)
    BY <1>1, PendingSplit DEF Owned
  <1>4. MidTypes(t, pc, nTotal + 1, nIdle, nTodo, fAllOk)
    BY <1>1, <1>2, <1>3, CountWithout DEF MidTypes, Counted, TodoExact, TypeOK
  <1>5. MidRoles(t, pc)
    BY <1>1 DEF MidRoles, Roles, Owned
  <1>6. MidOpen(t, pc) <=> Open
    BY <1>1, ThreadsAssumption, SMTT(60) DEF MidOpen, Open, Threads
  <1>7. MidVerdict(t, pc, fAllOk)
    BY <1>3, <1>6, SMTT(60) DEF MidVerdict, Verdict, Outcomes, ResultExact
  <1> QED BY <1>4, <1>5, <1>7, LoopHeadInv DEF Mid, EnterLoop

LEMMA WakeInv ==
    ASSUME IInv, NEW t \in Threads, Wake(t)
    PROVE  IInv'
  <1> USE DEF IInv
  <1>1. pc[t] \notin Busy /\ pc[t] \in Parked /\ pc[t] \in Looping /\ pc[t] # "done"
        /\ (t \in Masters => control = t)
    BY DEF Wake, Busy, Parked, Looping, Roles
  <1>2. pc \in [Threads -> PCs]
    BY DEF TypeOK, PCs
  <1>3. batch[t] = {} /\ Pending = Rest(t)
    BY <1>1, PendingSplit DEF Owned
  <1>4. MidTypes(t, pc, nTotal, nIdle - 1, nTodo, fAllOk)
    <2>1. nIdle - 1 = Cardinality({u \in Threads : pc[u] \in Parked} \ {t})
      BY <1>1, <1>2, CountWithout DEF Counted
    <2>2. Cardinality({u \in Threads : pc[u] \in Looping} \ {t}) = nTotal - 1
      BY <1>1, <1>2, CountWithout, SMTT(60) DEF Counted
    <2> QED BY <1>2, <1>3, <2>1, <2>2 DEF MidTypes, TodoExact, TypeOK
  <1>5. MidRoles(t, pc)
    BY <1>1 DEF MidRoles, Roles, Owned
  <1>6. MidOpen(t, pc) <=> Open
    BY <1>1, ThreadsAssumption DEF MidOpen, Open, Threads
  <1>7. MidVerdict(t, pc, fAllOk)
    BY <1>3, <1>6, SMTT(60) DEF MidVerdict, Verdict, Outcomes, ResultExact
  <1> QED BY <1>4, <1>5, <1>7, LoopHeadInv, SMTT(60) DEF Mid, Wake

\* Waking the master moves nobody from one class of threads to another.
LEMMA InformedSame ==
    ASSUME pc \in [Threads -> PCs], Roles, NEW t \in Threads, NEW n
    PROVE  LET q == Informed(t, n)
           IN  /\ q \in [Threads -> PCs]
               /\ \A u \in Threads : /\ q[u] \in Parked <=> pc[u] \in Parked
                                     /\ q[u] \in Looping <=> pc[u] \in Looping
                                     /\ q[u] \in Busy <=> pc[u] \in Busy
                                     /\ q[u] = "report" <=> pc[u] = "report"
                                     /\ q[u] = "done" <=> pc[u] = "done"
                                     /\ q[u] = "out" <=> pc[u] = "out"
               /\ \A m \in Masters : q[m] \in MasterPCs
               /\ \A w \in Workers : q[w] \in WorkerPCs
  BY ThreadsAssumption DEF Informed, Roles, Threads, Parked, Looping, Busy, MasterPCs,
                           WorkerPCs, PCs

LEMMA ReportInv ==
    ASSUME IInv, NEW t \in Threads, Report(t)
    PROVE  IInv'
  <1> USE DEF IInv
  <1> DEFINE todo == nTodo - Cardinality(batch[t])
             pcs == Informed(t, todo)
             ok == fAllOk /\ fOk[t]
  <1>1. /\ pc[t] = "report" /\ pc[t] \in Busy /\ pc[t] \notin Parked /\ pc[t] \in Looping
        /\ (t \in Masters => control = t)
        /\ pc \in [Threads -> PCs] /\ batch[t] \subseteq Checks
        /\ fOk[t] \in BOOLEAN /\ fAllOk \in BOOLEAN
    BY DEF Report, Busy, Parked, Looping, Roles, TypeOK, PCs
  <1>2. /\ Pending = Rest(t) \cup batch[t] /\ Rest(t) \cap batch[t] = {}
        /\ todo = Cardinality(Rest(t))
    BY PendingSplit, SMTT(60) DEF TodoExact
  <1>3. /\ pcs \in [Threads -> PCs]
        /\ \A u \in Threads : /\ pcs[u] \in Parked <=> pc[u] \in Parked
                              /\ pcs[u] \in Looping <=> pc[u] \in Looping
                              /\ pcs[u] \in Busy <=> pc[u] \in Busy
                              /\ pcs[u] = "report" <=> pc[u] = "report"
                              /\ pcs[u] = "done" <=> pc[u] = "done"
                              /\ pcs[u] = "out" <=> pc[u] = "out"
        /\ \A m \in Masters : pcs[m] \in MasterPCs
        /\ \A w \in Workers : pcs[w] \in WorkerPCs
    BY <1>1, InformedSame, SMTT(60)
  <1> HIDE DEF todo, pcs
  <1>4. MidTypes(t, pcs, nTotal, nIdle, todo, ok)
    <2>1. /\ {u \in Threads : pcs[u] \in Parked} = {u \in Threads : pc[u] \in Parked}
          /\ {u \in Threads : pcs[u] \in Looping} = {u \in Threads : pc[u] \in Looping}
      BY <1>3
    <2>2. nIdle = Cardinality({u \in Threads : pcs[u] \in Parked} \ {t})
      BY <1>1, <2>1, CountWithout, SMTT(60) DEF Counted
    <2>3. Cardinality({u \in Threads : pcs[u] \in Looping} \ {t}) = nTotal - 1
      BY <1>1, <2>1, CountWithout DEF Counted
    <2>4. ok \in BOOLEAN
      BY <1>1, SMTT(60)
    <2>5. Rest(t) \subseteq added
      BY <1>2, SMTT(60)
    <2> HIDE DEF ok
    <2> QED BY <1>2, <1>3, <2>2, <2>3, <2>4, <2>5 DEF MidTypes, TypeOK
  <1>5. MidRoles(t, pcs)
    <2>1. \A m \in Masters \ {t} : pcs[m] \in MasterPCs /\ (pcs[m] # "out" <=> control = m)
      BY <1>3, SMTT(60) DEF Roles, Threads
    <2>2. \A u \in Threads \ {t} :
             /\ queue \cap batch[u] = {}
             /\ batch[u] # {} <=> pcs[u] \in Busy
             /\ \A v \in Threads \ {t, u} : batch[u] \cap batch[v] = {}
      BY <1>3 DEF Owned
    <2> QED BY <1>1, <1>3, <2>1, <2>2 DEF MidRoles
  <1>6. MidOpen(t, pcs) <=> Open
    BY <1>1, <1>3, ThreadsAssumption, SMTT(60) DEF MidOpen, Open, Threads, TypeOK
  <1>7. MidVerdict(t, pcs, ok)
    <2>1. Open
      <3>1. Pending # {}
        BY <1>1, <1>2, SMTT(60) DEF Owned
      <3> QED BY <3>1 DEF Verdict
    <2>2. ok => added \ Rest(t) \subseteq Good
      BY <1>1, <1>2, <2>1, SMTT(60) DEF Verdict, Outcomes
    <2>3. ~ok => ~(added \subseteq Good)
      BY <1>1, <2>1 DEF Verdict, Outcomes
    <2>4. \A u \in Threads \ {t} :
             /\ pcs[u] = "report" /\ fOk[u] => batch[u] \subseteq Good
             /\ pcs[u] \in Busy /\ ~fOk[u] => ~(added \subseteq Good)
      BY <1>3, SMTT(60) DEF Outcomes
    <2>5. \A m \in Masters \ {t} : pcs[m] = "done" => (fOk[m] <=> added \subseteq Good)
      BY <1>3, SMTT(60) DEF ResultExact, Threads
    <2> QED BY <1>6, <2>1, <2>2, <2>3, <2>4, <2>5 DEF MidVerdict
  <1>8. LoopHead(t, pcs, nTotal, nIdle, todo, ok)
    BY DEF Report, todo, pcs
  <1> HIDE DEF ok
  <1> QED BY <1>4, <1>5, <1>7, <1>8, LoopHeadInv, SMTT(60) DEF Mid

-----------------------------------------------------------------------------
\* Moves that leave every class of threads as it is keep the counters exact.
LEMMA SameClasses ==
    ASSUME Counted, UNCHANGED <<nIdle, nTotal>>,
           \A u \in Threads : /\ pc'[u] \in Parked <=> pc[u] \in Parked
                              /\ pc'[u] \in Looping <=> pc[u] \in Looping
    PROVE  Counted'
  <1>1. /\ {u \in Threads : pc'[u] \in Parked} = {u \in Threads : pc[u] \in Parked}
        /\ {u \in Threads : pc'[u] \in Looping} = {u \in Threads : pc[u] \in Looping}
    OBVIOUS
  <1> QED BY <1>1, SMTT(60) DEF Counted

LEMMA ExecuteInv ==
    ASSUME IInv, NEW t \in Threads, Execute(t)
    PROVE  IInv'
  <1> USE DEF IInv
  <1>0. /\ pc[t] = "work" /\ pc' = [pc EXCEPT ![t] = "report"]
        /\ pc \in [Threads -> PCs]
        /\ fOk' = [fOk EXCEPT ![t] = fOk[t] /\ batch[t] \subseteq Good]
        /\ fOk \in [Threads -> BOOLEAN] /\ fOk' \in [Threads -> BOOLEAN]
        /\ UNCHANGED <<queue, nIdle, nTotal, fAllOk, nTodo, batch, control, added>>
    BY DEF Execute, TypeOK, PCs
  <1>1. TypeOK'
    BY <1>0 DEF TypeOK
  <1>2. Roles'
    BY <1>0 DEF Roles, MasterPCs, WorkerPCs, Threads
  <1>3. Owned'
    BY <1>0, SMTT(60) DEF Owned, Busy
  <1>4. Counted'
    BY <1>0, SameClasses DEF Parked, Looping, Busy
  <1>5. Pending' = Pending
    BY <1>0 DEF Pending
  <1>6. Open' <=> Open
    BY <1>0 DEF Open, TypeOK, Threads
  <1>7. TodoExact' /\ (Pending \subseteq added)' /\ Verdict'
    BY <1>0, <1>5, <1>6, SMTT(60) DEF TodoExact, Verdict
  <1>8. Outcomes'
    <2>1. batch[t] \subseteq added
      BY DEF Pending, TypeOK
    <2> QED BY <1>0, <2>1, Zenon DEF Outcomes, Busy
  <1>9. ResultExact'
    BY <1>0 DEF ResultExact, Threads
  <1> QED BY <1>1, <1>2, <1>3, <1>4, <1>7, <1>8, <1>9

LEMMA ParkedMoves ==
    ASSUME IInv, NEW t \in Threads, SpuriousWakeup(t) \/ (t \in Workers /\ Interrupt(t))
    PROVE  IInv'
  <1> USE DEF IInv
  <1>0. /\ pc[t] \in {"wait", "woken"} /\ pc' = [pc EXCEPT ![t] = pc'[t]]
        /\ pc'[t] = "woken" \/ (t \in Workers /\ pc'[t] = "exited")
        /\ pc \in [Threads -> PCs]
        /\ UNCHANGED <<queue, nIdle, nTotal, fAllOk, nTodo, batch, fOk, control, added>>
    BY DEF SpuriousWakeup, Interrupt, TypeOK, PCs
  <1>1. TypeOK'
    BY <1>0 DEF TypeOK
  <1>2. Roles'
    BY <1>0, ThreadsAssumption, SMTT(60) DEF Roles, MasterPCs, WorkerPCs, Threads
  <1>3. Owned'
    BY <1>0 DEF Owned, Busy
  <1>4. Counted'
    BY <1>0, SameClasses DEF Parked, Looping, Busy
  <1>5. Pending' = Pending
    BY <1>0 DEF Pending
  <1>6. Open' <=> Open
    BY <1>0 DEF Open, TypeOK, Threads
  <1>7. TodoExact' /\ (Pending \subseteq added)' /\ Verdict'
    BY <1>0, <1>5, <1>6, SMTT(60) DEF TodoExact, Verdict
  <1>8. Outcomes'
    BY <1>0 DEF Outcomes, Busy
  <1>9. ResultExact'
    BY <1>0 DEF ResultExact, Threads
  <1> QED BY <1>1, <1>2, <1>3, <1>4, <1>7, <1>8, <1>9

LEMMA EnterInv ==
    ASSUME IInv, NEW m \in Masters, Enter(m)
    PROVE  IInv'
  <1> USE DEF IInv
  <1>0. /\ pc[m] = "out" /\ control = NoMaster /\ control' = m /\ added' = {}
        /\ pc' = [pc EXCEPT ![m] = "adding"] /\ m \in Threads /\ m # NoMaster
        /\ pc \in [Threads -> PCs]
        /\ UNCHANGED <<queue, nIdle, nTotal, fAllOk, nTodo, batch, fOk>>
    BY ThreadsAssumption, SMTT(60) DEF Enter, TypeOK, PCs, Threads
  <1>1. Pending = {} /\ fAllOk /\ Pending' = Pending
    BY <1>0, SMTT(60) DEF Verdict, Open, Pending
  <1>2. \A u \in Threads : pc[u] \notin Busy
    BY <1>1 DEF Owned, Pending, TypeOK
  <1>3. TypeOK'
    BY <1>0 DEF TypeOK
  <1>4. Roles'
    BY <1>0, ThreadsAssumption, SMTT(60) DEF Roles, MasterPCs, WorkerPCs, Threads, TypeOK
  <1>5. Owned'
    BY <1>0 DEF Owned, Busy
  <1>6. Counted'
    BY <1>0, SameClasses DEF Parked, Looping, Busy
  <1>7. TodoExact' /\ (Pending \subseteq added)' /\ Verdict'
    BY <1>0, <1>1 DEF TodoExact, Verdict
  <1>8. Outcomes'
    BY <1>0, <1>2 DEF Outcomes, Busy
  <1>9. ResultExact'
    <2>1. \A x \in Masters : x \in Threads /\ pc[x] = "out"
      BY <1>0, ThreadsAssumption DEF Roles, Threads
    <2> QED BY <1>0, <2>1 DEF ResultExact
  <1> QED BY <1>3, <1>4, <1>5, <1>6, <1>7, <1>8, <1>9, SMTT(60)

LEMMA AddInv ==
    ASSUME IInv, NEW m \in Masters, NEW S \in SUBSET Checks, Add(m, S)
    PROVE  IInv'
  <1> USE DEF IInv
  <1>a. PICK W \in Notified(Cardinality(S)) :
           pc' = [t \in Threads |-> IF t \in W THEN "woken" ELSE pc[t]]
    BY DEF Add
  <1>b. \A t \in W : t \in Workers /\ pc[t] = "wait"
    BY SMTT(60) DEF Notified
  <1>0. /\ pc[m] = "adding" /\ S \cap added = {} /\ m \in Threads /\ m # NoMaster
        /\ queue' = queue \cup S /\ added' = added \cup S
        /\ nTodo' = nTodo + Cardinality(S)
        /\ control = m /\ queue \subseteq Checks /\ added \subseteq Checks
        /\ pc \in [Threads -> PCs] /\ batch \in [Threads -> SUBSET Checks]
        /\ UNCHANGED <<nIdle, nTotal, fAllOk, batch, fOk, control>>
    BY ThreadsAssumption DEF Add, TypeOK, PCs, Threads, Roles
  <1>1. Pending' = Pending \cup S /\ Pending \cap S = {}
    BY <1>0 DEF Pending
  <1>2. \A t \in Threads : pc'[t] = IF t \in W THEN "woken" ELSE pc[t]
    BY <1>a
  <1>3. nTodo' \in Nat /\ TodoExact'
    <2>1. Pending \subseteq Checks
      BY DEF Pending
    <2>2. Cardinality(Pending') = Cardinality(Pending) + Cardinality(S) - 0
      BY <1>1, <2>1, FiniteParts, FS_Union, FS_EmptySet
    <2>3. Cardinality(Pending) \in Nat /\ Cardinality(S) \in Nat
      BY <2>1, FiniteParts, SMTT(60)
    <2> QED BY <1>0, <2>2, <2>3 DEF TodoExact
  <1>4. TypeOK'
    <2>1. pc' \in [Threads -> PCs]
      BY <1>a, <1>0, SMTT(60) DEF PCs
    <2> QED BY <1>0, <1>3, <2>1, SMTT(60) DEF TypeOK, PCs
  <1>5. Roles'
    BY <1>0, <1>b, <1>2, ThreadsAssumption, SMTT(60) DEF Roles, WorkerPCs, Threads
  <1>6. Owned'
    <2>1. \A t \in Threads : batch[t] \cap S = {}
      BY <1>0, <1>1, SMTT(60) DEF Pending
    <2> QED BY <1>0, <1>b, <1>2, <2>1, SMTT(60) DEF Owned, Busy
  <1>7. Counted'
    BY <1>0, <1>b, <1>2, SameClasses, SMTT(60) DEF Parked, Looping, Busy
  <1>8. Open /\ Open'
    BY <1>0, <1>b, <1>2, ThreadsAssumption, SMTT(60) DEF Open, Threads
  <1>9. (Pending \subseteq added)' /\ Verdict'
    BY <1>0, <1>1, <1>8, SMTT(60) DEF Verdict
  <1>10. Outcomes'
    BY <1>0, <1>b, <1>2, SMTT(60) DEF Outcomes, Busy
  <1>11. ResultExact'
    <2>1. \A x \in Masters : pc'[x] # "done"
      BY <1>0, <1>b, <1>2 DEF Roles, Threads
    <2> QED BY <2>1, SMTT(60) DEF ResultExact
  <1> QED BY <1>3, <1>4, <1>5, <1>6, <1>7, <1>9, <1>10, <1>11, SMTT(60)

LEMMA LeaveInv ==
    ASSUME IInv, NEW m \in Masters, Leave(m)
    PROVE  IInv'
  <1> USE DEF IInv
  <1>0. /\ pc[m] = "done" /\ control = m /\ control' = NoMaster
        /\ pc' = [pc EXCEPT ![m] = "out"] /\ m \in Threads /\ m # NoMaster
        /\ pc \in [Threads -> PCs]
        /\ UNCHANGED <<queue, nIdle, nTotal, fAllOk, nTodo, batch, fOk, added>>
    BY ThreadsAssumption, SMTT(60) DEF Leave, TypeOK, PCs, Threads, Roles
  <1>1. ~Open /\ ~Open' /\ Pending' = Pending
    BY <1>0 DEF Open, Pending
  <1>3. TypeOK'
    BY <1>0 DEF TypeOK
  <1>4. Roles'
    BY <1>0, ThreadsAssumption, SMTT(60) DEF Roles, MasterPCs, WorkerPCs, Threads
  <1>5. Owned'
    BY <1>0 DEF Owned, Busy
  <1>6. Counted'
    BY <1>0, SameClasses DEF Parked, Looping, Busy
  <1>7. TodoExact' /\ (Pending \subseteq added)' /\ Verdict'
    BY <1>0, <1>1, SMTT(60) DEF TodoExact, Verdict
  <1>8. Outcomes'
    BY <1>0 DEF Outcomes, Busy
  <1>9. ResultExact'
    BY <1>0 DEF ResultExact, Threads
  <1> QED BY <1>3, <1>4, <1>5, <1>6, <1>7, <1>8, <1>9, SMTT(60)

-----------------------------------------------------------------------------
LEMMA InitInv == Init => IInv
  <1> SUFFICES ASSUME Init PROVE IInv
    OBVIOUS
  <1>1. TypeOK /\ Roles /\ Owned
    BY ThreadsAssumption DEF Init, TypeOK, Roles, Owned, Threads, Busy, MasterPCs, WorkerPCs
  <1>2. Pending = {}
    BY DEF Init, Pending
  <1>3. /\ {t \in Threads : pc[t] \in Parked} = {}
        /\ {t \in Threads : pc[t] \in Looping} = {}
    BY DEF Init, Parked, Looping, Busy
  <1>4. Counted /\ TodoExact
    BY <1>2, <1>3, FS_EmptySet DEF Init, Counted, TodoExact
  <1>5. Verdict /\ Outcomes /\ ResultExact
    BY <1>2 DEF Init, Verdict, Outcomes, ResultExact, Open, Busy, Threads
  <1> QED BY <1>1, <1>2, <1>4, <1>5 DEF IInv

LEMMA StepInv == IInv /\ [Next]_vars => IInv'
  <1> SUFFICES ASSUME IInv, [Next]_vars PROVE IInv'
    BY SMTT(60)
  <1>1. CASE UNCHANGED vars
    BY <1>1 DEF vars, IInv, TypeOK, Roles, Owned, Counted, TodoExact, Pending, Verdict,
                Open, Outcomes, ResultExact
  <1>2. ASSUME NEW m \in Masters, Enter(m) \/ Leave(m) \/ \E S \in SUBSET Checks : Add(m, S)
        PROVE  IInv'
    BY <1>2, EnterInv, LeaveInv, AddInv
  <1>3. ASSUME NEW t \in Threads,
               EnterLoop(t) \/ Execute(t) \/ Report(t) \/ Wake(t) \/ SpuriousWakeup(t)
        PROVE  IInv'
    BY <1>3, EnterLoopInv, ExecuteInv, ReportInv, WakeInv, ParkedMoves
  <1>4. ASSUME NEW w \in Workers, Interrupt(w)
        PROVE  IInv'
    <2>1. w \in Threads
      BY DEF Threads
    <2> QED BY <1>4, <2>1, ParkedMoves
  <1> QED BY <1>1, <1>2, <1>3, <1>4 DEF Next

LEMMA Invariant == Spec => []IInv
  BY InitInv, StepInv, PTL DEF Spec

\* No counter of CCheckQueue goes below zero (nTodo is unsigned).
THEOREM TypeCorrect == Spec => []TypeOK
  <1>1. IInv => TypeOK
    BY DEF IInv
  <1> QED BY Invariant, <1>1, PTL

\* nTodo counts exactly the checks that are queued or in a batch.
THEOREM TodoAlwaysExact == Spec => []TodoExact
  <1>1. IInv => TodoExact
    BY DEF IInv
  <1> QED BY Invariant, <1>1, PTL

\* CCheckQueueControl::Wait returns true if and only if every check of this
\* master succeeds.
THEOREM VerdictExact == Spec => []ResultExact
  <1>1. IInv => ResultExact
    BY DEF IInv
  <1> QED BY Invariant, <1>1, PTL

\* After Wait, and between two masters, nothing is pending.
THEOREM AlwaysFinished == Spec => []QueueFinished
  <1>1. IInv => QueueFinished
    <2> SUFFICES ASSUME IInv, control = NoMaster \/ pc[control] = "done"
                 PROVE  Pending = {} /\ nTodo = 0 /\ fAllOk
      BY DEF QueueFinished
    <2>1. Pending = {} /\ fAllOk
      BY DEF IInv, Verdict, Open
    <2>2. nTodo = 0
      BY <2>1, FS_EmptySet DEF IInv, TodoExact
    <2> QED BY <2>1, <2>2
  <1> QED BY Invariant, <1>1, PTL
=============================================================================
