-------------------------- MODULE TxDownloadProofs --------------------------
(***************************************************************************)
(* The transaction request tracker keeps the invariants its SanityCheck()  *)
(* asserts, and exact counters for every peer, and asks whom the naive     *)
(* tracker of its fuzz test would ask, for any number of peers,            *)
(* transactions, delays and limits.                                        *)
(*                                                                         *)
(* The index is looked at hash by hash: each member function of the        *)
(* tracker keeps one row in order (Row) and brings no announcement in      *)
(* (Fewer).  The counters are carried through every call: a tracker with   *)
(* exact counters (Counted) is one again after each Erase and Modify, each *)
(* member function built from them, and each loop of a handler over the    *)
(* hashes, in whatever order it takes them.  For the refinement, each has  *)
(* a lemma on what the naive tracker sees of it.                           *)
(***************************************************************************)
EXTENDS TxDownload, FiniteSetTheorems, TLAPS

Rows == [Peers -> States]

\* What SanityCheck() asserts of the announcements of one hash.
Row(h, r) ==
    /\ (\E p \in Peers : r[p] # "NONE") =>
           \E p \in Peers : r[p] \in Candidate \cup {"REQUESTED"}
    /\ \A p, q \in Peers : r[p] \in Selected /\ r[q] \in Selected => p = q
    /\ \A p \in Peers : r[p] = "READY" =>
           \E q \in Peers : r[q] \in Selected /\ (r[q] = "BEST" => HigherPriority(h, q, p))

Sane(st) == st \in [TxHashes -> Rows] /\ \A h \in TxHashes : Row(h, st[h])

\* No announcement appears on the way from one index to the other.
Fewer(old, new) ==
    \A h \in TxHashes, q \in Peers : old[h][q] = "NONE" => new[h][q] = "NONE"

Tallies(st) ==
    [p \in Peers |-> [total     |-> Tally(st, p, States \ {"NONE"}),
                      requested |-> Tally(st, p, {"REQUESTED"}),
                      completed |-> Tally(st, p, {"COMPLETED"})]]

\* A peer that is not connected has no announcement.
NobodyElse == \A h \in TxHashes, q \in Peers \ connected : index[h][q] = "NONE"

\* The tracker with this index and exact counters.
Counted(st) == [index |-> st, info |-> Tallies(st)]

\* One announcement changes.
Cell(st, h, p, s) == [st EXCEPT ![h][p] = s]

(***************************************************************************)
(* What each member function does to the index, and to the index alone.    *)
(* The lemmas on the counters show that a tracker with exact counters      *)
(* becomes the one with this index and exact counters.                     *)
(***************************************************************************)
PromoteIndex(st, h, p) ==
    LET ready == [st EXCEPT ![h][p] = "READY"]
        next  == NextOf(ready, h, p)
    IN  IF \A q \in next : ready[h][q] = "COMPLETED"
          THEN [st EXCEPT ![h][p] = "BEST"]
          ELSE LET q == CHOOSE q \in next : TRUE
               IN  IF ready[h][q] = "BEST" /\ HigherPriority(h, p, q)
                     THEN [st EXCEPT ![h] = [@ EXCEPT ![p] = "BEST", ![q] = "READY"]]
                     ELSE ready

ChangeIndex(st, h, p, new) ==
    [st EXCEPT ![h] =
        [q \in Peers |->
            IF q = p THEN new
            ELSE IF st[h][p] \in Selected /\ q \in PrevOf(st, h, p) /\ st[h][q] = "READY"
                   THEN "BEST" ELSE st[h][q]]]

ForgetIndex(st, h) == [st EXCEPT ![h] = [q \in Peers |-> "NONE"]]

CompleteIndex(st, h, p) ==
    IF st[h][p] = "COMPLETED" THEN st
    ELSE IF IsOnlyNonCompleted(st, h, p) THEN ForgetIndex(st, h)
    ELSE ChangeIndex(st, h, p, "COMPLETED")

ResponseIndex(st, h, p) == IF st[h][p] = "NONE" THEN st ELSE CompleteIndex(st, h, p)

AnsweredIndex(p, tx) == ResponseIndex(ResponseIndex(index, tx.txid, p), tx.wtxid, p)

DisconnectIndex(st, p) ==
    [h \in TxHashes |-> [ResponseIndex(st, h, p)[h] EXCEPT ![p] = "NONE"]]

RequestIndex(st, h, p) ==
    [st EXCEPT ![h] = [q \in Peers |-> IF q = p THEN "REQUESTED" ELSE st[h][q]]]

InvIndex(st, p, new) ==
    [h \in TxHashes |-> IF h \in new THEN [st[h] EXCEPT ![p] = "DELAYED"] ELSE st[h]]

ForgetAll(st, hashes) ==
    [h \in TxHashes |-> IF h \in hashes THEN ForgetIndex(st, h)[h] ELSE st[h]]

\* The step to an index, with the times d and exact counters.
Moves(st, d) == index' = st /\ due' = Timed(st, d) /\ peerinfo' = Tallies(st)

IInv == /\ TypeOK /\ Sane(index) /\ peerinfo = Tallies(index) /\ NobodyElse

-----------------------------------------------------------------------------
(* Priorities.                                                             *)

\* A set of numbers that is not empty has a largest one, when it is bounded.
LEMMA LargestExists ==
    ASSUME NEW n \in Nat, NEW S \in SUBSET (0 .. n), S # {}
    PROVE  \E m \in S : \A k \in S : k <= m
<1> DEFINE T == {n - k : k \in S}
<1>1. T \subseteq Nat /\ T # {}
  <2>1. \A k \in S : n - k \in Nat
    OBVIOUS
  <2>2. PICK k \in S : TRUE
    BY Zenon
  <2>3. n - k \in T
    BY Zenon
  <2> QED  BY <2>1, <2>3, Zenon
<1>2. PICK x \in T : \A y \in T : ~ (<<y, x>> \in OpToRel(<, Nat))
  <2> HIDE DEF T
  <2> QED  BY <1>1, WFMin, NatLessThanWellFounded, Zenon
<1>3. ASSUME NEW y \in T  PROVE x <= y
  <2>1. x \in Nat /\ y \in Nat
    BY <1>1, Zenon
  <2>2. <<y, x>> \in Nat \X Nat /\ <<y, x>>[1] = y /\ <<y, x>>[2] = x
    BY <2>1, Zenon
  <2>3. ~ (y < x)
    BY <1>2, <2>2, Zenon DEF OpToRel
  <2> QED  BY <2>1, <2>3
<1>4. PICK m \in S : x = n - m
  BY Zenon
<1>5. \A k \in S : k <= m
  <2> TAKE k \in S
  <2>1. n - k \in T
    BY Zenon
  <2>2. n - m <= n - k
    BY <2>1, <1>3, <1>4, Zenon
  <2>3. m \in Int /\ k \in Int /\ n \in Int
    OBVIOUS
  <2> HIDE DEF T
  <2> QED  BY ONLY <2>2, <2>3
<1> QED  BY <1>5, Zenon

\* Two different peers of a hash have different priorities (PriorityComputer).
LEMMA PriorityOrder ==
    ASSUME NEW h \in TxHashes
    PROVE  /\ \A p \in Peers : ~ HigherPriority(h, p, p)
           /\ \A p, q \in Peers : p # q => HigherPriority(h, p, q) \/ HigherPriority(h, q, p)
           /\ \A p, q, r \in Peers :
                 HigherPriority(h, p, q) /\ HigherPriority(h, q, r) => HigherPriority(h, p, r)
<1>1. \A p \in Peers : LowBits[h][p] \in Nat
  BY LowBitsAssumption
<1>2. \A p, q \in Peers : LowBits[h][p] = LowBits[h][q] => p = q
  BY LowBitsAssumption, Zenon
<1> QED  BY <1>1, <1>2 DEF HigherPriority

\* Among the peers of a set, one has the highest priority.
LEMMA TopExists ==
    ASSUME NEW h \in TxHashes, NEW R \in SUBSET Peers, R # {}
    PROVE  \E t \in R : \A q \in R \ {t} : HigherPriority(h, t, q)
<1> DEFINE P == IF R \cap PreferredPeers = {} THEN R ELSE R \cap PreferredPeers
           S == {LowBits[h][q] : q \in P}
<1>1. P \subseteq R /\ P # {}
  BY Zenon
<1>2. MaxLowBits \in Nat /\ \A q \in Peers : LowBits[h][q] \in 0 .. MaxLowBits
  BY LowBitsAssumption
<1>3. S \in SUBSET (0 .. MaxLowBits) /\ S # {}
  BY <1>1, <1>2, Zenon
<1>4. PICK m \in S : \A k \in S : k <= m
  <2> HIDE DEF S
  <2> QED  BY <1>2, <1>3, LargestExists, Zenon
<1>5. PICK t \in P : m = LowBits[h][t]
  BY Zenon
<1>6. ASSUME NEW q \in R \ {t}  PROVE HigherPriority(h, t, q)
  <2>0. t \in R /\ t \in Peers /\ q \in Peers /\ LowBits[h][t] \in Nat /\ LowBits[h][q] \in Nat
    BY <1>1, <1>2
  <2>1. CASE q \in P
    <3>1. LowBits[h][q] <= LowBits[h][t]
      BY <1>4, <1>5, <2>1, Zenon
    <3>2. LowBits[h][q] # LowBits[h][t]
      BY <2>0, LowBitsAssumption, Zenon
    <3>3. (t \in PreferredPeers) = (q \in PreferredPeers)
      BY <2>1
    <3> QED  BY <2>0, <3>1, <3>2, <3>3 DEF HigherPriority
  <2>2. CASE q \notin P
    <3>1. t \in PreferredPeers /\ q \notin PreferredPeers
      BY <2>2, Zenon
    <3> QED  BY <3>1, Zenon DEF HigherPriority
  <2> QED  BY <2>1, <2>2, Zenon
<1> QED  BY <1>1, <1>6, Zenon

\* And one has the lowest.
LEMMA BottomExists ==
    ASSUME NEW h \in TxHashes, NEW R \in SUBSET Peers, R # {}
    PROVE  \E t \in R : \A q \in R \ {t} : HigherPriority(h, q, t)
<1> DEFINE P == IF R \ PreferredPeers = {} THEN R ELSE R \ PreferredPeers
           S == {MaxLowBits - LowBits[h][q] : q \in P}
<1>1. P \subseteq R /\ P # {}
  BY Zenon
<1>2. MaxLowBits \in Nat /\ \A q \in Peers : LowBits[h][q] \in 0 .. MaxLowBits
  BY LowBitsAssumption
<1>3. S \in SUBSET (0 .. MaxLowBits) /\ S # {}
  BY <1>1, <1>2
<1>4. PICK m \in S : \A k \in S : k <= m
  <2> HIDE DEF S
  <2> QED  BY <1>2, <1>3, LargestExists, Zenon
<1>5. PICK t \in P : m = MaxLowBits - LowBits[h][t]
  BY Zenon
<1>6. ASSUME NEW q \in R \ {t}  PROVE HigherPriority(h, q, t)
  <2>0. t \in R /\ t \in Peers /\ q \in Peers /\ LowBits[h][t] \in Nat /\ LowBits[h][q] \in Nat
    BY <1>1, <1>2
  <2>1. CASE q \in P
    <3>1. MaxLowBits - LowBits[h][q] <= MaxLowBits - LowBits[h][t]
      BY <1>4, <1>5, <2>1, Zenon
    <3>2. LowBits[h][q] # LowBits[h][t]
      BY <2>0, LowBitsAssumption, Zenon
    <3>3. (t \in PreferredPeers) = (q \in PreferredPeers)
      BY <2>1
    <3> QED  BY <1>2, <2>0, <3>1, <3>2, <3>3 DEF HigherPriority
  <2>2. CASE q \notin P
    <3>1. t \notin PreferredPeers /\ q \in PreferredPeers
      BY <2>2, Zenon
    <3> QED  BY <3>1, Zenon DEF HigherPriority
  <2> QED  BY <2>1, <2>2, Zenon
<1> QED  BY <1>1, <1>6, Zenon

-----------------------------------------------------------------------------
(* The member functions of the tracker, on one row.                        *)

\* Only the row of one hash changes: what is kept of it is kept of the index.
LEMMA OneRow ==
    ASSUME NEW st, Sane(st), NEW h \in TxHashes, NEW r \in Rows, Row(h, r)
    PROVE  Sane([st EXCEPT ![h] = r])
BY Zenon DEF Sane

\* Forgetting a hash keeps the index in order (ForgetTxHash).
LEMMA ForgetKeeps ==
    ASSUME NEW st, Sane(st), NEW h \in TxHashes
    PROVE  Sane(ForgetIndex(st, h)) /\ Fewer(st, ForgetIndex(st, h))
<1> DEFINE r == [q \in Peers |-> "NONE"]
<1>1. r \in Rows /\ Row(h, r)
  BY Zenon DEF Rows, Row, States, Candidate, Selected
<1>2. Sane([st EXCEPT ![h] = r])
  BY <1>1, OneRow, Zenon
<1>3. Fewer(st, [st EXCEPT ![h] = r])
  BY Zenon DEF Fewer, Sane, Rows
<1> QED  BY <1>2, <1>3, Zenon DEF ForgetIndex

\* The announcement just before a selected one, if it is ready, is the ready one
\* of the highest priority (the ByTxHash index).
LEMMA PrevIsTop ==
    ASSUME NEW st, Sane(st), NEW h \in TxHashes, NEW p \in Peers, st[h][p] \in Selected,
           NEW t \in Peers, st[h][t] = "READY",
           \A q \in Peers \ {t} : st[h][q] = "READY" => HigherPriority(h, t, q)
    PROVE  {q \in PrevOf(st, h, p) : st[h][q] = "READY"} = {t}
<1>1. \A q \in Peers : st[h][q] \in States
  BY Zenon DEF Sane, Rows
<1>2. \A q \in Peers : st[h][q] \in Selected => q = p
  BY Zenon DEF Sane, Row
<1>3. \A q \in Peers : Rank(st[h][q]) \in Nat
  BY <1>1, Zenon DEF Rank, States
<1>4. t \in PrevOf(st, h, p)
  <2>1. ByTxHash(st, h, t, p) /\ t \in Announced(st, h)
    BY DEF ByTxHash, Rank, Selected, Announced
  <2>2. ASSUME NEW r \in Announced(st, h), ByTxHash(st, h, t, r), ByTxHash(st, h, r, p)
        PROVE  FALSE
    <3>0. r \in Peers
      BY Zenon DEF Announced
    <3>1. Rank(st[h][r]) < Rank(st[h][p])
      BY <2>2, Zenon DEF ByTxHash, Selected
    <3>2. st[h][r] \notin {"BEST", "REQUESTED", "COMPLETED"}
      <4>1. r # p
        BY <1>3, <3>1
      <4>2. st[h][r] \notin Selected
        BY <1>2, <3>0, <4>1, Zenon
      <4>3. st[h][r] # "COMPLETED"
        BY <3>1 DEF Rank, Selected
      <4> QED  BY <4>2, <4>3, Zenon DEF Selected
    <3>3. ~ (Rank(st[h][t]) < Rank(st[h][r]))
      BY <1>1, <3>0, <3>2 DEF Rank, States
    <3>4. st[h][r] = "READY" /\ HigherPriority(h, r, t)
      BY <2>2, <3>3, Zenon DEF ByTxHash
    <3>5. r # t
      BY <3>4, PriorityOrder, Zenon
    <3>6. HigherPriority(h, t, r)
      BY <3>0, <3>4, <3>5, Zenon
    <3> QED  BY <3>0, <3>4, <3>6, PriorityOrder, Zenon
  <2> QED  BY <2>1, <2>2, Zenon DEF PrevOf
<1>5. ASSUME NEW q \in PrevOf(st, h, p), st[h][q] = "READY"  PROVE q = t
  <2>0. q \in Peers /\ t \in Announced(st, h)
    BY Zenon DEF PrevOf, Announced
  <2>1. SUFFICES ASSUME q # t  PROVE FALSE
    BY Zenon
  <2>2. HigherPriority(h, t, q)
    BY <1>5, <2>0, <2>1, Zenon
  <2>3. ByTxHash(st, h, q, t)
    BY <1>5, <2>2, Zenon DEF ByTxHash
  <2>4. ByTxHash(st, h, t, p)
    BY DEF ByTxHash, Rank, Selected
  <2> QED  BY <2>0, <2>3, <2>4, Zenon DEF PrevOf
<1> QED  BY <1>4, <1>5, Zenon

\* A change that hands over to the ready one just before keeps the index in order,
\* as long as an announcement is left that is not completed (ChangeAndReselect).
LEMMA ChangeKeeps ==
    ASSUME NEW st, Sane(st), NEW h \in TxHashes, NEW p \in Peers, st[h][p] # "NONE",
           NEW new \in {"DELAYED", "COMPLETED"},
           new = "COMPLETED" =>
               \E q \in Peers \ {p} : st[h][q] \in Candidate \cup {"REQUESTED"}
    PROVE  /\ Sane(ChangeIndex(st, h, p, new))
           /\ Fewer(st, ChangeIndex(st, h, p, new))
<1> DEFINE Heir(q) == st[h][p] \in Selected /\ q \in PrevOf(st, h, p) /\ st[h][q] = "READY"
           r == [q \in Peers |-> IF q = p THEN new ELSE IF Heir(q) THEN "BEST" ELSE st[h][q]]
           ready == {q \in Peers : st[h][q] = "READY"}
<1>0. ChangeIndex(st, h, p, new) = [st EXCEPT ![h] = r]
  BY Zenon DEF ChangeIndex
<1>1. st[h] \in Rows /\ Row(h, st[h])
  BY Zenon DEF Sane
<1>2. r \in Rows
  BY <1>1, Zenon DEF Rows, States
<1>3. Fewer(st, [st EXCEPT ![h] = r])
  BY <1>2, Zenon DEF Fewer, Sane, Rows
<1>4. (\E q \in Peers : r[q] # "NONE") => \E q \in Peers : r[q] \in Candidate \cup {"REQUESTED"}
  <2>1. CASE new = "DELAYED"
    BY <2>1, Zenon DEF Candidate
  <2>2. CASE new = "COMPLETED"
    <3>1. PICK q \in Peers \ {p} : st[h][q] \in Candidate \cup {"REQUESTED"}
      BY <2>2, Zenon
    <3>2. r[q] \in Candidate \cup {"REQUESTED"}
      BY <3>1, Zenon DEF Candidate
    <3> QED  BY <3>2, Zenon
  <2> QED  BY <2>1, <2>2, Zenon
<1>5. CASE st[h][p] \in Selected /\ ready # {}
  <2>1. PICK t \in ready : \A q \in ready \ {t} : HigherPriority(h, t, q)
    <3>1. ready \in SUBSET Peers
      BY Zenon
    <3> HIDE DEF ready
    <3> QED  BY <1>5, <3>1, TopExists, Zenon
  <2>2. {q \in PrevOf(st, h, p) : st[h][q] = "READY"} = {t}
    <3>1. \A q \in Peers \ {t} : st[h][q] = "READY" => HigherPriority(h, t, q)
      BY <2>1, Zenon
    <3> QED  BY <1>5, <2>1, <3>1, PrevIsTop
  <2>3. \A q \in Peers : Heir(q) <=> q = t
    BY <1>5, <2>1, <2>2, Zenon
  <2>4. t # p
    BY <1>5, <2>1, Zenon DEF Selected
  <2>5. r = [q \in Peers |-> IF q = p THEN new ELSE IF q = t THEN "BEST" ELSE st[h][q]]
    BY <2>3, Zenon
  <2>6. \A q \in Peers : st[h][q] \in Selected => q = p
    BY <1>1, <1>5, Zenon DEF Row
  <2>7. r[t] = "BEST" /\ \A q \in Peers : r[q] \in Selected => q = t
    BY <2>4, <2>5, <2>6, Zenon DEF Selected
  <2>8. \A q \in Peers : r[q] = "READY" => HigherPriority(h, t, q)
    BY <2>1, <2>5, Zenon
  <2>9. Row(h, r)
    <3> HIDE DEF r
    <3> QED  BY <1>4, <2>1, <2>7, <2>8, Zenon DEF Row, Selected
  <2> HIDE DEF r
  <2>10. Sane([st EXCEPT ![h] = r])
    BY <1>2, <2>9, Zenon DEF Sane
  <2> QED  BY <1>0, <1>3, <2>10, Zenon
<1>6. CASE ~ (st[h][p] \in Selected /\ ready # {})
  <2>1. \A q \in Peers : ~ Heir(q)
    BY <1>6, Zenon DEF PrevOf, Announced
  <2>2. r = [q \in Peers |-> IF q = p THEN new ELSE st[h][q]]
    BY <2>1, Zenon
  <2>3. \A q, u \in Peers : r[q] \in Selected /\ r[u] \in Selected => q = u
    BY <1>1, <2>2, Zenon DEF Row, Selected
  <2>4. ASSUME NEW q \in Peers, r[q] = "READY"
        PROVE  \E u \in Peers : r[u] \in Selected /\ (r[u] = "BEST" => HigherPriority(h, u, q))
    <3>1. st[h][q] = "READY"
      BY <2>2, <2>4, Zenon
    <3>2. st[h][p] \notin Selected
      BY <1>6, <3>1, Zenon
    <3>3. PICK u \in Peers : st[h][u] \in Selected /\ (st[h][u] = "BEST" => HigherPriority(h, u, q))
      BY <1>1, <3>1, Zenon DEF Row
    <3>4. u # p /\ r[u] = st[h][u]
      BY <2>2, <3>2, <3>3, Zenon
    <3> QED  BY <3>3, <3>4, Zenon
  <2>5. Row(h, r)
    <3> HIDE DEF r
    <3> QED  BY <1>4, <2>3, <2>4, Zenon DEF Row
  <2> HIDE DEF r
  <2>6. Sane([st EXCEPT ![h] = r])
    BY <1>2, <2>5, Zenon DEF Sane
  <2> QED  BY <1>0, <1>3, <2>6, Zenon
<1> QED  BY <1>5, <1>6, Zenon

\* An announcement that is done with hands over, or takes the completed ones
\* along (MakeCompleted).
LEMMA CompleteKeeps ==
    ASSUME NEW st, Sane(st), NEW h \in TxHashes, NEW p \in Peers, st[h][p] # "NONE"
    PROVE  Sane(CompleteIndex(st, h, p)) /\ Fewer(st, CompleteIndex(st, h, p))
<1>1. CASE st[h][p] = "COMPLETED"
  BY <1>1, Zenon DEF CompleteIndex, Fewer
<1>2. CASE st[h][p] # "COMPLETED" /\ IsOnlyNonCompleted(st, h, p)
  BY <1>2, ForgetKeeps, Zenon DEF CompleteIndex
<1>3. CASE st[h][p] # "COMPLETED" /\ ~ IsOnlyNonCompleted(st, h, p)
  <2>1. PICK q \in Announced(st, h) \ {p} : st[h][q] # "COMPLETED"
    BY <1>3, Zenon DEF IsOnlyNonCompleted
  <2>2. q \in Peers \ {p} /\ st[h][q] \in Candidate \cup {"REQUESTED"}
    BY <2>1, Zenon DEF Announced, Sane, Rows, States, Candidate
  <2>3. /\ Sane(ChangeIndex(st, h, p, "COMPLETED"))
        /\ Fewer(st, ChangeIndex(st, h, p, "COMPLETED"))
    BY <2>2, ChangeKeeps, Zenon
  <2> QED  BY <1>3, <2>3, Zenon DEF CompleteIndex
<1> QED  BY <1>1, <1>2, <1>3, Zenon

\* The same for an answer, to a request or not (ReceivedResponse).
LEMMA ResponseKeeps ==
    ASSUME NEW st, Sane(st), NEW h \in TxHashes, NEW p \in Peers
    PROVE  Sane(ResponseIndex(st, h, p)) /\ Fewer(st, ResponseIndex(st, h, p))
BY CompleteKeeps DEF ResponseIndex, Fewer

\* A delayed announcement that becomes ready takes the place of the best one
\* exactly when it is better (PromoteCandidateReady).
LEMMA PromoteKeeps ==
    ASSUME NEW st, Sane(st), NEW h \in TxHashes, NEW p \in Peers, st[h][p] = "DELAYED"
    PROVE  /\ Sane(PromoteIndex(st, h, p))
           /\ Fewer(st, PromoteIndex(st, h, p))
<1> DEFINE ready == [st EXCEPT ![h][p] = "READY"]
           next == NextOf(ready, h, p)
           r == [st[h] EXCEPT ![p] = "READY"]
           best == [st[h] EXCEPT ![p] = "BEST"]
<1>1. st[h] \in Rows /\ Row(h, st[h])
  BY Zenon DEF Sane
<1>2. ready[h] = r /\ ready = [st EXCEPT ![h] = r] /\ r \in Rows /\ best \in Rows
  BY <1>1, Zenon DEF Rows, States, Sane
<1>3. \A x : Fewer(st, [st EXCEPT ![h] = [st[h] EXCEPT ![p] = x]])
  BY Zenon DEF Fewer, Sane, Rows
<1>4. \A q \in Peers : Rank(r[q]) \in Nat
  BY <1>2, Zenon DEF Rank, Rows, States
<1>5. CASE \E s \in Peers : st[h][s] \in Selected
  <2>1. PICK s \in Peers : st[h][s] \in Selected
    BY <1>5, Zenon
  <2>2. s # p /\ r[s] = st[h][s] /\ \A q \in Peers : st[h][q] \in Selected => q = s
    BY <1>1, <2>1, Zenon DEF Row, Selected, Rows
  <2>3. \A q \in Peers : st[h][q] = "READY" =>
            (st[h][s] = "BEST" => HigherPriority(h, s, q))
    BY <1>1, <2>2, Zenon DEF Row
  <2>4. \A q \in Peers : r[q] \in Selected <=> q = s
    BY <1>1, <2>1, <2>2, Zenon DEF Selected, Rows
  <2>5. CASE st[h][s] = "BEST" /\ HigherPriority(h, p, s)
    <3> DEFINE two == [st[h] EXCEPT ![p] = "BEST", ![s] = "READY"]
    <3>1. next = {s}
      <4>1. ByTxHash(ready, h, p, s) /\ s \in Announced(ready, h)
        BY <1>1, <1>2, <2>2, <2>5 DEF ByTxHash, Rank, Announced, Rows
      <4>2. ASSUME NEW u \in Announced(ready, h), ByTxHash(ready, h, p, u)  PROVE
                Rank(r[u]) >= 3
        <5>1. u \in Peers /\ r[p] = "READY"
          BY <1>1, <1>2, Zenon DEF Announced, Rows
        <5>2. CASE r[u] = "READY"
          <6>1. HigherPriority(h, u, p) /\ u # p
            BY <1>2, <4>2, <5>1, <5>2, PriorityOrder DEF ByTxHash, Rank
          <6>2. st[h][u] = "READY"
            BY <1>1, <5>1, <5>2, <6>1, Zenon DEF Rows
          <6>3. HigherPriority(h, s, u)
            BY <2>3, <2>5, <5>1, <6>2, Zenon
          <6> QED  BY <2>5, <5>1, <6>1, <6>3, PriorityOrder, Zenon
        <5>3. CASE r[u] # "READY"
          BY <1>2, <4>2, <5>1, <5>3, SMTT(60) DEF ByTxHash, Rank, Rows, States
        <5> QED  BY <5>2, <5>3, Zenon
      <4>3. \A u \in Peers : Rank(r[u]) >= 3 /\ u # s => Rank(r[u]) = 5
        BY <1>2, <2>4 DEF Rank, Rows, States, Selected
      <4>4. Rank(r[s]) = 3
        BY <2>2, <2>5, Zenon DEF Rank
      <4>5. s \in next
        <5>1. ASSUME NEW u \in Announced(ready, h), ByTxHash(ready, h, p, u),
                     ByTxHash(ready, h, u, s)
              PROVE  FALSE
          <6>1. Rank(r[u]) >= 3 /\ u \in Peers
            BY <4>2, <5>1, Zenon DEF Announced
          <6>2. Rank(r[u]) < Rank(r[s])
            BY <1>2, <2>2, <2>5, <5>1, Zenon DEF ByTxHash
          <6> QED  BY <1>4, <4>4, <6>1, <6>2
        <5> QED  BY <4>1, <5>1, Zenon DEF NextOf
      <4>6. ASSUME NEW u \in next, u # s  PROVE FALSE
        <5>1. u \in Peers /\ u \in Announced(ready, h) /\ ByTxHash(ready, h, p, u)
          BY Zenon DEF NextOf, Announced
        <5>2. Rank(r[u]) = 5
          BY <4>2, <4>3, <4>6, <5>1, Zenon
        <5>3. ByTxHash(ready, h, s, u)
          BY <1>2, <4>4, <5>2 DEF ByTxHash
        <5> QED  BY <4>1, <5>3, Zenon DEF NextOf
      <4> QED  BY <4>5, <4>6, Zenon
    <3>2. PromoteIndex(st, h, p) = [st EXCEPT ![h] = two]
      <4>1. ~ \A q \in next : ready[h][q] = "COMPLETED"
        BY <1>2, <2>2, <2>5, <3>1, Zenon
      <4>2. (CHOOSE q \in next : TRUE) = s
        BY <3>1, Zenon
      <4>3. ready[h][s] = "BEST"
        BY <1>2, <2>2, <2>5, Zenon
      <4> HIDE DEF next, ready
      <4> QED  BY <2>5, <4>1, <4>2, <4>3, Zenon DEF PromoteIndex, next, ready
    <3>3. two \in Rows
      BY <1>1, Zenon DEF Rows, States
    <3>4. two[p] = "BEST" /\ \A q \in Peers : two[q] \in Selected => q = p
      BY <1>1, <2>2, Zenon DEF Rows, Selected
    <3>5. \A q \in Peers : two[q] = "READY" => HigherPriority(h, p, q)
      BY <1>1, <2>2, <2>3, <2>5, PriorityOrder, Zenon DEF Rows
    <3>6. Row(h, two)
      <4> HIDE DEF two
      <4> QED  BY <3>4, <3>5, Zenon DEF Row, Selected, Candidate
    <3>7. Fewer(st, [st EXCEPT ![h] = two])
      BY <2>1, Zenon DEF Fewer, Sane, Rows, Selected
    <3> HIDE DEF two
    <3>8. Sane([st EXCEPT ![h] = two])
      BY <3>3, <3>6, Zenon DEF Sane
    <3> QED  BY <3>2, <3>7, <3>8, Zenon
  <2>6. CASE ~ (st[h][s] = "BEST" /\ HigherPriority(h, p, s))
    <3>1. PromoteIndex(st, h, p) = ready
      <4>1. ByTxHash(ready, h, p, s) /\ s \in Announced(ready, h)
        BY <1>1, <1>2, <2>1, <2>2 DEF ByTxHash, Rank, Announced, Rows, Selected
      <4>2. ASSUME NEW u \in next, r[u] = "COMPLETED"  PROVE FALSE
        <5>1. ByTxHash(ready, h, s, u)
          BY <1>2, <2>1, <2>2, <4>2 DEF ByTxHash, Rank, Selected
        <5> QED  BY <4>1, <5>1, Zenon DEF NextOf
      <4>3. PICK u : u \in next
        <5> DEFINE above == {q \in Peers : r[q] = "READY" /\ HigherPriority(h, q, p)}
        <5>0. r[p] = "READY"
          BY <1>1, Zenon DEF Rows
        <5>1. CASE above = {}
          <6>1. ASSUME NEW u \in Announced(ready, h), ByTxHash(ready, h, p, u),
                       ByTxHash(ready, h, u, s)
                PROVE  FALSE
            <7>1. u \in Peers /\ r[u] # "READY"
              BY <1>2, <5>0, <5>1, <6>1 DEF Announced, ByTxHash, Rank
            <7>2. Rank(r[u]) > 2 /\ Rank(r[u]) < Rank(r[s]) /\ r[s] \in Selected
              BY <1>2, <2>1, <2>2, <5>0, <6>1, <7>1, Zenon DEF ByTxHash, Rank
            <7>3. r[u] \in Selected
              BY <1>2, <7>1, <7>2 DEF Rank, Selected, Rows, States
            <7>4. u = s
              BY <2>4, <7>1, <7>3, Zenon
            <7> QED  BY <1>4, <7>2, <7>4
          <6> QED  BY <4>1, <6>1, ZenonT(60) DEF NextOf
        <5>2. CASE above # {}
          <6>0. above \in SUBSET Peers
            BY Zenon
          <6>1. PICK t \in above : \A q \in above \ {t} : HigherPriority(h, q, t)
            <7> HIDE DEF above
            <7> QED  BY <5>2, <6>0, BottomExists, Zenon
          <6>2. t \in Announced(ready, h) /\ ByTxHash(ready, h, p, t)
            BY <1>2, <5>0, Zenon DEF Announced, ByTxHash
          <6>3. ASSUME NEW u \in Announced(ready, h), ByTxHash(ready, h, p, u),
                       ByTxHash(ready, h, u, t)
                PROVE  FALSE
            <7>1. u \in Peers /\ r[t] = "READY" /\ t \in Peers
              BY Zenon DEF Announced
            <7>2. r[u] = "READY"
              BY <1>2, <5>0, <6>3, <7>1, SMTT(60) DEF ByTxHash, Rank, Rows, States
            <7>3. HigherPriority(h, u, p) /\ HigherPriority(h, t, u)
              BY <1>2, <5>0, <6>3, <7>1, <7>2, SMTT(60) DEF ByTxHash, Rank
            <7>4. u \in above \ {t}
              BY <7>1, <7>2, <7>3, PriorityOrder, Zenon
            <7>5. HigherPriority(h, u, t)
              BY <6>1, <7>4, Zenon
            <7> QED  BY <7>1, <7>3, <7>5, PriorityOrder, Zenon
          <6> QED  BY <6>2, <6>3, ZenonT(60) DEF NextOf
        <5> QED  BY <5>1, <5>2, Zenon
      <4>4. ~ \A q \in next : ready[h][q] = "COMPLETED"
        BY <1>2, <4>2, <4>3, Zenon
      <4>5. ~ (ready[h][CHOOSE q \in next : TRUE] = "BEST"
               /\ HigherPriority(h, p, CHOOSE q \in next : TRUE))
        <5>1. (CHOOSE q \in next : TRUE) \in next
          BY <4>3, Zenon
        <5>2. \A q \in next : q \in Peers
          BY Zenon DEF NextOf, Announced
        <5>3. \A q \in Peers : r[q] = "BEST" => q = s /\ st[h][s] = "BEST"
          BY <2>2, <2>4, Zenon DEF Selected
        <5> HIDE DEF next, r
        <5> QED  BY <1>2, <2>6, <5>1, <5>2, <5>3, Zenon
      <4> HIDE DEF next, ready
      <4> QED  BY <4>4, <4>5, Zenon DEF PromoteIndex, next, ready
    <3>2. Row(h, r)
      <4>1. r[s] \in Selected /\ \A q \in Peers : r[q] \in Selected => q = s
        BY <2>1, <2>2, <2>4, Zenon
      <4>2. \A q \in Peers : r[q] = "READY" => (r[s] = "BEST" => HigherPriority(h, s, q))
        BY <1>1, <2>2, <2>3, <2>6, PriorityOrder, Zenon DEF Rows
      <4> HIDE DEF r
      <4> QED  BY <4>1, <4>2, Zenon DEF Row, Selected, Candidate
    <3>3. Sane(ready)
      <4> HIDE DEF r
      <4> QED  BY <1>2, <3>2, Zenon DEF Sane
    <3> QED  BY <1>2, <1>3, <3>1, <3>3, ZenonT(60)
  <2> QED  BY <2>5, <2>6, Zenon
<1>6. CASE \A s \in Peers : st[h][s] \notin Selected
  <2>1. \A q \in Peers : st[h][q] # "READY"
    BY <1>1, <1>6, Zenon DEF Row
  <2>2. \A q \in next : ready[h][q] = "COMPLETED"
    <3> TAKE q \in next
    <3>1. q \in Peers /\ ByTxHash(ready, h, p, q)
      BY Zenon DEF NextOf, Announced
    <3>2. r[p] = "READY" /\ (q # p => r[q] = st[h][q])
      BY <1>1, <3>1, Zenon DEF Rows
    <3>3. q # p
      BY <1>2, <3>1, <3>2, PriorityOrder, SMTT(60) DEF ByTxHash, Rank
    <3>4. r[q] \in States /\ r[q] \notin Selected /\ r[q] # "READY"
      BY <1>1, <1>6, <2>1, <3>1, <3>2, <3>3, Zenon DEF Rows
    <3> QED  BY <1>2, <3>1, <3>2, <3>4 DEF ByTxHash, Rank, States, Selected
  <2>3. PromoteIndex(st, h, p) = [st EXCEPT ![h] = best]
    <3>1. PromoteIndex(st, h, p) = [st EXCEPT ![h][p] = "BEST"]
      <4> HIDE DEF next, ready
      <4> QED  BY <2>2, Zenon DEF PromoteIndex, next, ready
    <3> QED  BY <3>1, Zenon
  <2>4. Row(h, best)
    <3>1. best[p] = "BEST" /\ \A q \in Peers : best[q] \in Selected \cup {"READY"} => q = p
      BY <1>1, <1>6, <2>1, Zenon DEF Rows
    <3> HIDE DEF best
    <3> QED  BY <3>1, Zenon DEF Row, Selected, Candidate
  <2>5. Sane([st EXCEPT ![h] = best])
    <3> HIDE DEF best
    <3> QED  BY <1>2, <2>4, Zenon DEF Sane
  <2> QED  BY <1>3, <2>3, <2>5, Zenon
<1> QED  BY <1>5, <1>6, Zenon

\* What a peer that leaves had announced is gone, and handed over to others
\* (DisconnectedPeer).
LEMMA DisconnectKeeps ==
    ASSUME NEW st, Sane(st), NEW p \in Peers
    PROVE  /\ Sane(DisconnectIndex(st, p))
           /\ Fewer(st, DisconnectIndex(st, p))
           /\ \A h \in TxHashes : DisconnectIndex(st, p)[h][p] = "NONE"
<1> DEFINE c(h) == ResponseIndex(st, h, p)[h]
           r(h) == [c(h) EXCEPT ![p] = "NONE"]
<1>1. ASSUME NEW h \in TxHashes
      PROVE  /\ r(h) \in Rows /\ Row(h, r(h)) /\ r(h)[p] = "NONE"
             /\ \A q \in Peers : st[h][q] = "NONE" => r(h)[q] = "NONE"
  <2>1. c(h) \in Rows /\ Row(h, c(h)) /\ \A q \in Peers : st[h][q] = "NONE" => c(h)[q] = "NONE"
    BY ResponseKeeps, Zenon DEF Sane, Fewer
  <2>2. c(h)[p] \in {"NONE", "COMPLETED"}
    <3>1. st \in [TxHashes -> Rows]
      BY Zenon DEF Sane
    <3>2. ForgetIndex(st, h)[h][p] = "NONE"
      BY <3>1, Zenon DEF ForgetIndex
    <3>3. ChangeIndex(st, h, p, "COMPLETED")[h][p] = "COMPLETED"
      BY <3>1, Zenon DEF ChangeIndex
    <3> QED  BY <3>2, <3>3, Zenon DEF ResponseIndex, CompleteIndex
  <2> HIDE DEF c
  <2>3. r(h) \in Rows /\ r(h)[p] = "NONE" /\ \A q \in Peers \ {p} : r(h)[q] = c(h)[q]
    BY <2>1, Zenon DEF Rows, States
  <2>4. Row(h, r(h))
    <3> HIDE DEF r
    <3> QED  BY <2>1, <2>2, <2>3, Zenon DEF Row, Selected, Candidate
  <2> QED  BY <2>1, <2>3, <2>4, Zenon
<1>2. DisconnectIndex(st, p) = [h \in TxHashes |-> r(h)]
  BY Zenon DEF DisconnectIndex
<1> HIDE DEF r
<1> QED  BY <1>1, <1>2, Zenon DEF Sane, Fewer

\* Asking a peer for the hashes it is the best for keeps the index in order
\* (RequestedTx, called by SendMessages).
LEMMA RequestKeeps ==
    ASSUME NEW st, Sane(st), NEW p \in Peers, NEW W \in SUBSET TxHashes,
           \A h \in W : st[h][p] = "BEST",
           NEW new, new = [h \in TxHashes |-> IF h \in W THEN RequestIndex(st, h, p)[h] ELSE st[h]]
    PROVE  Sane(new) /\ Fewer(st, new)
<1>1. ASSUME NEW h \in TxHashes
      PROVE  new[h] \in Rows /\ Row(h, new[h])
             /\ \A q \in Peers : st[h][q] = "NONE" => new[h][q] = "NONE"
  <2>0. st \in [TxHashes -> Rows] /\ st[h] \in Rows /\ Row(h, st[h])
    BY Zenon DEF Sane
  <2>1. CASE h \notin W
    BY <2>0, <2>1, Zenon
  <2>2. CASE h \in W
    <3> DEFINE r == [st[h] EXCEPT ![p] = "REQUESTED"]
    <3>1. RequestIndex(st, h, p)[h] = [q \in Peers |-> IF q = p THEN "REQUESTED" ELSE st[h][q]]
      BY <2>0, <2>2, Zenon DEF RequestIndex, Candidate
    <3>2. new[h] = r
      BY <2>0, <2>2, <3>1, Zenon DEF Rows
    <3>3. r \in Rows /\ r[p] = "REQUESTED" /\ \A q \in Peers \ {p} : r[q] = st[h][q]
      BY <2>0, Zenon DEF Rows, States
    <3>4. \A q \in Peers : r[q] \in Selected => q = p
      BY <2>0, <2>2, <3>3, Zenon DEF Row, Selected
    <3> HIDE DEF r
    <3>5. Row(h, r)
      BY <3>3, <3>4, Zenon DEF Row, Selected, Candidate
    <3> QED  BY <2>2, <3>2, <3>3, <3>5, Zenon
  <2> QED  BY <2>1, <2>2, Zenon
<1>2. new \in [TxHashes -> Rows]
  BY <1>1, Zenon
<1> QED  BY <1>1, <1>2, Zenon DEF Sane, Fewer

\* New announcements wait: nothing is selected for them (ReceivedInv).
LEMMA InvKeeps ==
    ASSUME NEW st, Sane(st), NEW p \in Peers, NEW W \in SUBSET TxHashes,
           \A h \in W : st[h][p] = "NONE"
    PROVE  /\ Sane(InvIndex(st, p, W))
           /\ \A h \in TxHashes, q \in Peers \ {p} :
                  InvIndex(st, p, W)[h][q] = st[h][q]
<1> DEFINE new == InvIndex(st, p, W)
<1>1. ASSUME NEW h \in TxHashes
      PROVE  new[h] \in Rows /\ Row(h, new[h]) /\ \A q \in Peers \ {p} : new[h][q] = st[h][q]
  <2>0. st[h] \in Rows /\ Row(h, st[h])
    BY Zenon DEF Sane
  <2>1. CASE h \notin W
    BY <2>0, <2>1, Zenon DEF InvIndex
  <2>2. CASE h \in W
    <3> DEFINE r == [st[h] EXCEPT ![p] = "DELAYED"]
    <3>1. new[h] = r
      BY <2>2, Zenon DEF InvIndex
    <3>2. r \in Rows /\ r[p] = "DELAYED" /\ \A q \in Peers \ {p} : r[q] = st[h][q]
      BY <2>0, Zenon DEF Rows, States
    <3> HIDE DEF r
    <3>3. Row(h, r)
      BY <2>0, <2>2, <3>2, Zenon DEF Row, Selected, Candidate
    <3> QED  BY <3>1, <3>2, <3>3, Zenon
  <2> QED  BY <2>1, <2>2, Zenon
<1>2. new \in [TxHashes -> Rows]
  BY <1>1, Zenon DEF InvIndex
<1> QED  BY <1>1, <1>2, Zenon DEF Sane

\* Forgetting several hashes keeps the index in order (ForgetTxHash).
LEMMA ForgetAllKeeps ==
    ASSUME NEW st, Sane(st), NEW W \in SUBSET TxHashes
    PROVE  Sane(ForgetAll(st, W)) /\ Fewer(st, ForgetAll(st, W))
<1> DEFINE new == ForgetAll(st, W)
<1>1. ASSUME NEW h \in TxHashes
      PROVE  new[h] \in Rows /\ Row(h, new[h])
             /\ \A q \in Peers : st[h][q] = "NONE" => new[h][q] = "NONE"
  <2>0. st[h] \in Rows /\ Row(h, st[h])
    BY Zenon DEF Sane
  <2>1. CASE h \notin W
    BY <2>0, <2>1, Zenon DEF ForgetAll
  <2>2. CASE h \in W
    <3>1. new[h] = ForgetIndex(st, h)[h]
      BY <2>2, Zenon DEF ForgetAll
    <3> HIDE DEF new
    <3> QED  BY <3>1, ForgetKeeps DEF Sane, Fewer
  <2> QED  BY <2>1, <2>2, Zenon
<1>2. new \in [TxHashes -> Rows]
  BY <1>1, Zenon DEF ForgetAll
<1> QED  BY <1>1, <1>2, Zenon DEF Sane, Fewer

-----------------------------------------------------------------------------
(* The counters of m_peerinfo.                                             *)

\* A set grows by what comes and shrinks by what goes.
LEMMA CardinalityMoves ==
    ASSUME NEW A, NEW B, IsFiniteSet(A), IsFiniteSet(B)
    PROVE  Cardinality(B) = Cardinality(A) + Cardinality(B \ A) - Cardinality(A \ B)
<1>1. Cardinality(B \ A) = Cardinality(B) - Cardinality(B \cap A)
  BY FS_Difference, Zenon
<1>2. Cardinality(A \ B) = Cardinality(A) - Cardinality(A \cap B)
  BY FS_Difference, Zenon
<1>3. A \cap B = B \cap A
  BY Zenon
<1>4. Cardinality(A) \in Nat /\ Cardinality(B) \in Nat
  BY FS_CardinalityType, Zenon
<1>5. Cardinality(A \cap B) \in Nat
  <2>1. A \cap B \in SUBSET A
    BY Zenon
  <2>2. IsFiniteSet(A \cap B)
    BY <2>1, FS_Subset, Zenon
  <2> QED  BY <2>2, FS_CardinalityType, Zenon
<1> DEFINE a == Cardinality(A)  b == Cardinality(B)  both == Cardinality(A \cap B)
           came == Cardinality(B \ A)  went == Cardinality(A \ B)
<1>6. came = b - both /\ went = a - both /\ a \in Nat /\ b \in Nat /\ both \in Nat
  BY <1>1, <1>2, <1>3, <1>4, <1>5, ZenonT(60)
<1>7. b = a + came - went
  <2> HIDE DEF a, b, both, came, went
  <2> QED  BY <1>6
<1> QED  BY <1>7, Zenon

\* When the announcements of a peer differ in one hash only, so do its counters.
LEMMA TallyCell ==
    ASSUME NEW st, NEW new, NEW h \in TxHashes, NEW q \in Peers, NEW s,
           \A g \in TxHashes \ {h} : new[g][q] = st[g][q]
    PROVE  /\ Tally(new, q, s) = Tally(st, q, s) - One(st[h][q] \in s) + One(new[h][q] \in s)
           /\ Tally(new, q, s) \in Nat /\ Tally(st, q, s) \in Nat
<1> DEFINE A == {g \in TxHashes : st[g][q] \in s}
           B == {g \in TxHashes : new[g][q] \in s}
           came == Cardinality(B \ A)
           went == Cardinality(A \ B)
           a == Cardinality(A)
           b == Cardinality(B)
<1>1. A \in SUBSET TxHashes /\ B \in SUBSET TxHashes
  BY Zenon
<1>2. IsFiniteSet(A) /\ IsFiniteSet(B)
  <2> HIDE DEF A, B
  <2> QED  BY <1>1, FiniteAssumption, FS_Subset, Zenon
<1>3. Tally(st, q, s) = a /\ Tally(new, q, s) = b
  BY Zenon DEF Tally
<1>4. /\ new[h][q] \in s /\ st[h][q] \notin s => B \ A = {h}
      /\ ~ (new[h][q] \in s /\ st[h][q] \notin s) => B \ A = {}
  OBVIOUS
<1>5. /\ st[h][q] \in s /\ new[h][q] \notin s => A \ B = {h}
      /\ ~ (st[h][q] \in s /\ new[h][q] \notin s) => A \ B = {}
  OBVIOUS
<1>6. Cardinality({h}) = 1 /\ Cardinality({}) = 0
  BY FS_Singleton, FS_EmptySet, Zenon
<1> HIDE DEF A, B
<1>7. a \in Nat /\ b \in Nat
  BY <1>2, FS_CardinalityType, Zenon
<1>8. b = a + came - went
  BY <1>2, CardinalityMoves, Zenon
<1>9. /\ came = IF new[h][q] \in s /\ st[h][q] \notin s THEN 1 ELSE 0
      /\ went = IF st[h][q] \in s /\ new[h][q] \notin s THEN 1 ELSE 0
  BY <1>4, <1>5, <1>6, Zenon
<1> HIDE DEF a, b, came, went
<1>10. b = a - One(st[h][q] \in s) + One(new[h][q] \in s)
  <2>1. CASE st[h][q] \in s /\ new[h][q] \in s
    BY <1>7, <1>8, <1>9, <2>1 DEF One
  <2>2. CASE st[h][q] \in s /\ new[h][q] \notin s
    BY <1>7, <1>8, <1>9, <2>2 DEF One
  <2>3. CASE st[h][q] \notin s /\ new[h][q] \in s
    BY <1>7, <1>8, <1>9, <2>3 DEF One
  <2>4. CASE st[h][q] \notin s /\ new[h][q] \notin s
    BY <1>7, <1>8, <1>9, <2>4 DEF One
  <2> QED  BY <2>1, <2>2, <2>3, <2>4, Zenon
<1> QED  BY <1>3, <1>7, <1>10, Zenon

\* The same for the three of them together.
LEMMA TalliesCell ==
    ASSUME NEW st \in [TxHashes -> Rows], NEW new \in [TxHashes -> Rows], NEW h \in TxHashes,
           NEW q \in Peers, \A g \in TxHashes \ {h} : new[g][q] = st[g][q]
    PROVE  Tallies(new)[q] =
              [total     |-> Tallies(st)[q].total - One(st[h][q] # "NONE")
                                                  + One(new[h][q] # "NONE"),
               requested |-> Tallies(st)[q].requested - One(st[h][q] = "REQUESTED")
                                                      + One(new[h][q] = "REQUESTED"),
               completed |-> Tallies(st)[q].completed - One(st[h][q] = "COMPLETED")
                                                      + One(new[h][q] = "COMPLETED")]
<1> DEFINE N == States \ {"NONE"}
<1>1. /\ One(st[h][q] \in N) = One(st[h][q] # "NONE")
      /\ One(new[h][q] \in N) = One(new[h][q] # "NONE")
  BY Zenon DEF Rows, One
<1>2. \A x : /\ One(st[h][q] \in {x}) = One(st[h][q] = x)
            /\ One(new[h][q] \in {x}) = One(new[h][q] = x)
  BY Zenon DEF One
<1>3. /\ Tally(new, q, N) = Tally(st, q, N) - One(st[h][q] \in N) + One(new[h][q] \in N)
      /\ \A x : Tally(new, q, {x}) =
                Tally(st, q, {x}) - One(st[h][q] \in {x}) + One(new[h][q] \in {x})
  <2> HIDE DEF N
  <2>1. ASSUME NEW x
        PROVE  Tally(new, q, x) = Tally(st, q, x) - One(st[h][q] \in x) + One(new[h][q] \in x)
    BY TallyCell
  <2> QED  BY <2>1, Zenon
<1>4. /\ Tallies(st)[q] = [total |-> Tally(st, q, N), requested |-> Tally(st, q, {"REQUESTED"}),
                           completed |-> Tally(st, q, {"COMPLETED"})]
      /\ Tallies(new)[q] = [total |-> Tally(new, q, N), requested |-> Tally(new, q, {"REQUESTED"}),
                            completed |-> Tally(new, q, {"COMPLETED"})]
  BY Zenon DEF Tallies
<1>5. /\ Tallies(st)[q].total = Tally(st, q, N)
      /\ Tallies(st)[q].requested = Tally(st, q, {"REQUESTED"})
      /\ Tallies(st)[q].completed = Tally(st, q, {"COMPLETED"})
  <2> HIDE DEF N
  <2> QED  BY <1>4
<1>6. /\ Tally(new, q, N) = Tallies(st)[q].total - One(st[h][q] # "NONE")
                                                  + One(new[h][q] # "NONE")
      /\ \A x : Tally(new, q, {x}) =
                Tally(st, q, {x}) - One(st[h][q] = x) + One(new[h][q] = x)
  <2> HIDE DEF N
  <2> QED  BY <1>1, <1>2, <1>3, <1>5
<1> HIDE DEF N
<1>7. /\ Tally(new, q, {"REQUESTED"}) = Tallies(st)[q].requested
                - One(st[h][q] = "REQUESTED") + One(new[h][q] = "REQUESTED")
      /\ Tally(new, q, {"COMPLETED"}) = Tallies(st)[q].completed
                - One(st[h][q] = "COMPLETED") + One(new[h][q] = "COMPLETED")
  <2>1. Tally(new, q, {"REQUESTED"}) = Tally(st, q, {"REQUESTED"})
                - One(st[h][q] = "REQUESTED") + One(new[h][q] = "REQUESTED")
    BY <1>6, Zenon
  <2>2. Tally(new, q, {"COMPLETED"}) = Tally(st, q, {"COMPLETED"})
                - One(st[h][q] = "COMPLETED") + One(new[h][q] = "COMPLETED")
    BY <1>6, Zenon
  <2> QED  BY <1>5, <2>1, <2>2, Zenon
<1> QED  BY <1>4, <1>6, <1>7, Zenon

\* They do not depend on the announcements of others.
LEMMA TalliesSame ==
    ASSUME NEW st, NEW new, NEW q \in Peers, \A g \in TxHashes : new[g][q] = st[g][q]
    PROVE  Tallies(new)[q] = Tallies(st)[q]
<1>1. \A x : Tally(new, q, x) = Tally(st, q, x)
  BY Zenon DEF Tally
<1>2. /\ Tally(new, q, States \ {"NONE"}) = Tally(st, q, States \ {"NONE"})
      /\ Tally(new, q, {"REQUESTED"}) = Tally(st, q, {"REQUESTED"})
      /\ Tally(new, q, {"COMPLETED"}) = Tally(st, q, {"COMPLETED"})
  BY <1>1, Zenon
<1> QED  BY <1>2, Zenon DEF Tallies

\* Counters are not negative, and those of a peer without announcements are zero: what
\* Erase leaves when it removes the entry of a peer.
LEMMA TalliesType ==
    ASSUME NEW st \in [TxHashes -> Rows]
    PROVE  /\ Tallies(st) \in [Peers -> [total : Nat, requested : Nat, completed : Nat]]
           /\ \A q \in Peers : Tallies(st)[q].total = 0 => Tallies(st)[q] = NoInfo
<1> DEFINE N == States \ {"NONE"}
           S(q, s) == {h \in TxHashes : st[h][q] \in s}
<1>1. ASSUME NEW q \in Peers, NEW s  PROVE IsFiniteSet(S(q, s)) /\ Tally(st, q, s) \in Nat
  <2>1. S(q, s) \in SUBSET TxHashes
    BY Zenon
  <2>2. Tally(st, q, s) = Cardinality(S(q, s))
    BY Zenon DEF Tally
  <2> HIDE DEF S
  <2> QED  BY <2>1, <2>2, FiniteAssumption, FS_Subset, FS_CardinalityType, Zenon
<1>2. \A q \in Peers :
        Tallies(st)[q] = [total |-> Tally(st, q, N), requested |-> Tally(st, q, {"REQUESTED"}),
                          completed |-> Tally(st, q, {"COMPLETED"})]
  BY Zenon DEF Tallies
<1>3. ASSUME NEW q \in Peers, Tally(st, q, N) = 0, NEW x \in N  PROVE Tally(st, q, {x}) = 0
  <2>1. S(q, N) = {}
    <3>1. Cardinality(S(q, N)) = 0
      BY <1>3, Zenon DEF Tally
    <3> HIDE DEF S, N
    <3> QED  BY <1>1, <3>1, FS_EmptySet, Zenon
  <2>2. S(q, {x}) = {}
    BY <2>1, Zenon
  <2>3. Tally(st, q, {x}) = Cardinality(S(q, {x}))
    BY Zenon DEF Tally
  <2> HIDE DEF S
  <2> QED  BY <2>2, <2>3, FS_EmptySet, Zenon
<1>4. "REQUESTED" \in N /\ "COMPLETED" \in N
  BY Zenon DEF States
<1>5. Tallies(st) = [q \in Peers |->
        [total |-> Tally(st, q, N), requested |-> Tally(st, q, {"REQUESTED"}),
         completed |-> Tally(st, q, {"COMPLETED"})]]
  BY Zenon DEF Tallies
<1> HIDE DEF N, S
<1>6. ASSUME NEW q \in Peers, Tallies(st)[q].total = 0  PROVE Tallies(st)[q] = NoInfo
  <2>0. Tallies(st)[q] = [total |-> Tally(st, q, N), requested |-> Tally(st, q, {"REQUESTED"}),
                          completed |-> Tally(st, q, {"COMPLETED"})]
    BY <1>2, Zenon
  <2>1. Tally(st, q, N) = 0
    BY <1>6, <2>0
  <2>2. Tally(st, q, {"REQUESTED"}) = 0 /\ Tally(st, q, {"COMPLETED"}) = 0
    BY <1>3, <1>4, <2>1, Zenon
  <2> QED  BY <2>0, <2>1, <2>2, Zenon DEF NoInfo
<1>7. Tallies(st) \in [Peers -> [total : Nat, requested : Nat, completed : Nat]]
  BY <1>1, <1>5
<1> QED  BY <1>6, <1>7, Zenon

\* The wrapper Erase keeps exact counters exact.
LEMMA EraseCounts ==
    ASSUME NEW st \in [TxHashes -> Rows], NEW h \in TxHashes, NEW p \in Peers,
           st[h][p] # "NONE"
    PROVE  Erase(Counted(st), h, p) = Counted(Cell(st, h, p, "NONE"))
<1> DEFINE new == [st EXCEPT ![h][p] = "NONE"]
           s == st[h][p]
           o == Tallies(st)[p]
           i == [total |-> o.total - 1, requested |-> o.requested - One(s = "REQUESTED"),
                 completed |-> o.completed - One(s = "COMPLETED")]
           info == [Tallies(st) EXCEPT ![p] = IF i.total = 0 THEN NoInfo ELSE i]
<1>1. new \in [TxHashes -> Rows]
  BY Zenon DEF Rows, States
<1>2. /\ \A g \in TxHashes, q \in Peers : (g # h \/ q # p) => new[g][q] = st[g][q]
      /\ new[h][p] = "NONE"
  BY Zenon DEF Rows
<1>3. Erase(Counted(st), h, p) = [index |-> new, info |-> info]
  BY Zenon DEF Erase, Counted
<1> HIDE DEF new
<1>4. \A q \in Peers : Tallies(st)[q] \in [total : Nat, requested : Nat, completed : Nat]
  BY TalliesType, Zenon
<1>5. Tallies(new)[p] = i
  <2>1. Tallies(new)[p] =
              [total     |-> o.total - One(s # "NONE") + One(new[h][p] # "NONE"),
               requested |-> o.requested - One(s = "REQUESTED") + One(new[h][p] = "REQUESTED"),
               completed |-> o.completed - One(s = "COMPLETED") + One(new[h][p] = "COMPLETED")]
    <3>1. \A g \in TxHashes \ {h} : new[g][p] = st[g][p]
      BY <1>2, Zenon
    <3> QED  BY <1>1, <3>1, TalliesCell
  <2>2. One(new[h][p] # "NONE") = 0 /\ One(new[h][p] = "REQUESTED") = 0
        /\ One(new[h][p] = "COMPLETED") = 0 /\ One(s # "NONE") = 1
        /\ One(s = "REQUESTED") \in Int /\ One(s = "COMPLETED") \in Int
    BY <1>2 DEF One
  <2>3. o.total \in Int /\ o.requested \in Int /\ o.completed \in Int
    BY <1>4
  <2> DEFINE a == One(s = "REQUESTED")  b == One(s = "COMPLETED")
             x == o.total  y == o.requested  z == o.completed
  <2>4. x - 1 + 0 = x - 1 /\ y - a + 0 = y - a /\ z - b + 0 = z - b
    <3>1. x \in Int /\ y \in Int /\ z \in Int /\ a \in Int /\ b \in Int
      BY <2>2, <2>3, Zenon
    <3> HIDE DEF a, b, x, y, z
    <3> QED  BY <3>1
  <2> HIDE DEF o
  <2> QED  BY <2>1, <2>2, <2>4, Zenon
<1>6. \A q \in Peers \ {p} : Tallies(new)[q] = Tallies(st)[q]
  <2> TAKE q \in Peers \ {p}
  <2>1. \A g \in TxHashes : new[g][q] = st[g][q]
    BY <1>2, Zenon
  <2> QED  BY <2>1, TalliesSame, Zenon
<1>7. (IF i.total = 0 THEN NoInfo ELSE i) = Tallies(new)[p]
  BY <1>1, <1>5, TalliesType, Zenon
<1>8. info = Tallies(new)
  <2>1. DOMAIN Tallies(st) = Peers /\ Tallies(new) = [q \in Peers |-> Tallies(new)[q]]
    BY Zenon DEF Tallies
  <2> HIDE DEF i
  <2> QED  BY <1>6, <1>7, <2>1, Zenon
<1> QED  BY <1>3, <1>8, Zenon DEF Counted, Cell, new

\* So does the wrapper Modify.
LEMMA ModifyCounts ==
    ASSUME NEW st \in [TxHashes -> Rows], NEW h \in TxHashes, NEW p \in Peers,
           st[h][p] # "NONE", NEW s \in States \ {"NONE"}
    PROVE  Modify(Counted(st), h, p, s) = Counted(Cell(st, h, p, s))
<1> DEFINE new == [st EXCEPT ![h][p] = s]
           old == st[h][p]
           o == Tallies(st)[p]
           i == [total |-> o.total,
                 requested |-> o.requested - One(old = "REQUESTED") + One(s = "REQUESTED"),
                 completed |-> o.completed - One(old = "COMPLETED") + One(s = "COMPLETED")]
           info == [Tallies(st) EXCEPT ![p] = i]
<1>1. new \in [TxHashes -> Rows]
  BY Zenon DEF Rows
<1>2. /\ \A g \in TxHashes, q \in Peers : (g # h \/ q # p) => new[g][q] = st[g][q]
      /\ new[h][p] = s
  BY Zenon DEF Rows
<1>3. Modify(Counted(st), h, p, s) = [index |-> new, info |-> info]
  BY Zenon DEF Modify, Counted
<1> HIDE DEF new
<1>4. Tallies(st)[p] \in [total : Nat, requested : Nat, completed : Nat]
  BY TalliesType, Zenon
<1>5. Tallies(new)[p] = i
  <2>1. Tallies(new)[p] =
              [total     |-> o.total - One(old # "NONE") + One(new[h][p] # "NONE"),
               requested |-> o.requested - One(old = "REQUESTED") + One(new[h][p] = "REQUESTED"),
               completed |-> o.completed - One(old = "COMPLETED") + One(new[h][p] = "COMPLETED")]
    <3>1. \A g \in TxHashes \ {h} : new[g][p] = st[g][p]
      BY <1>2, Zenon
    <3> QED  BY <1>1, <3>1, TalliesCell
  <2>2. One(old # "NONE") = 1 /\ One(new[h][p] # "NONE") = 1
    BY <1>2, Zenon DEF One
  <2>3. o.total \in Int
    BY <1>4
  <2>4. o.total - 1 + 1 = o.total
    BY <2>3
  <2> HIDE DEF o
  <2> QED  BY <1>2, <2>1, <2>2, <2>4, Zenon
<1>6. \A q \in Peers \ {p} : Tallies(new)[q] = Tallies(st)[q]
  <2> TAKE q \in Peers \ {p}
  <2>1. \A g \in TxHashes : new[g][q] = st[g][q]
    BY <1>2, Zenon
  <2> QED  BY <2>1, TalliesSame, Zenon
<1>7. info = Tallies(new)
  <2>1. DOMAIN Tallies(st) = Peers /\ Tallies(new) = [q \in Peers |-> Tallies(new)[q]]
    BY Zenon DEF Tallies
  <2> HIDE DEF i
  <2> QED  BY <1>5, <1>6, <2>1, Zenon
<1> QED  BY <1>3, <1>7, Zenon DEF Counted, Cell, new

\* A new announcement is counted.
LEMMA InvCounts ==
    ASSUME NEW st \in [TxHashes -> Rows], NEW h \in TxHashes, NEW p \in Peers,
           st[h][p] = "NONE"
    PROVE  ReceivedInv(Counted(st), h, p) = Counted(Cell(st, h, p, "DELAYED"))
<1> DEFINE new == [st EXCEPT ![h][p] = "DELAYED"]
           o == Tallies(st)[p]
           info == [Tallies(st) EXCEPT ![p].total = @ + 1]
<1>1. new \in [TxHashes -> Rows]
  BY Zenon DEF Rows, States
<1>2. /\ \A g \in TxHashes, q \in Peers : (g # h \/ q # p) => new[g][q] = st[g][q]
      /\ new[h][p] = "DELAYED"
  BY Zenon DEF Rows
<1>3. ReceivedInv(Counted(st), h, p) = [index |-> new, info |-> info]
  BY DEF ReceivedInv, Counted
<1> HIDE DEF new
<1>4. o \in [total : Nat, requested : Nat, completed : Nat]
  BY TalliesType, Zenon
<1>5. Tallies(new)[p] = [total |-> o.total + 1, requested |-> o.requested,
                         completed |-> o.completed]
  <2>1. Tallies(new)[p] =
              [total     |-> o.total - One(st[h][p] # "NONE") + One(new[h][p] # "NONE"),
               requested |-> o.requested - One(st[h][p] = "REQUESTED")
                                         + One(new[h][p] = "REQUESTED"),
               completed |-> o.completed - One(st[h][p] = "COMPLETED")
                                         + One(new[h][p] = "COMPLETED")]
    <3>1. \A g \in TxHashes \ {h} : new[g][p] = st[g][p]
      BY <1>2, Zenon
    <3> QED  BY <1>1, <3>1, TalliesCell
  <2>2. /\ One(st[h][p] # "NONE") = 0 /\ One(new[h][p] # "NONE") = 1
        /\ One(st[h][p] = "REQUESTED") = 0 /\ One(new[h][p] = "REQUESTED") = 0
        /\ One(st[h][p] = "COMPLETED") = 0 /\ One(new[h][p] = "COMPLETED") = 0
    BY <1>2, Zenon DEF One
  <2>3. o.total - 0 + 1 = o.total + 1 /\ o.requested - 0 + 0 = o.requested
        /\ o.completed - 0 + 0 = o.completed
    BY <1>4
  <2> HIDE DEF o
  <2> QED  BY <2>1, <2>2, <2>3, Zenon
<1>6. \A q \in Peers \ {p} : Tallies(new)[q] = Tallies(st)[q]
  <2> TAKE q \in Peers \ {p}
  <2>1. \A g \in TxHashes : new[g][q] = st[g][q]
    BY <1>2, Zenon
  <2> QED  BY <2>1, TalliesSame, Zenon
<1>7. [o EXCEPT !.total = @ + 1] = Tallies(new)[p]
  <2> HIDE DEF o
  <2> QED  BY <1>4, <1>5
<1>8. info = Tallies(new)
  <2>1. DOMAIN Tallies(st) = Peers /\ Tallies(new) = [q \in Peers |-> Tallies(new)[q]]
    BY Zenon DEF Tallies
  <2>2. info = [Tallies(st) EXCEPT ![p] = [o EXCEPT !.total = @ + 1]]
    BY <2>1, Zenon
  <2> QED  BY <1>6, <1>7, <2>1, <2>2, Zenon
<1> QED  BY <1>3, <1>8, Zenon DEF Counted, Cell, new

\* Forgetting a hash erases one announcement of each peer that has one.
LEMMA ForgetCounts ==
    ASSUME NEW st \in [TxHashes -> Rows], NEW h \in TxHashes
    PROVE  ForgetTxHash(Counted(st), h) = Counted(ForgetIndex(st, h))
<1> DEFINE new == ForgetIndex(st, h)
           info == [q \in Peers |-> IF q \in Announced(st, h)
                                      THEN Erase(Counted(st), h, q).info[q] ELSE Tallies(st)[q]]
<1>1. new \in [TxHashes -> Rows]
  BY Zenon DEF ForgetIndex, Rows, States
<1>2. \A g \in TxHashes, q \in Peers : new[g][q] = IF g = h THEN "NONE" ELSE st[g][q]
  BY Zenon DEF ForgetIndex, Rows
<1>3. ForgetTxHash(Counted(st), h) = [index |-> new, info |-> info]
  BY Zenon DEF ForgetTxHash, ForgetIndex, Counted
<1> HIDE DEF new
<1>4. ASSUME NEW q \in Peers  PROVE info[q] = Tallies(new)[q]
  <2>1. CASE q \in Announced(st, h)
    <3> DEFINE one == Cell(st, h, q, "NONE")
    <3>1. Erase(Counted(st), h, q) = Counted(one)
      BY <2>1, EraseCounts, Zenon DEF Announced
    <3>2. \A g \in TxHashes : new[g][q] = one[g][q]
      BY <1>2, Zenon DEF Rows, Cell
    <3> HIDE DEF one
    <3>3. Counted(one).info = Tallies(one)
      BY Zenon DEF Counted
    <3>4. Tallies(new)[q] = Tallies(one)[q]
      BY <3>2, TalliesSame, Zenon
    <3> QED  BY <2>1, <3>1, <3>3, <3>4, Zenon
  <2>2. CASE q \notin Announced(st, h)
    <3>1. \A g \in TxHashes : new[g][q] = st[g][q]
      BY <1>2, <2>2, Zenon DEF Announced
    <3>2. Tallies(new)[q] = Tallies(st)[q]
      BY <3>1, TalliesSame, Zenon
    <3> QED  BY <2>2, <3>2, Zenon
  <2> QED  BY <2>1, <2>2, Zenon
<1>5. info = Tallies(new)
  <2>1. Tallies(new) = [q \in Peers |-> Tallies(new)[q]] /\ info = [q \in Peers |-> info[q]]
    BY Zenon DEF Tallies
  <2> HIDE DEF info
  <2> QED  BY <1>4, <2>1, Zenon
<1> QED  BY <1>3, <1>5, Zenon DEF Counted, new

\* An announcement is in one of these states (State).
LEMMA Live == /\ {"DELAYED", "READY", "BEST"} \subseteq States \ {"NONE"}
              /\ {"REQUESTED", "COMPLETED"} \subseteq States \ {"NONE"}
BY DEF States

\* PromoteCandidateReady.
LEMMA PromoteCounts ==
    ASSUME NEW st \in [TxHashes -> Rows], NEW h \in TxHashes, NEW p \in Peers,
           st[h][p] # "NONE"
    PROVE  PromoteCandidateReady(Counted(st), h, p) = Counted(PromoteIndex(st, h, p))
<1> DEFINE ready == Cell(st, h, p, "READY")
           next == NextOf(ready, h, p)
           q0 == CHOOSE q \in next : TRUE
           all == \A q \in next : ready[h][q] = "COMPLETED"
<1>1. ready \in [TxHashes -> Rows] /\ ready[h][p] = "READY"
  BY Zenon DEF Rows, States, Cell
<1>2. Modify(Counted(st), h, p, "READY") = Counted(ready)
  BY Live, ModifyCounts, Zenon
<1>3. Counted(ready).index = ready
  BY Zenon DEF Counted
<1>4. next \subseteq Announced(ready, h)
  BY Zenon DEF NextOf
<1>5. CASE all
  <2>1. Modify(Counted(ready), h, p, "BEST") = Counted(Cell(ready, h, p, "BEST"))
    <3> HIDE DEF ready
    <3> QED  BY <1>1, Live, ModifyCounts, Zenon
  <2>2. Cell(ready, h, p, "BEST") = [st EXCEPT ![h][p] = "BEST"]
    BY DEF Rows, Cell
  <2>3. PromoteIndex(st, h, p) = [st EXCEPT ![h][p] = "BEST"]
    BY <1>5, Zenon DEF PromoteIndex, Cell
  <2>4. PromoteCandidateReady(Counted(st), h, p) = Modify(Counted(ready), h, p, "BEST")
    <3> HIDE DEF ready
    <3> QED  BY <1>2, <1>3, <1>5, Zenon DEF PromoteCandidateReady
  <2> QED  BY <2>1, <2>2, <2>3, <2>4, Zenon
<1>6. CASE ~ all /\ ready[h][q0] = "BEST" /\ HigherPriority(h, p, q0)
  <2> DEFINE back == Cell(ready, h, q0, "READY")
             two == Cell(back, h, p, "BEST")
  <2>1. q0 \in Peers /\ q0 # p /\ ready[h][q0] # "NONE"
    <3>1. q0 \in next
      <4> HIDE DEF next
      <4> QED  BY <1>6, Zenon
    <3> HIDE DEF q0
    <3> QED  BY <1>1, <1>4, <1>6, <3>1, Zenon DEF Announced
  <2> HIDE DEF q0
  <2>2. Modify(Counted(ready), h, q0, "READY") = Counted(back)
    <3> HIDE DEF ready
    <3> QED  BY <1>1, <2>1, Live, ModifyCounts, Zenon
  <2>3. back \in [TxHashes -> Rows] /\ back[h][p] # "NONE"
    <3> HIDE DEF ready
    <3> QED  BY <1>1, <2>1, Zenon DEF Rows, States, Cell
  <2>4. Modify(Counted(back), h, p, "BEST") = Counted(two)
    <3> HIDE DEF back
    <3> QED  BY <2>3, Live, ModifyCounts, Zenon
  <2>5. two = [st EXCEPT ![h] = [@ EXCEPT ![p] = "BEST", ![q0] = "READY"]]
    BY <2>1 DEF Rows, Cell
  <2>6. PromoteIndex(st, h, p) = [st EXCEPT ![h] = [@ EXCEPT ![p] = "BEST", ![q0] = "READY"]]
    BY <1>6, Zenon DEF PromoteIndex, Cell, q0
  <2>7. PromoteCandidateReady(Counted(st), h, p)
            = Modify(Modify(Counted(ready), h, q0, "READY"), h, p, "BEST")
    <3> HIDE DEF ready
    <3> QED  BY <1>2, <1>3, <1>6, Zenon DEF PromoteCandidateReady, q0
  <2> HIDE DEF two
  <2> QED  BY <2>2, <2>4, <2>5, <2>6, <2>7, Zenon
<1>7. CASE ~ all /\ ~ (ready[h][q0] = "BEST" /\ HigherPriority(h, p, q0))
  <2>1. PromoteIndex(st, h, p) = ready
    BY <1>7, Zenon DEF PromoteIndex, Cell
  <2>2. PromoteCandidateReady(Counted(st), h, p) = Counted(ready)
    <3> HIDE DEF ready
    <3> QED  BY <1>2, <1>3, <1>7, Zenon DEF PromoteCandidateReady
  <2> QED  BY <2>1, <2>2, Zenon
<1> QED  BY <1>5, <1>6, <1>7, Zenon

\* ChangeAndReselect, where the ready one just before is one at most.
LEMMA ChangeCounts ==
    ASSUME NEW st, Sane(st), NEW h \in TxHashes, NEW p \in Peers, st[h][p] # "NONE",
           NEW new \in {"DELAYED", "COMPLETED"}
    PROVE  ChangeAndReselect(Counted(st), h, p, new) = Counted(ChangeIndex(st, h, p, new))
<1> DEFINE ready == {q \in Peers : st[h][q] = "READY"}
           prev == {q \in PrevOf(st, h, p) : st[h][q] = "READY"}
<1>1. st \in [TxHashes -> Rows] /\ Counted(st).index = st /\ new \in States \ {"NONE"}
  BY Zenon DEF Sane, Counted, States
<1>2. prev \subseteq ready
  BY Zenon DEF PrevOf, Announced
<1>3. CASE st[h][p] \in Selected /\ prev # {}
  <2>1. PICK t \in ready : \A q \in ready \ {t} : HigherPriority(h, t, q)
    <3>1. ready \in SUBSET Peers /\ ready # {}
      BY <1>2, <1>3, Zenon
    <3> HIDE DEF ready
    <3> QED  BY <3>1, TopExists, Zenon
  <2>2. prev = {t}
    <3>1. \A q \in Peers \ {t} : st[h][q] = "READY" => HigherPriority(h, t, q)
      BY <2>1, Zenon
    <3> QED  BY <1>3, <2>1, <3>1, PrevIsTop
  <2>3. (CHOOSE q \in prev : TRUE) = t
    <3> HIDE DEF prev
    <3> QED  BY <2>2, Zenon
  <2>4. t \in Peers /\ st[h][t] = "READY" /\ t # p
    BY <1>3, <2>1, Zenon DEF Selected
  <2> DEFINE best == Cell(st, h, t, "BEST")
             two == Cell(best, h, p, new)
  <2>5. Modify(Counted(st), h, t, "BEST") = Counted(best)
    BY <1>1, <2>4, Live, ModifyCounts, Zenon
  <2>6. best \in [TxHashes -> Rows] /\ best[h][p] # "NONE"
    BY <1>1, <2>4, Zenon DEF Rows, States, Cell
  <2>7. Modify(Counted(best), h, p, new) = Counted(two)
    <3> HIDE DEF best
    <3> QED  BY <1>1, <2>6, ModifyCounts, Zenon
  <2>8. ChangeIndex(st, h, p, new) = two
    <3>1. \A q \in Peers : (q \in PrevOf(st, h, p) /\ st[h][q] = "READY") <=> q = t
      BY <2>2, Zenon
    <3>2. ChangeIndex(st, h, p, new) =
            [st EXCEPT ![h] = [q \in Peers |-> IF q = p THEN new
                                               ELSE IF q = t THEN "BEST" ELSE st[h][q]]]
      BY <1>3, <3>1, Zenon DEF ChangeIndex
    <3>3. two[h] = [q \in Peers |-> IF q = p THEN new ELSE IF q = t THEN "BEST" ELSE st[h][q]]
      BY <1>1, <2>4 DEF Rows, Cell
    <3>4. two = [st EXCEPT ![h] = two[h]]
      BY <1>1 DEF Cell
    <3> HIDE DEF two
    <3> QED  BY <3>2, <3>3, <3>4, Zenon
  <2>9. ChangeAndReselect(Counted(st), h, p, new)
            = Modify(Modify(Counted(st), h, t, "BEST"), h, p, new)
    BY <1>1, <1>3, <2>3, Zenon DEF ChangeAndReselect
  <2> HIDE DEF best, two
  <2> QED  BY <2>5, <2>7, <2>8, <2>9, Zenon
<1>4. CASE ~ (st[h][p] \in Selected /\ prev # {})
  <2>1. ChangeAndReselect(Counted(st), h, p, new) = Modify(Counted(st), h, p, new)
    BY <1>1, <1>4, Zenon DEF ChangeAndReselect
  <2>2. Modify(Counted(st), h, p, new) = Counted(Cell(st, h, p, new))
    BY <1>1, ModifyCounts, Zenon
  <2>3. ChangeIndex(st, h, p, new) = Cell(st, h, p, new)
    <3>1. \A q \in Peers : ~ (st[h][p] \in Selected /\ q \in PrevOf(st, h, p)
                              /\ st[h][q] = "READY")
      BY <1>4, Zenon
    <3>2. ChangeIndex(st, h, p, new) =
            [st EXCEPT ![h] = [q \in Peers |-> IF q = p THEN new ELSE st[h][q]]]
      BY <3>1, Zenon DEF ChangeIndex
    <3>3. [q \in Peers |-> IF q = p THEN new ELSE st[h][q]] = [st[h] EXCEPT ![p] = new]
      BY <1>1, Zenon DEF Rows
    <3> QED  BY <3>2, <3>3, Zenon DEF Cell
  <2> QED  BY <2>1, <2>2, <2>3, Zenon
<1> QED  BY <1>3, <1>4, Zenon

\* MakeCompleted and ReceivedResponse.
LEMMA CompleteCounts ==
    ASSUME NEW st, Sane(st), NEW h \in TxHashes, NEW p \in Peers, st[h][p] # "NONE"
    PROVE  MakeCompleted(Counted(st), h, p) = Counted(CompleteIndex(st, h, p))
<1>1. Counted(st).index = st /\ st \in [TxHashes -> Rows]
  BY Zenon DEF Counted, Sane
<1>2. ForgetTxHash(Counted(st), h) = Counted(ForgetIndex(st, h))
  BY <1>1, ForgetCounts, Zenon
<1>3. ChangeAndReselect(Counted(st), h, p, "COMPLETED")
          = Counted(ChangeIndex(st, h, p, "COMPLETED"))
  BY ChangeCounts, Zenon
<1> QED  BY <1>1, <1>2, <1>3, Zenon DEF MakeCompleted, CompleteIndex

LEMMA ResponseCounts ==
    ASSUME NEW st, Sane(st), NEW h \in TxHashes, NEW p \in Peers
    PROVE  ReceivedResponse(Counted(st), h, p) = Counted(ResponseIndex(st, h, p))
<1>1. Counted(st).index = st
  BY Zenon DEF Counted
<1> QED  BY <1>1, CompleteCounts, Zenon DEF ReceivedResponse, ResponseIndex

\* Two loops over a set that take the same steps end alike.
LEMMA SameLoop ==
    ASSUME NEW X, IsFiniteSet(X), NEW f, NEW g, f[{}] = g[{}],
           \A S \in SUBSET X : S # {} =>
               \E h \in S : f[S \ {h}] = g[S \ {h}] => f[S] = g[S]
    PROVE  f[X] = g[X]
<1> SUFFICES ASSUME f[X] # g[X]  PROVE FALSE
  BY Zenon
<1> DEFINE Bad == {S \in SUBSET X : f[S] # g[S]}
           N == {Cardinality(S) : S \in Bad}
<1>1. \A S \in SUBSET X : IsFiniteSet(S) /\ Cardinality(S) \in Nat
  BY FS_Subset, FS_CardinalityType, Zenon
<1>2. N \subseteq Nat /\ N # {}
  <2>1. X \in Bad
    BY Zenon
  <2>2. \A S \in Bad : Cardinality(S) \in Nat
    BY <1>1, Zenon
  <2> HIDE DEF Bad
  <2> QED  BY <2>1, <2>2, Zenon
<1>3. PICK x \in N : \A y \in N : ~ (<<y, x>> \in OpToRel(<, Nat))
  <2> HIDE DEF N
  <2> QED  BY <1>2, WFMin, NatLessThanWellFounded, Zenon
<1>4. PICK S \in Bad : x = Cardinality(S)
  BY Zenon
<1>5. S \in SUBSET X /\ f[S] # g[S] /\ S # {}
  BY Zenon
<1>6. PICK h \in S : f[S \ {h}] = g[S \ {h}] => f[S] = g[S]
  BY <1>5, Zenon
<1> DEFINE T == S \ {h}
<1>7. T \in SUBSET X /\ f[T] # g[T]
  BY <1>5, <1>6, Zenon
<1>8. T \in Bad
  BY <1>7, Zenon
<1>9. Cardinality(T) \in N
  <2> HIDE DEF Bad, T
  <2> QED  BY <1>8, Zenon
<1>10. IsFiniteSet(S) /\ Cardinality(S) \in Nat /\ Cardinality(T) \in Nat
  BY <1>1, <1>5, <1>7, Zenon
<1>11. Cardinality(T) = Cardinality(S) - 1
  BY <1>10, FS_RemoveElement
<1> DEFINE y == Cardinality(T)
<1>12. y < x /\ y \in Nat /\ x \in Nat
  <2> DEFINE c == Cardinality(S)
  <2>1. y = c - 1 /\ c \in Nat /\ y \in Nat /\ x = c
    BY <1>4, <1>10, <1>11, Zenon
  <2> HIDE DEF y, c
  <2> QED  BY <2>1
<1>13. y \in N
  BY <1>9, Zenon
<1> HIDE DEF y
<1>14. <<y, x>> \in Nat \X Nat /\ <<y, x>>[1] = y /\ <<y, x>>[2] = x
  BY <1>12, Zenon
<1>15. <<y, x>> \in OpToRel(<, Nat)
  BY <1>12, <1>14, Zenon DEF OpToRel
<1> QED  BY <1>3, <1>13, <1>15, Zenon

\* The announcements of an inv, one by one (AddTxAnnouncement).
LEMMA AnnounceCounts ==
    ASSUME NEW st \in [TxHashes -> Rows], NEW p \in Peers, NEW W \in SUBSET TxHashes,
           \A h \in W : st[h][p] = "NONE"
    PROVE  AddTxAnnouncement(Counted(st), p, W) = Counted(InvIndex(st, p, W))
<1> DEFINE t == Counted(st)
           e(S) == CHOOSE h \in S : TRUE
           g == [S \in SUBSET W |-> Counted(InvIndex(st, p, S))]
           f == CHOOSE f : f = [S \in SUBSET W |->
                                  IF S = {} THEN t ELSE ReceivedInv(f[S \ {e(S)}], e(S), p)]
<1>1. AddTxAnnouncement(t, p, W) = f[W]
  BY Zenon DEF AddTxAnnouncement
<1>2. g[{}] = t
  <2>1. InvIndex(st, p, {}) = st
    BY Zenon DEF InvIndex
  <2> QED  BY <2>1, Zenon
<1>3. ASSUME NEW S \in SUBSET W, S # {}
      PROVE  g[S] = ReceivedInv(g[S \ {e(S)}], e(S), p)
  <2>1. PICK h : h = e(S) /\ h \in S
    BY <1>3, Zenon
  <2> DEFINE cur == InvIndex(st, p, S \ {h})
  <2>2. g[S \ {h}] = Counted(cur) /\ g[S] = Counted(InvIndex(st, p, S))
    BY <1>3, Zenon
  <2>3. cur \in [TxHashes -> Rows] /\ cur[h][p] = "NONE" /\ h \in TxHashes
    BY <1>3, <2>1, Zenon DEF InvIndex, Rows, States
  <2>4. Cell(cur, h, p, "DELAYED") = InvIndex(st, p, S)
    BY <1>3, <2>1 DEF InvIndex, Cell
  <2> HIDE DEF cur, e, g
  <2>5. ReceivedInv(Counted(cur), h, p) = Counted(Cell(cur, h, p, "DELAYED"))
    BY <2>3, InvCounts, Zenon
  <2> QED  BY <2>1, <2>2, <2>4, <2>5, Zenon
<1>4. f = [S \in SUBSET W |-> IF S = {} THEN t ELSE ReceivedInv(f[S \ {e(S)}], e(S), p)]
  <2>1. g = [S \in SUBSET W |-> IF S = {} THEN t ELSE ReceivedInv(g[S \ {e(S)}], e(S), p)]
    <3>1. g = [S \in SUBSET W |-> g[S]]
      BY Zenon
    <3> HIDE DEF g, t, e
    <3> QED  BY <1>2, <1>3, <3>1, Zenon
  <2> HIDE DEF g, t, e
  <2> QED  BY <2>1, Zenon
<1>5. f[W] = g[W]
  <2>0. IsFiniteSet(W)
    BY FiniteAssumption, FS_Subset, Zenon
  <2> HIDE DEF f, g, t
  <2>1. f[{}] = g[{}]
    BY <1>2, <1>4, Zenon
  <2>2. ASSUME NEW S \in SUBSET W, S # {}
        PROVE  \E h \in S : f[S \ {h}] = g[S \ {h}] => f[S] = g[S]
    <3>1. e(S) \in S
      BY <2>2, Zenon
    <3> HIDE DEF e
    <3>2. f[S] = ReceivedInv(f[S \ {e(S)}], e(S), p)
      BY <1>4, <2>2, Zenon
    <3>3. g[S] = ReceivedInv(g[S \ {e(S)}], e(S), p)
      BY <1>3, <2>2, Zenon
    <3> QED  BY <3>1, <3>2, <3>3, Zenon
  <2> QED  BY <2>0, <2>1, <2>2, SameLoop, Zenon
<1> QED  BY <1>1, <1>5, Zenon

\* What an answer does to a hash depends on the announcements of that hash alone.
LEMMA ResponseRow ==
    ASSUME NEW a \in [TxHashes -> Rows], NEW b \in [TxHashes -> Rows],
           NEW h \in TxHashes, NEW p \in Peers, a[h] = b[h]
    PROVE  /\ ResponseIndex(a, h, p)[h] = ResponseIndex(b, h, p)[h]
           /\ \A g \in TxHashes \ {h} : ResponseIndex(a, h, p)[g] = a[g]
           /\ DOMAIN ResponseIndex(a, h, p) = TxHashes
<1>1. Announced(a, h) = Announced(b, h)
  BY Zenon DEF Announced
<1>2. PrevOf(a, h, p) = PrevOf(b, h, p)
  <2>1. \A q, r : ByTxHash(a, h, q, r) <=> ByTxHash(b, h, q, r)
    BY Zenon DEF ByTxHash
  <2> QED  BY <1>1, <2>1, Zenon DEF PrevOf
<1>3. IsOnlyNonCompleted(a, h, p) <=> IsOnlyNonCompleted(b, h, p)
  BY <1>1, Zenon DEF IsOnlyNonCompleted
<1>4. /\ ChangeIndex(a, h, p, "COMPLETED")[h] = ChangeIndex(b, h, p, "COMPLETED")[h]
      /\ \A g \in TxHashes \ {h} : ChangeIndex(a, h, p, "COMPLETED")[g] = a[g]
      /\ DOMAIN ChangeIndex(a, h, p, "COMPLETED") = TxHashes
  BY <1>2, Zenon DEF ChangeIndex
<1>5. /\ ForgetIndex(a, h)[h] = ForgetIndex(b, h)[h]
      /\ \A g \in TxHashes \ {h} : ForgetIndex(a, h)[g] = a[g]
      /\ DOMAIN ForgetIndex(a, h) = TxHashes
  BY Zenon DEF ForgetIndex
<1> QED  BY <1>3, <1>4, <1>5, Zenon DEF ResponseIndex, CompleteIndex

\* The announcements of a peer that leaves, one by one (DisconnectedPeer).
LEMMA DisconnectCounts ==
    ASSUME NEW st, Sane(st), NEW p \in Peers
    PROVE  DisconnectedPeer(Counted(st), p) = Counted(DisconnectIndex(st, p))
<1> DEFINE t == Counted(st)
           its == {h \in TxHashes : t.index[h][p] # "NONE"}
           end == DisconnectIndex(st, p)
           part(S) == [h \in TxHashes |-> IF h \in S THEN end[h] ELSE st[h]]
           e(S) == CHOOSE h \in S : TRUE
           g == [S \in SUBSET its |-> Counted(part(S))]
           f == CHOOSE f : f = [S \in SUBSET its |->
                                  IF S = {} THEN t ELSE CompletedAndErased(f[S \ {e(S)}], e(S), p)]
<1>0. st \in [TxHashes -> Rows] /\ Counted(st).index = st
  BY Zenon DEF Sane, Counted
<1>1. DisconnectedPeer(t, p) = f[its]
  BY Zenon DEF DisconnectedPeer
<1>2. g[{}] = t
  <2>1. part({}) = st
    BY <1>0, Zenon
  <2> QED  BY <2>1, Zenon
<1>3. Sane(end)
  BY DisconnectKeeps, Zenon
<1>4. \A S : Sane(part(S))
  <2> HIDE DEF end
  <2> QED  BY <1>3, Zenon DEF Sane
<1>5. ASSUME NEW S \in SUBSET its, S # {}
      PROVE  g[S] = CompletedAndErased(g[S \ {e(S)}], e(S), p)
  <2>1. PICK h : h = e(S) /\ h \in S
    BY <1>5, Zenon
  <2> DEFINE cur == part(S \ {h})
             c == ResponseIndex(cur, h, p)
             r == ResponseIndex(st, h, p)[h]
  <2>2. g[S \ {h}] = Counted(cur) /\ g[S] = Counted(part(S))
    <3> HIDE DEF part
    <3> QED  BY <1>5, Zenon
  <2>3. Sane(cur) /\ h \in TxHashes /\ cur \in [TxHashes -> Rows]
    <3>1. Sane(cur)
      BY <1>4, Zenon
    <3> HIDE DEF cur
    <3> QED  BY <1>5, <2>1, <3>1, Zenon DEF Sane
  <2>4. cur[h] = st[h] /\ st[h][p] # "NONE"
    BY <1>0, <1>5, <2>1, <2>3, Zenon
  <2>5. end[h] = [r EXCEPT ![p] = "NONE"]
    BY <2>3, Zenon DEF DisconnectIndex
  <2>6. \A k \in TxHashes \ {h} : cur[k] = part(S)[k]
    BY Zenon
  <2>7. part(S)[h] = end[h] /\ part(S) = [k \in TxHashes |-> part(S)[k]]
    BY <2>1, <2>3, Zenon
  <2> HIDE DEF cur, part, g, end, e
  <2>8. c[h] = r /\ (\A k \in TxHashes \ {h} : c[k] = cur[k]) /\ DOMAIN c = TxHashes
    <3>1. st \in [TxHashes -> Rows]
      BY <1>0, Zenon
    <3>2. cur[h] = st[h]
      BY <2>4, Zenon
    <3>3. h \in TxHashes /\ p \in Peers /\ cur \in [TxHashes -> Rows]
      BY <2>3, Zenon
    <3>4. /\ ResponseIndex(cur, h, p)[h] = ResponseIndex(st, h, p)[h]
          /\ \A k \in TxHashes \ {h} : ResponseIndex(cur, h, p)[k] = cur[k]
          /\ DOMAIN ResponseIndex(cur, h, p) = TxHashes
      BY ONLY <3>1, <3>2, <3>3, ResponseRow
    <3> QED  BY <3>4, Zenon
  <2>9. Sane(c) /\ c \in [TxHashes -> Rows] /\ r \in Rows
    <3>1. Sane(c)
      BY <2>3, ResponseKeeps, Zenon
    <3>2. c \in [TxHashes -> Rows]
      BY <3>1, Zenon DEF Sane
    <3> HIDE DEF c
    <3> QED  BY <2>3, <2>8, <3>1, <3>2, Zenon
  <2>10. MakeCompleted(Counted(cur), h, p) = Counted(c)
    <3>1. MakeCompleted(Counted(cur), h, p) = Counted(CompleteIndex(cur, h, p))
      BY <2>3, <2>4, CompleteCounts, Zenon
    <3>2. c = CompleteIndex(cur, h, p)
      BY <2>4, Zenon DEF ResponseIndex
    <3> QED  BY <3>1, <3>2, Zenon
  <2>11. Counted(c).index = c
    BY Zenon DEF Counted
  <2> HIDE DEF c, r
  <2>12. Cell(c, h, p, "NONE") = part(S)
    <3>1. Cell(c, h, p, "NONE") = [c EXCEPT ![h] = end[h]]
      BY <2>3, <2>5, <2>8, <2>9, Zenon DEF Cell
    <3>2. \A k \in TxHashes : [c EXCEPT ![h] = end[h]][k] = part(S)[k]
      BY <2>3, <2>6, <2>7, <2>8, <2>9, Zenon
    <3>3. [c EXCEPT ![h] = end[h]] = [k \in TxHashes |-> [c EXCEPT ![h] = end[h]][k]]
      BY <2>9, Zenon
    <3> QED  BY <2>7, <3>1, <3>2, <3>3, Zenon
  <2>13. CASE c[h][p] = "NONE"
    <3>1. Cell(c, h, p, "NONE") = c
      <4>1. [c[h] EXCEPT ![p] = "NONE"] = c[h]
        BY <2>8, <2>9, <2>13, Zenon DEF Rows
      <4> QED  BY <2>3, <2>9, <4>1, Zenon DEF Cell
    <3> QED  BY <2>1, <2>2, <2>10, <2>11, <2>12, <2>13, <3>1, Zenon DEF CompletedAndErased
  <2>14. CASE c[h][p] # "NONE"
    <3>1. Erase(Counted(c), h, p) = Counted(Cell(c, h, p, "NONE"))
      BY <2>3, <2>9, <2>14, EraseCounts, Zenon
    <3> QED  BY <2>1, <2>2, <2>10, <2>11, <2>12, <2>14, <3>1, Zenon DEF CompletedAndErased
  <2> QED  BY <2>13, <2>14, Zenon
<1>6. f = [S \in SUBSET its |->
             IF S = {} THEN t ELSE CompletedAndErased(f[S \ {e(S)}], e(S), p)]
  <2>1. g = [S \in SUBSET its |->
               IF S = {} THEN t ELSE CompletedAndErased(g[S \ {e(S)}], e(S), p)]
    <3>1. g = [S \in SUBSET its |-> g[S]]
      BY Zenon
    <3> HIDE DEF g, t, e, its
    <3> QED  BY <1>2, <1>5, <3>1, Zenon
  <2> HIDE DEF g, t, e, its
  <2> QED  BY <2>1, Zenon
<1>7. f[its] = g[its]
  <2>0. IsFiniteSet(its)
    BY FiniteAssumption, FS_Subset, Zenon
  <2> HIDE DEF f, g, t, its
  <2>1. f[{}] = g[{}]
    BY <1>2, <1>6, Zenon
  <2>2. ASSUME NEW S \in SUBSET its, S # {}
        PROVE  \E h \in S : f[S \ {h}] = g[S \ {h}] => f[S] = g[S]
    <3>1. e(S) \in S
      BY <2>2, Zenon
    <3> HIDE DEF e
    <3>2. f[S] = CompletedAndErased(f[S \ {e(S)}], e(S), p)
      BY <1>6, <2>2, Zenon
    <3>3. g[S] = CompletedAndErased(g[S \ {e(S)}], e(S), p)
      BY <1>5, <2>2, Zenon
    <3> QED  BY <3>1, <3>2, <3>3, Zenon
  <2> QED  BY <2>0, <2>1, <2>2, SameLoop, Zenon
<1>8. part(its) = end
  <2>1. ASSUME NEW h \in TxHashes, h \notin its  PROVE end[h] = st[h]
    <3>1. st[h] \in Rows /\ st[h][p] = "NONE"
      BY <1>0, <2>1, Zenon
    <3>2. end[h] = [st[h] EXCEPT ![p] = "NONE"]
      BY <3>1, Zenon DEF DisconnectIndex, ResponseIndex
    <3> QED  BY <3>1, <3>2, Zenon DEF Rows
  <2>2. end = [h \in TxHashes |-> end[h]]
    BY Zenon DEF DisconnectIndex
  <2> HIDE DEF its, end
  <2> QED  BY <2>1, <2>2, Zenon
<1>9. g[its] = Counted(part(its))
  <2> HIDE DEF part, its
  <2> QED  BY Zenon
<1> QED  BY <1>1, <1>7, <1>8, <1>9, Zenon

\* The hashes of a getdata, one by one: asked for, or forgotten (SendMessages).
LEMMA RequestCounts ==
    ASSUME NEW st \in [TxHashes -> Rows], NEW p \in Peers, NEW W \in SUBSET TxHashes,
           \A h \in W : st[h][p] = "BEST",
           NEW asked,
           asked = [h \in TxHashes |->
                      IF h \in W \ have THEN RequestIndex(st, h, p)[h] ELSE st[h]]
    PROVE  Request(Counted(st), p, W) = Counted(ForgetAll(asked, W \cap have))
<1> DEFINE t == Counted(st)
           end == ForgetAll(asked, W \cap have)
           part(S) == [h \in TxHashes |-> IF h \in S THEN end[h] ELSE st[h]]
           e(S) == CHOOSE h \in S : TRUE
           step(u, h) == IF h \in have THEN ForgetTxHash(u, h) ELSE RequestedTx(u, h, p)
           g == [S \in SUBSET W |-> Counted(part(S))]
           f == CHOOSE f : f = [S \in SUBSET W |->
                                  IF S = {} THEN t ELSE step(f[S \ {e(S)}], e(S))]
<1>1. Request(t, p, W) = f[W]
  BY Zenon DEF Request
<1>2. g[{}] = t
  <2>1. part({}) = st
    BY Zenon
  <2> QED  BY <2>1, Zenon
<1>3. /\ \A h \in W \cap have : end[h] = [q \in Peers |-> "NONE"]
      /\ \A h \in W \ have : end[h] = [st[h] EXCEPT ![p] = "REQUESTED"]
      /\ \A h \in TxHashes \ W : end[h] = st[h]
      /\ end = [h \in TxHashes |-> end[h]]
  <2>1. \A h \in W \ have : RequestIndex(st, h, p)[h] = [st[h] EXCEPT ![p] = "REQUESTED"]
    BY Zenon DEF RequestIndex, Rows
  <2>2. \A h \in W : asked[h] = IF h \in have THEN st[h] ELSE [st[h] EXCEPT ![p] = "REQUESTED"]
    BY <2>1, Zenon
  <2>3. \A h \in W \cap have : ForgetIndex(asked, h)[h] = [q \in Peers |-> "NONE"]
    BY Zenon DEF ForgetIndex
  <2>4. \A h \in W \cap have : end[h] = [q \in Peers |-> "NONE"]
    BY <2>3, Zenon DEF ForgetAll
  <2>5. \A h \in TxHashes \ (W \cap have) : end[h] = asked[h]
    BY Zenon DEF ForgetAll
  <2>6. end = [h \in TxHashes |-> end[h]]
    BY Zenon DEF ForgetAll
  <2> HIDE DEF end
  <2> QED  BY <2>2, <2>4, <2>5, <2>6, Zenon
<1> HIDE DEF end
<1>4. \A h \in TxHashes : end[h] \in Rows
  <2>1. {"NONE", "REQUESTED"} \subseteq States
    BY Zenon DEF States
  <2>2. \A h \in TxHashes : st[h] \in [Peers -> States]
    BY Zenon DEF Rows
  <2>3. \A h \in TxHashes : [st[h] EXCEPT ![p] = "REQUESTED"] \in [Peers -> States]
    BY <2>1, <2>2, Zenon
  <2>4. [q \in Peers |-> "NONE"] \in [Peers -> States]
    BY <2>1, Zenon
  <2>5. \A h \in TxHashes : h \in W \cap have \/ h \in W \ have \/ h \in TxHashes \ W
    BY Zenon
  <2> QED  BY <1>3, <2>2, <2>3, <2>4, <2>5 DEF Rows
<1>5. \A S : part(S) \in [TxHashes -> Rows]
  BY <1>4, Zenon
<1>6. ASSUME NEW S \in SUBSET W, S # {}
      PROVE  g[S] = step(g[S \ {e(S)}], e(S))
  <2>1. PICK h : h = e(S) /\ h \in S
    BY <1>6, Zenon
  <2> DEFINE cur == part(S \ {h})
  <2>2. g[S \ {h}] = Counted(cur) /\ g[S] = Counted(part(S))
    <3> HIDE DEF part
    <3> QED  BY <1>6, Zenon
  <2>3. h \in TxHashes /\ cur \in [TxHashes -> Rows] /\ st[h][p] = "BEST"
    <3> HIDE DEF part
    <3> QED  BY <1>5, <1>6, <2>1, Zenon
  <2>4. cur[h] = st[h] /\ part(S) = [cur EXCEPT ![h] = end[h]]
    BY <2>1, <2>3, Zenon
  <2> HIDE DEF cur, part, g, e
  <2>5. Counted(cur).index = cur
    BY Zenon DEF Counted
  <2>6. CASE h \in have
    <3>1. ForgetTxHash(Counted(cur), h) = Counted(ForgetIndex(cur, h))
      BY <2>3, ForgetCounts, Zenon
    <3>2. ForgetIndex(cur, h) = part(S)
      BY <1>3, <1>6, <2>1, <2>4, <2>6, Zenon DEF ForgetIndex
    <3> QED  BY <2>1, <2>2, <2>6, <3>1, <3>2, Zenon
  <2>7. CASE h \notin have
    <3>1. cur[h][p] = "BEST"
      BY <2>3, <2>4, Zenon
    <3>2. RequestedTx(Counted(cur), h, p) = Modify(Counted(cur), h, p, "REQUESTED")
      BY <2>5, <3>1, Zenon DEF RequestedTx, Candidate
    <3>3. Modify(Counted(cur), h, p, "REQUESTED") = Counted(Cell(cur, h, p, "REQUESTED"))
      BY <2>3, <3>1, Live, ModifyCounts, Zenon
    <3>4. Cell(cur, h, p, "REQUESTED") = part(S)
      BY <1>3, <1>6, <2>1, <2>4, <2>7, Zenon DEF Cell
    <3> QED  BY <2>1, <2>2, <2>7, <3>2, <3>3, <3>4, Zenon
  <2> QED  BY <2>6, <2>7, Zenon
<1>7. f = [S \in SUBSET W |-> IF S = {} THEN t ELSE step(f[S \ {e(S)}], e(S))]
  <2>1. g = [S \in SUBSET W |-> IF S = {} THEN t ELSE step(g[S \ {e(S)}], e(S))]
    <3>1. g = [S \in SUBSET W |-> g[S]]
      BY Zenon
    <3> HIDE DEF g, t, e, step
    <3> QED  BY <1>2, <1>6, <3>1, Zenon
  <2> HIDE DEF g, t, e, step
  <2> QED  BY <2>1, Zenon
<1>8. f[W] = g[W]
  <2>0. IsFiniteSet(W)
    BY FiniteAssumption, FS_Subset, Zenon
  <2> HIDE DEF f, g, t, step
  <2>1. f[{}] = g[{}]
    BY <1>2, <1>7, Zenon
  <2>2. ASSUME NEW S \in SUBSET W, S # {}
        PROVE  \E h \in S : f[S \ {h}] = g[S \ {h}] => f[S] = g[S]
    <3>1. e(S) \in S
      BY <2>2, Zenon
    <3> HIDE DEF e
    <3>2. f[S] = step(f[S \ {e(S)}], e(S))
      BY <1>7, <2>2, Zenon
    <3>3. g[S] = step(g[S \ {e(S)}], e(S))
      BY <1>6, <2>2, Zenon
    <3> QED  BY <3>1, <3>2, <3>3, Zenon
  <2> QED  BY <2>0, <2>1, <2>2, SameLoop, Zenon
<1>9. part(W) = end
  BY <1>3, Zenon
<1>10. g[W] = Counted(part(W))
  <2> HIDE DEF part
  <2> QED  BY Zenon
<1> QED  BY <1>1, <1>8, <1>9, <1>10, Zenon DEF end

\* Forgetting one hash, or two of them, one after the other.
LEMMA ForgetsCount ==
    ASSUME NEW st \in [TxHashes -> Rows], NEW h \in TxHashes, NEW k \in TxHashes
    PROVE  /\ ForgetTxHash(Counted(st), h) = Counted(ForgetAll(st, {h}))
           /\ ForgetTxHash(ForgetTxHash(Counted(st), h), k) = Counted(ForgetAll(st, {h, k}))
           /\ ForgetAll(st, {}) = st
<1> DEFINE one == ForgetIndex(st, h)
           two == ForgetIndex(one, k)
           none == [q \in Peers |-> "NONE"]
<1>1. one = [st EXCEPT ![h] = none] /\ two = [one EXCEPT ![k] = none]
  BY Zenon DEF ForgetIndex
<1>2. none \in Rows
  BY Zenon DEF Rows, States
<1>3. one \in [TxHashes -> Rows]
  <2> HIDE DEF none, one
  <2> QED  BY <1>1, <1>2, Zenon
<1>4. ForgetTxHash(Counted(st), h) = Counted(one)
  BY ForgetCounts, Zenon
<1>5. ForgetTxHash(Counted(one), k) = Counted(two)
  <2> HIDE DEF one
  <2> QED  BY <1>3, ForgetCounts, Zenon
<1>6. \A W : ForgetAll(st, W) = [g \in TxHashes |-> IF g \in W THEN none ELSE st[g]]
  <2>1. \A g \in TxHashes : ForgetIndex(st, g)[g] = none
    BY Zenon DEF ForgetIndex
  <2> HIDE DEF none
  <2> QED  BY <2>1, Zenon DEF ForgetAll
<1> HIDE DEF one, two, none
<1>7. ForgetAll(st, {h}) = one
  <2>1. \A g \in TxHashes : one[g] = IF g \in {h} THEN none ELSE st[g]
    BY <1>1, Zenon
  <2>2. ForgetAll(st, {h}) = [g \in TxHashes |-> IF g \in {h} THEN none ELSE st[g]]
    BY <1>6, Zenon
  <2>3. one = [g \in TxHashes |-> one[g]]
    BY <1>3, Zenon
  <2> QED  BY <2>1, <2>2, <2>3, Zenon
<1>8. ForgetAll(st, {h, k}) = two
  <2>1. \A g \in TxHashes : two[g] = IF g \in {h, k} THEN none ELSE st[g]
    BY <1>1, <1>3, Zenon
  <2>2. two = [g \in TxHashes |-> two[g]]
    BY <1>1, <1>3, Zenon
  <2>3. ForgetAll(st, {h, k}) = [g \in TxHashes |-> IF g \in {h, k} THEN none ELSE st[g]]
    BY <1>6, Zenon
  <2> QED  BY <2>1, <2>2, <2>3, Zenon
<1>9. ForgetAll(st, {}) = st
  <2>1. ForgetAll(st, {}) = [g \in TxHashes |-> IF g \in {} THEN none ELSE st[g]]
    BY <1>6, Zenon
  <2> QED  BY <2>1, Zenon
<1> QED  BY <1>4, <1>5, <1>7, <1>8, <1>9, Zenon

\* The tracker of a state has exact counters, and so has what it becomes.
LEMMA TrackerCounted == ASSUME IInv  PROVE m_txrequest = Counted(index) /\ Sane(index)
BY Zenon DEF IInv, m_txrequest, Counted

LEMMA BecomesMoves ==
    ASSUME NEW st, NEW d, Becomes(Counted(st), d)
    PROVE  Moves(st, d)
<1>1. Counted(st).index = st /\ Counted(st).info = Tallies(st)
  BY DEF Counted
<1> QED  BY <1>1, Zenon DEF Becomes, Moves

-----------------------------------------------------------------------------
(* What the handlers do to the index, the counters staying exact.          *)

\* FinalizeNode.
LEMMA FinalizeMoves ==
    ASSUME IInv, NEW p \in Peers, FinalizeNode(p)
    PROVE  Moves(DisconnectIndex(index, p), due)
<1>1. DisconnectedPeer(m_txrequest, p) = Counted(DisconnectIndex(index, p))
  BY TrackerCounted, DisconnectCounts, Zenon
<1>2. Becomes(Counted(DisconnectIndex(index, p)), due)
  BY <1>1, Zenon DEF FinalizeNode
<1> QED  BY <1>2, BecomesMoves, Zenon

\* An inv.
LEMMA InvMoves ==
    ASSUME IInv, NEW p \in Peers, NEW h \in TxHashes, Inv(p, h)
    PROVE  \E new \in SUBSET TxHashes :
              /\ \A g \in new : index[g][p] = "NONE"
              /\ Moves(InvIndex(index, p, new),
                       DueAt(p, new, Delay(p, p \in WtxidPeers, peerinfo)))
<1>1. PICK new \in NewAnnouncements(m_txrequest, p, {h}) :
         Becomes(AddTxAnnouncement(m_txrequest, p, new),
                 DueAt(p, new, Delay(p, p \in WtxidPeers, peerinfo)))
  BY Zenon DEF Inv
<1>2. m_txrequest.index = index
  BY DEF m_txrequest
<1>3. new \in SUBSET TxHashes /\ \A g \in new : index[g][p] = "NONE"
  BY <1>2, Zenon DEF NewAnnouncements
<1>4. AddTxAnnouncement(m_txrequest, p, new) = Counted(InvIndex(index, p, new))
  BY <1>3, TrackerCounted, AnnounceCounts, Zenon DEF Sane
<1>5. Becomes(Counted(InvIndex(index, p, new)),
              DueAt(p, new, Delay(p, p \in WtxidPeers, peerinfo)))
  BY <1>1, <1>4, Zenon
<1> QED  BY <1>3, <1>5, BecomesMoves, Zenon

\* The answer to both hashes of a transaction.
LEMMA AnsweredCounts ==
    ASSUME IInv, NEW p \in Peers, NEW tx \in Txs
    PROVE  /\ Answered(p, tx) = Counted(AnsweredIndex(p, tx))
           /\ Sane(AnsweredIndex(p, tx)) /\ Fewer(index, AnsweredIndex(p, tx))
           /\ tx.txid \in TxHashes /\ tx.wtxid \in TxHashes /\ tx.parents \in SUBSET TxHashes
           /\ Hashes(tx) \in SUBSET TxHashes
<1> DEFINE one == ResponseIndex(index, tx.txid, p)
           two == ResponseIndex(one, tx.wtxid, p)
<1>1. /\ tx.txid \in TxHashes /\ tx.wtxid \in TxHashes /\ tx.parents \in SUBSET TxHashes
      /\ Hashes(tx) \in SUBSET TxHashes
  BY DelayAssumption, Zenon DEF Hashes
<1>2. m_txrequest = Counted(index) /\ Sane(index)
  BY TrackerCounted, Zenon
<1>3. Sane(one) /\ Fewer(index, one) /\ ReceivedResponse(Counted(index), tx.txid, p) = Counted(one)
  BY <1>1, <1>2, ResponseKeeps, ResponseCounts, Zenon
<1>4. Sane(two) /\ Fewer(one, two) /\ ReceivedResponse(Counted(one), tx.wtxid, p) = Counted(two)
  <2> HIDE DEF one
  <2> QED  BY <1>1, <1>3, ResponseKeeps, ResponseCounts, Zenon
<1>5. AnsweredIndex(p, tx) = two
  BY Zenon DEF AnsweredIndex
<1> HIDE DEF one, two
<1>6. Fewer(index, two)
  BY <1>3, <1>4, Zenon DEF Fewer
<1> QED  BY <1>1, <1>2, <1>3, <1>4, <1>5, <1>6, Zenon DEF Answered

\* A tx message that settles the transaction, or does not.
LEMMA TxSettledMoves ==
    ASSUME IInv, NEW p \in Peers, NEW tx \in Txs,
           NEW verdict \in {"known", "final", "rejected", "stripped"}, TxSettled(p, tx, verdict)
    PROVE  \E settled \in SUBSET Hashes(tx) :
              /\ Moves(ForgetAll(AnsweredIndex(p, tx), settled), due)
              /\ have' = have \cup settled
<1> DEFINE a == AnsweredIndex(p, tx)
<1>1. /\ Answered(p, tx) = Counted(a) /\ a \in [TxHashes -> Rows]
      /\ tx.txid \in TxHashes /\ tx.wtxid \in TxHashes
  BY AnsweredCounts, Zenon DEF Sane
<1> HIDE DEF a
<1>2. ASSUME NEW settled \in SUBSET Hashes(tx), Becomes(Counted(ForgetAll(a, settled)), due),
             have' = have \cup settled
      PROVE  \E s \in SUBSET Hashes(tx) : Moves(ForgetAll(a, s), due) /\ have' = have \cup s
  BY <1>2, BecomesMoves, Zenon
<1>3. CASE verdict = "final"
  <2>1. Becomes(Forget(Answered(p, tx), tx), due) /\ have' = have \cup Hashes(tx)
    BY <1>3, Zenon DEF TxSettled
  <2>2. Forget(Answered(p, tx), tx) = Counted(ForgetAll(a, Hashes(tx)))
    <3>1. ForgetTxHash(ForgetTxHash(Counted(a), tx.txid), tx.wtxid)
              = Counted(ForgetAll(a, {tx.txid, tx.wtxid}))
      BY <1>1, ForgetsCount, Zenon
    <3> QED  BY <1>1, <3>1, Zenon DEF Forget, Hashes
  <2> QED  BY <1>2, <2>1, <2>2, Zenon DEF a
<1>4. CASE verdict = "rejected"
  <2>1. Becomes(ForgetTxHash(Answered(p, tx), tx.wtxid), due) /\ have' = have \cup {tx.wtxid}
    BY <1>4, Zenon DEF TxSettled
  <2>2. ForgetTxHash(Answered(p, tx), tx.wtxid) = Counted(ForgetAll(a, {tx.wtxid}))
    BY <1>1, ForgetsCount, Zenon
  <2>3. {tx.wtxid} \in SUBSET Hashes(tx)
    BY Zenon DEF Hashes
  <2> QED  BY <1>2, <2>1, <2>2, <2>3, Zenon DEF a
<1>5. CASE verdict \in {"stripped", "known"}
  <2>1. Becomes(Answered(p, tx), due) /\ have' = have \cup {}
    BY <1>5, Zenon DEF TxSettled
  <2>2. Answered(p, tx) = Counted(ForgetAll(a, {}))
    BY <1>1, ForgetsCount, Zenon
  <2>3. {} \in SUBSET Hashes(tx)
    BY Zenon
  <2> QED  BY <1>2, <2>1, <2>2, <2>3, Zenon DEF a
<1> QED  BY <1>3, <1>4, <1>5, Zenon

\* One whose parents are missing.
LEMMA TxOrphanMoves ==
    ASSUME IInv, NEW p \in Peers, NEW tx \in Txs, TxOrphan(p, tx)
    PROVE  \E new \in SUBSET TxHashes :
              /\ \A h \in new : AnsweredIndex(p, tx)[h][p] = "NONE"
              /\ Moves(ForgetAll(InvIndex(AnsweredIndex(p, tx), p, new), Hashes(tx)),
                       DueAt(p, new, Delay(p, FALSE, Answered(p, tx).info)))
<1> DEFINE a == AnsweredIndex(p, tx)
           answered == Answered(p, tx)
           time == Delay(p, FALSE, answered.info)
<1>1. /\ answered = Counted(a) /\ a \in [TxHashes -> Rows] /\ Sane(a)
      /\ tx.txid \in TxHashes /\ tx.wtxid \in TxHashes /\ tx.parents \in SUBSET TxHashes
  BY AnsweredCounts, Zenon DEF Sane
<1>2. PICK new \in NewAnnouncements(answered, p, tx.parents \ have) :
         Becomes(Forget(AddTxAnnouncement(answered, p, new), tx), DueAt(p, new, time))
  BY Zenon DEF TxOrphan
<1> HIDE DEF a, answered, time
<1>3. answered.index = a
  BY <1>1, Zenon DEF Counted
<1>4. new \in SUBSET TxHashes /\ \A h \in new : a[h][p] = "NONE"
  BY <1>1, <1>3, Zenon DEF NewAnnouncements
<1> DEFINE inv == InvIndex(a, p, new)
<1>5. AddTxAnnouncement(answered, p, new) = Counted(inv) /\ inv \in [TxHashes -> Rows]
  <2>1. AddTxAnnouncement(Counted(a), p, new) = Counted(inv)
    BY <1>1, <1>4, AnnounceCounts, Zenon
  <2>2. Sane(inv)
    BY <1>1, <1>4, InvKeeps, Zenon
  <2> HIDE DEF inv
  <2> QED  BY <1>1, <2>1, <2>2, Zenon DEF Sane
<1> HIDE DEF inv
<1>6. Forget(Counted(inv), tx) = Counted(ForgetAll(inv, Hashes(tx)))
  BY <1>1, <1>5, ForgetsCount, Zenon DEF Forget, Hashes
<1>7. Moves(ForgetAll(inv, Hashes(tx)), DueAt(p, new, time))
  BY <1>2, <1>5, <1>6, BecomesMoves, Zenon
<1> QED  BY <1>4, <1>7, Zenon DEF a, inv, time, answered

\* A notfound message.
LEMMA NotFoundMoves ==
    ASSUME IInv, NEW p \in Peers, NEW h \in TxHashes, NotFound(p, h)
    PROVE  Moves(ResponseIndex(index, h, p), due)
<1>1. ReceivedResponse(m_txrequest, h, p) = Counted(ResponseIndex(index, h, p))
  BY TrackerCounted, ResponseCounts, Zenon
<1>2. Becomes(Counted(ResponseIndex(index, h, p)), due)
  BY <1>1, Zenon DEF NotFound
<1> QED  BY <1>2, BecomesMoves, Zenon

\* A round of SetTimePoint's first loop.
LEMMA PastMoves ==
    ASSUME IInv, NEW p \in Peers, SetTimePointPast(p)
    PROVE  \E h \in TxHashes, q \in Peers :
              /\ Past(h, q) /\ have' = have
              /\ Moves(IF index[h][q] = "DELAYED" THEN PromoteIndex(index, h, q)
                                                  ELSE CompleteIndex(index, h, q), due)
<1>1. PICK h \in TxHashes, q \in Peers :
         /\ Past(h, q) /\ have' = have
         /\ Becomes(IF index[h][q] = "DELAYED" THEN PromoteCandidateReady(m_txrequest, h, q)
                                               ELSE MakeCompleted(m_txrequest, h, q), due)
  BY Zenon DEF SetTimePointPast
<1>2. m_txrequest = Counted(index) /\ Sane(index) /\ index \in [TxHashes -> Rows]
  BY TrackerCounted, Zenon DEF Sane
<1>3. CASE index[h][q] = "DELAYED"
  <2>1. Becomes(PromoteCandidateReady(m_txrequest, h, q), due)
    BY <1>1, <1>3, Zenon
  <2>2. PromoteCandidateReady(Counted(index), h, q) = Counted(PromoteIndex(index, h, q))
    BY <1>2, <1>3, PromoteCounts, Zenon
  <2>3. Moves(PromoteIndex(index, h, q), due)
    BY <1>2, <2>1, <2>2, BecomesMoves, Zenon
  <2> QED  BY <1>1, <1>3, <2>3, Zenon
<1>4. CASE index[h][q] # "DELAYED"
  <2>1. Becomes(MakeCompleted(m_txrequest, h, q), due) /\ index[h][q] # "NONE"
    BY <1>1, <1>4, Zenon DEF Past, Waiting
  <2>2. MakeCompleted(Counted(index), h, q) = Counted(CompleteIndex(index, h, q))
    BY <1>2, <2>1, CompleteCounts, Zenon
  <2>3. Moves(CompleteIndex(index, h, q), due)
    BY <1>2, <2>1, <2>2, BecomesMoves, Zenon
  <2> QED  BY <1>1, <1>4, <2>3, Zenon
<1> QED  BY <1>3, <1>4, Zenon

\* And of its second.
LEMMA FutureMoves ==
    ASSUME IInv, NEW p \in Peers, SetTimePointFuture(p)
    PROVE  \E h \in TxHashes, q \in Peers :
              /\ Future(h, q) /\ have' = have
              /\ Moves(ChangeIndex(index, h, q, "DELAYED"), due)
<1>1. PICK h \in TxHashes, q \in Peers :
         /\ Future(h, q) /\ have' = have
         /\ Becomes(ChangeAndReselect(m_txrequest, h, q, "DELAYED"), due)
  BY Zenon DEF SetTimePointFuture
<1>2. index[h][q] # "NONE"
  BY <1>1, Zenon DEF Future, Selectable
<1>3. ChangeAndReselect(Counted(index), h, q, "DELAYED")
          = Counted(ChangeIndex(index, h, q, "DELAYED"))
  <2>1. "DELAYED" \in {"DELAYED", "COMPLETED"}
    BY Zenon
  <2> QED  BY <1>2, <2>1, TrackerCounted, ChangeCounts, Zenon
<1>4. Moves(ChangeIndex(index, h, q, "DELAYED"), due)
  BY <1>1, <1>3, TrackerCounted, BecomesMoves, Zenon
<1> QED  BY <1>1, <1>4, Zenon

\* The getdata.
LEMMA GetdataMoves ==
    ASSUME IInv, NEW p \in Peers, SendGetdata(p),
           NEW best, best = GetRequestable(p), NEW asked,
           asked = [h \in TxHashes |->
                      IF h \in best \ have THEN RequestIndex(index, h, p)[h] ELSE index[h]]
    PROVE  Moves(ForgetAll(asked, best \cap have), DueAt(p, best \ have, GetdataInterval))
<1>1. best \in SUBSET TxHashes /\ \A h \in best : index[h][p] = "BEST"
  BY Zenon DEF GetRequestable
<1>2. m_txrequest = Counted(index) /\ index \in [TxHashes -> Rows]
  BY TrackerCounted, Zenon DEF Sane
<1>3. Request(Counted(index), p, best) = Counted(ForgetAll(asked, best \cap have))
  BY <1>1, <1>2, RequestCounts
<1>4. Becomes(Request(m_txrequest, p, best), DueAt(p, best \ have, GetdataInterval))
  BY Zenon DEF SendGetdata
<1> QED  BY <1>2, <1>3, <1>4, BecomesMoves, Zenon

\* A block.
LEMMA BlockMoves ==
    ASSUME IInv, NEW tx \in Txs, BlockConnected(tx)
    PROVE  Moves(ForgetAll(index, Hashes(tx)), due) /\ Hashes(tx) \in SUBSET TxHashes
<1>1. tx.txid \in TxHashes /\ tx.wtxid \in TxHashes
  BY DelayAssumption, Zenon
<1>2. m_txrequest = Counted(index) /\ index \in [TxHashes -> Rows]
  BY TrackerCounted, Zenon DEF Sane
<1>3. Forget(Counted(index), tx) = Counted(ForgetAll(index, Hashes(tx)))
  BY <1>1, <1>2, ForgetsCount, Zenon DEF Forget, Hashes
<1>4. Becomes(Forget(m_txrequest, tx), due)
  BY Zenon DEF BlockConnected
<1>5. Hashes(tx) \in SUBSET TxHashes
  BY <1>1, Zenon DEF Hashes
<1> QED  BY <1>2, <1>3, <1>4, <1>5, BecomesMoves, Zenon

\* A step of the tracker: the types of what it leaves behind.
LEMMA MovesKeeps ==
    ASSUME NEW st, Sane(st), NEW d \in [TxHashes -> [Peers -> Int]], Moves(st, d)
    PROVE  /\ index' = st /\ Sane(index)' /\ peerinfo' = Tallies(index')
           /\ index' \in [TxHashes -> [Peers -> States]]
           /\ due' \in [TxHashes -> [Peers -> Int]]
           /\ peerinfo' \in [Peers -> [total : Nat, requested : Nat, completed : Nat]]
<1>1. index' = st /\ st \in [TxHashes -> Rows] /\ peerinfo' = Tallies(st)
  BY Zenon DEF Moves, Sane
<1>2. due' \in [TxHashes -> [Peers -> Int]]
  BY DEF Moves, Timed
<1>3. Tallies(st) \in [Peers -> [total : Nat, requested : Nat, completed : Nat]]
  BY <1>1, TalliesType, Zenon
<1> QED  BY <1>1, <1>2, <1>3, Zenon DEF Rows, Sane

\* The times of new announcements and requests are numbers (DueAt).
LEMMA DueType ==
    ASSUME IInv, NEW p \in Peers, NEW W, NEW time \in Int
    PROVE  DueAt(p, W, time) \in [TxHashes -> [Peers -> Int]]
<1>1. \A h \in TxHashes : due[h] \in [Peers -> Int]
  BY Zenon DEF IInv, TypeOK
<1>2. \A h \in TxHashes : [due[h] EXCEPT ![p] = time] \in [Peers -> Int]
  BY <1>1, Zenon
<1> QED  BY <1>1, <1>2, Zenon DEF DueAt

\* So are the delays (AddTxAnnouncement).
LEMMA DelayType ==
    ASSUME NEW p, NEW b, NEW info
    PROVE  Delay(p, b, info) \in Int
BY DelayAssumption, SMTT(60) DEF Delay

-----------------------------------------------------------------------------
(* Every step keeps the inductive invariant.                               *)

\* A step of the tracker after which only connected peers have announcements.
LEMMA TrackerKeeps ==
    ASSUME IInv, NEW st, Sane(st), NEW d \in [TxHashes -> [Peers -> Int]], Moves(st, d),
           connected' \subseteq Peers, gone' \subseteq Peers, UNCHANGED setbacks,
           have' \subseteq TxHashes, sending' \in Peers \cup {NoPeer},
           \A h \in TxHashes, q \in Peers \ connected' : st[h][q] = "NONE"
    PROVE  IInv'
<1>1. /\ index' = st /\ Sane(index)' /\ peerinfo' = Tallies(index')
      /\ index' \in [TxHashes -> [Peers -> States]]
      /\ due' \in [TxHashes -> [Peers -> Int]]
      /\ peerinfo' \in [Peers -> [total : Nat, requested : Nat, completed : Nat]]
  BY MovesKeeps, Zenon
<1>2. TypeOK'
  BY <1>1, Zenon DEF IInv, TypeOK
<1>3. NobodyElse'
  BY <1>1, Zenon DEF NobodyElse
<1> QED  BY <1>1, <1>2, <1>3, Zenon DEF IInv

\* One that brings no announcement in and leaves the connections alone (most
\* handlers).
LEMMA FewerKeeps ==
    ASSUME IInv, NEW st, Sane(st), Fewer(index, st),
           NEW d \in [TxHashes -> [Peers -> Int]], Moves(st, d),
           UNCHANGED <<connected, gone, setbacks>>,
           have' \subseteq TxHashes, sending' \in Peers \cup {NoPeer}
    PROVE  IInv'
<1>1. \A h \in TxHashes, q \in Peers \ connected' : st[h][q] = "NONE"
  BY Zenon DEF IInv, NobodyElse, Fewer
<1>2. connected' \subseteq Peers /\ gone' \subseteq Peers /\ UNCHANGED setbacks
  BY Zenon DEF IInv, TypeOK
<1> QED  BY <1>1, <1>2, TrackerKeeps, Zenon

\* Two changes that bring nothing in bring nothing in together.
LEMMA FewerChains ==
    ASSUME NEW a, NEW b, NEW c, Fewer(a, b), Fewer(b, c)
    PROVE  Fewer(a, c)
BY Zenon DEF Fewer

\* A step that leaves the tracker alone but for the times (Tick, Submitted, ...).
LEMMA IndexKeeps ==
    ASSUME IInv, UNCHANGED <<index, peerinfo, connected, gone>>,
           due' \in [TxHashes -> [Peers -> Int]], have' \subseteq TxHashes,
           sending' \in Peers \cup {NoPeer}, setbacks' \in 0 .. MaxSetBack
    PROVE  IInv'
BY Zenon DEF IInv, TypeOK, NobodyElse, Sane, Tallies, Tally

\* Connections (InitializeNode, FinalizeNode).
LEMMA ConnectionsKeep ==
    ASSUME IInv, NEW p \in Peers, InitializeNode(p) \/ FinalizeNode(p)
    PROVE  IInv'
<1>1. CASE InitializeNode(p)
  <2>1. connected' = connected \cup {p} /\ connected' \subseteq Peers
    BY <1>1, Zenon DEF InitializeNode, IInv, TypeOK
  <2> QED  BY <1>1, <2>1, ZenonT(60)
              DEF InitializeNode, IInv, TypeOK, NobodyElse, Sane, Tallies, Tally
<1>2. CASE FinalizeNode(p)
  <2> DEFINE st == DisconnectIndex(index, p)
  <2>1. Sane(st) /\ Fewer(index, st) /\ \A h \in TxHashes : st[h][p] = "NONE"
    BY DisconnectKeeps, Zenon DEF IInv
  <2> HIDE DEF st
  <2>2. Moves(st, due) /\ connected' = connected \ {p}
    BY <1>2, FinalizeMoves, Zenon DEF FinalizeNode, st
  <2>3. \A h \in TxHashes, q \in Peers \ connected' : st[h][q] = "NONE"
    BY <2>1, <2>2, Zenon DEF IInv, NobodyElse, Fewer
  <2>4. /\ due \in [TxHashes -> [Peers -> Int]]
        /\ connected' \subseteq Peers /\ gone' \subseteq Peers /\ UNCHANGED setbacks
        /\ have' \subseteq TxHashes /\ sending' \in Peers \cup {NoPeer}
    BY <1>2, Zenon DEF FinalizeNode, IInv, TypeOK
  <2> QED  BY <2>1, <2>2, <2>3, <2>4, TrackerKeeps, Zenon
<1> QED  BY <1>1, <1>2, Zenon

\* An inv (Inv).
LEMMA InvStepKeeps ==
    ASSUME IInv, NEW p \in Peers, NEW h \in TxHashes, Inv(p, h)
    PROVE  IInv'
<1>1. PICK new \in SUBSET TxHashes :
         /\ \A g \in new : index[g][p] = "NONE"
         /\ Moves(InvIndex(index, p, new), DueAt(p, new, Delay(p, p \in WtxidPeers, peerinfo)))
  BY InvMoves, Zenon
<1> DEFINE st == InvIndex(index, p, new)
           d == DueAt(p, new, Delay(p, p \in WtxidPeers, peerinfo))
<1>2. Sane(st) /\ \A g \in TxHashes, q \in Peers \ {p} : st[g][q] = index[g][q]
  BY <1>1, InvKeeps, Zenon DEF IInv
<1>3. d \in [TxHashes -> [Peers -> Int]]
  BY DelayType, DueType, Zenon
<1>4. Moves(st, d)
  BY <1>1, Zenon
<1> HIDE DEF st, d
<1>5. /\ p \in connected /\ connected' = connected
      /\ connected' \subseteq Peers /\ gone' \subseteq Peers /\ UNCHANGED setbacks
      /\ have' \subseteq TxHashes /\ sending' \in Peers \cup {NoPeer}
  BY Zenon DEF Inv, IInv, TypeOK
<1>6. \A g \in TxHashes, q \in Peers \ connected' : st[g][q] = "NONE"
  BY <1>2, <1>5, Zenon DEF IInv, NobodyElse
<1> QED  BY <1>2, <1>3, <1>4, <1>5, <1>6, TrackerKeeps, Zenon

\* A tx message (ProcessMessage), whatever the node makes of the transaction.
LEMMA TxKeeps ==
    ASSUME IInv, NEW p \in Peers, NEW tx \in Txs, Tx(p, tx)
    PROVE  IInv'
<1>1. /\ tx.txid \in TxHashes /\ tx.wtxid \in TxHashes /\ tx.parents \in SUBSET TxHashes
      /\ Hashes(tx) \in SUBSET TxHashes
  BY AnsweredCounts, Zenon
<1>2. Sane(AnsweredIndex(p, tx)) /\ Fewer(index, AnsweredIndex(p, tx))
  BY AnsweredCounts, Zenon
<1>3. /\ p \in connected /\ UNCHANGED <<connected, gone, setbacks>>
      /\ connected' \subseteq Peers /\ gone' \subseteq Peers
      /\ sending' \in Peers \cup {NoPeer} /\ have \subseteq TxHashes
      /\ due \in [TxHashes -> [Peers -> Int]]
  BY Zenon DEF Tx, IInv, TypeOK
<1>4. ASSUME NEW verdict \in {"known", "final", "rejected", "stripped"},
             TxSettled(p, tx, verdict)
      PROVE  IInv'
  <2>0. PICK settled \in SUBSET Hashes(tx) :
           /\ Moves(ForgetAll(AnsweredIndex(p, tx), settled), due)
           /\ have' = have \cup settled
    BY <1>4, TxSettledMoves, Zenon
  <2> DEFINE st == ForgetAll(AnsweredIndex(p, tx), settled)
  <2>1. settled \in SUBSET TxHashes
    BY <1>1, Zenon
  <2>2. Moves(st, due) /\ have' = have \cup settled
    BY <2>0, Zenon
  <2>3. Sane(st) /\ Fewer(AnsweredIndex(p, tx), st)
    BY <1>2, <2>1, ForgetAllKeeps, Zenon
  <2> HIDE DEF st
  <2>4. Fewer(index, st)
    BY <1>2, <2>3, FewerChains, Zenon
  <2>5. have' \subseteq TxHashes
    BY <1>3, <2>1, <2>2, Zenon
  <2> QED  BY <1>3, <2>2, <2>3, <2>4, <2>5, FewerKeeps, Zenon
<1>5. ASSUME TxOrphan(p, tx)  PROVE IInv'
  <2> DEFINE answered == AnsweredIndex(p, tx)
             time == Delay(p, FALSE, Answered(p, tx).info)
  <2>1. PICK new \in SUBSET TxHashes :
           /\ \A h \in new : answered[h][p] = "NONE"
           /\ Moves(ForgetAll(InvIndex(answered, p, new), Hashes(tx)), DueAt(p, new, time))
    BY <1>5, TxOrphanMoves, Zenon
  <2>2. have' = have \cup Hashes(tx)
    BY <1>5, Zenon DEF TxOrphan
  <2> DEFINE inv == InvIndex(answered, p, new)
             st == ForgetAll(inv, Hashes(tx))
             d == DueAt(p, new, time)
  <2>3. Moves(st, d)
    BY <2>1, Zenon
  <2> HIDE DEF answered
  <2>4. d \in [TxHashes -> [Peers -> Int]]
    BY DelayType, DueType, Zenon
  <2>5. Sane(inv) /\ \A h \in TxHashes, q \in Peers \ {p} : inv[h][q] = answered[h][q]
    <3>1. Sane(answered)
      BY <1>2, Zenon DEF answered
    <3> QED  BY <2>1, <3>1, InvKeeps, Zenon
  <2> HIDE DEF inv, d, time
  <2>6. Sane(st) /\ Fewer(inv, st)
    BY <1>1, <2>5, ForgetAllKeeps, Zenon
  <2> HIDE DEF st
  <2>7. ASSUME NEW h \in TxHashes, NEW q \in Peers \ connected'  PROVE st[h][q] = "NONE"
    <3>1. q # p /\ index[h][q] = "NONE"
      BY <1>3, Zenon DEF IInv, NobodyElse
    <3>2. answered[h][q] = "NONE"
      BY <1>2, <3>1, Zenon DEF Fewer, answered
    <3> QED  BY <2>5, <2>6, <3>1, <3>2, Zenon DEF Fewer
  <2>8. have' \subseteq TxHashes
    BY <1>1, <1>3, <2>2, Zenon
  <2> QED  BY <1>3, <2>3, <2>4, <2>6, <2>7, <2>8, TrackerKeeps, Zenon
<1> QED  BY <1>4, <1>5, Zenon DEF Tx

\* A notfound message.
LEMMA NotFoundKeeps ==
    ASSUME IInv, NEW p \in Peers, NEW h \in TxHashes, NotFound(p, h)
    PROVE  IInv'
<1> DEFINE st == ResponseIndex(index, h, p)
<1>1. Sane(st) /\ Fewer(index, st)
  BY ResponseKeeps, Zenon DEF IInv
<1>2. /\ Moves(st, due) /\ UNCHANGED <<connected, gone, setbacks>>
      /\ have' \subseteq TxHashes /\ sending' \in Peers \cup {NoPeer}
      /\ due \in [TxHashes -> [Peers -> Int]]
  BY NotFoundMoves, Zenon DEF NotFound, IInv, TypeOK
<1> HIDE DEF st
<1> QED  BY <1>1, <1>2, FewerKeeps, Zenon

\* A round of SetTimePoint, of either loop.
LEMMA SetTimePointKeeps ==
    ASSUME IInv, NEW p \in Peers, SetTimePointPast(p) \/ SetTimePointFuture(p)
    PROVE  IInv'
<1>1. /\ UNCHANGED <<connected, gone, setbacks>>
      /\ have' \subseteq TxHashes /\ sending' \in Peers \cup {NoPeer}
      /\ due \in [TxHashes -> [Peers -> Int]] /\ Sane(index)
  BY Zenon DEF SetTimePointPast, SetTimePointFuture, IInv, TypeOK
<1>2. ASSUME NEW h \in TxHashes, NEW q \in Peers, Past(h, q),
             NEW st, st = IF index[h][q] = "DELAYED" THEN PromoteIndex(index, h, q)
                                                     ELSE CompleteIndex(index, h, q),
             Moves(st, due)
      PROVE  IInv'
  <2>1. Sane(st) /\ Fewer(index, st)
    <3>1. CASE index[h][q] = "DELAYED"
      BY <1>1, <1>2, <3>1, PromoteKeeps, Zenon
    <3>2. CASE index[h][q] # "DELAYED"
      <4>1. index[h][q] # "NONE"
        BY <1>2, Zenon DEF Past, Waiting
      <4> QED  BY <1>1, <1>2, <3>2, <4>1, CompleteKeeps, Zenon
    <3> QED  BY <3>1, <3>2, Zenon
  <2> QED  BY <1>1, <1>2, <2>1, FewerKeeps, ZenonT(60)
<1>3. ASSUME NEW h \in TxHashes, NEW q \in Peers, Future(h, q),
             NEW st, st = ChangeIndex(index, h, q, "DELAYED"), Moves(st, due)
      PROVE  IInv'
  <2>1. index[h][q] # "NONE"
    BY <1>3, Zenon DEF Future, Selectable
  <2>2. Sane(st) /\ Fewer(index, st)
    BY <1>1, <1>3, <2>1, ChangeKeeps, Zenon
  <2> QED  BY <1>1, <1>3, <2>2, FewerKeeps, Zenon
<1> QED  BY <1>2, <1>3, PastMoves, FutureMoves, Zenon

\* The getdata at the end of SendMessages.
LEMMA SendGetdataKeeps ==
    ASSUME IInv, NEW p \in Peers, SendGetdata(p)
    PROVE  IInv'
<1> DEFINE wanted == GetRequestable(p) \ have
           known == GetRequestable(p) \cap have
           asked == [h \in TxHashes |->
                       IF h \in wanted THEN RequestIndex(index, h, p)[h] ELSE index[h]]
           st == ForgetAll(asked, known)
           d == DueAt(p, wanted, GetdataInterval)
<1>1. Moves(st, d)
  BY GetdataMoves, Zenon
<1>2. /\ wanted \in SUBSET TxHashes /\ known \in SUBSET TxHashes
      /\ \A h \in wanted : index[h][p] = "BEST"
  BY Zenon DEF GetRequestable
<1>3. d \in [TxHashes -> [Peers -> Int]]
  BY DelayAssumption, DueType, SMTT(60)
<1> HIDE DEF wanted, known, d
<1>4. Sane(asked) /\ Fewer(index, asked)
  BY <1>2, RequestKeeps, Zenon DEF IInv
<1> HIDE DEF asked
<1>5. Sane(st) /\ Fewer(asked, st)
  BY <1>2, <1>4, ForgetAllKeeps, Zenon
<1> HIDE DEF st
<1>6. Fewer(index, st)
  BY <1>4, <1>5, FewerChains, Zenon
<1>7. /\ UNCHANGED <<connected, gone, setbacks>>
      /\ have' \subseteq TxHashes /\ sending' \in Peers \cup {NoPeer}
  BY Zenon DEF SendGetdata, IInv, TypeOK
<1> QED  BY <1>1, <1>3, <1>5, <1>6, <1>7, FewerKeeps, Zenon

\* What the node comes to know without a message (BlockConnected, Submitted).
LEMMA KnownKeeps ==
    ASSUME IInv, NEW tx \in Txs, BlockConnected(tx) \/ Submitted(tx)
    PROVE  IInv'
<1>1. Hashes(tx) \in SUBSET TxHashes
  BY DelayAssumption, Zenon DEF Hashes
<1>2. /\ UNCHANGED <<connected, gone, setbacks>> /\ setbacks' \in 0 .. MaxSetBack
      /\ have' \subseteq TxHashes /\ sending' \in Peers \cup {NoPeer}
      /\ due \in [TxHashes -> [Peers -> Int]] /\ Sane(index)
  BY <1>1, Zenon DEF BlockConnected, Submitted, IInv, TypeOK
<1>3. CASE BlockConnected(tx)
  <2> DEFINE st == ForgetAll(index, Hashes(tx))
  <2>1. Sane(st) /\ Fewer(index, st)
    BY <1>1, <1>2, ForgetAllKeeps, Zenon
  <2>2. Moves(st, due)
    BY <1>3, BlockMoves, Zenon
  <2> HIDE DEF st
  <2> QED  BY <1>2, <2>1, <2>2, FewerKeeps, Zenon
<1>4. CASE Submitted(tx)
  <2>1. UNCHANGED <<index, peerinfo, connected, gone>> /\ due' \in [TxHashes -> [Peers -> Int]]
    BY <1>2, <1>4, Zenon DEF Submitted
  <2> QED  BY <1>2, <2>1, IndexKeeps, Zenon
<1> QED  BY <1>3, <1>4, Zenon

\* The clock, forward and back (SetMockTime, GetTime).
LEMMA ClockKeeps ==
    ASSUME IInv, Tick \/ SetBack
    PROVE  IInv'
<1>1. PICK x \in {-1, 1} : MoveClock(x)
  BY Zenon DEF Tick, SetBack
<1>2. due \in [TxHashes -> [Peers -> Int]] /\ Furthest \in Int
  BY DelayAssumption, SMTT(60) DEF Furthest, IInv, TypeOK
<1>3. due' \in [TxHashes -> [Peers -> Int]]
  BY <1>1, <1>2, SMTT(60) DEF MoveClock, Timed
<1>4. setbacks' \in 0 .. MaxSetBack
  BY DelayAssumption, SMTT(60) DEF Tick, SetBack, IInv, TypeOK
<1>5. /\ UNCHANGED <<index, peerinfo, connected, gone>>
      /\ have' \subseteq TxHashes /\ sending' \in Peers \cup {NoPeer}
  BY <1>1, Zenon DEF MoveClock, IInv, TypeOK
<1> QED  BY <1>3, <1>4, <1>5, IndexKeeps, Zenon

\* The tracker starts empty (TxRequestTracker's constructor).
LEMMA InitKeeps == Init => IInv
<1> SUFFICES ASSUME Init  PROVE IInv
  BY Zenon
<1>1. Sane(index)
  <2>1. index \in [TxHashes -> Rows]
    BY Zenon DEF Init, Rows, States
  <2> QED  BY <2>1, Zenon DEF Init, Sane, Row, Selected, Candidate
<1>2. NobodyElse
  BY Zenon DEF Init, NobodyElse
<1>3. peerinfo = Tallies(index)
  <2>1. ASSUME NEW p \in Peers, NEW s, "NONE" \notin s  PROVE Tally(index, p, s) = 0
    <3>1. {h \in TxHashes : index[h][p] \in s} = {}
      BY <2>1, Zenon DEF Init
    <3> QED  BY <3>1, FS_EmptySet, Zenon DEF Tally
  <2>2. \A p \in Peers : /\ Tally(index, p, States \ {"NONE"}) = 0
                          /\ Tally(index, p, {"REQUESTED"}) = 0
                          /\ Tally(index, p, {"COMPLETED"}) = 0
    <3>1. "NONE" \notin {"REQUESTED"} /\ "NONE" \notin {"COMPLETED"}
          /\ "NONE" \notin States \ {"NONE"}
      BY Zenon
    <3> QED  BY <2>1, <3>1, Zenon
  <2> QED  BY <2>2, ZenonT(60) DEF Init, NoInfo, Tallies
<1>4. TypeOK
  BY <1>1, DelayAssumption DEF Init, NoInfo, TypeOK, Sane, Rows
<1> QED  BY <1>1, <1>2, <1>3, <1>4, Zenon DEF IInv

\* Every step of the node keeps the inductive invariant.
LEMMA NextKeeps == IInv /\ [Next]_vars => IInv'
<1> SUFFICES ASSUME IInv, [Next]_vars  PROVE IInv'
  BY Zenon
<1>1. ASSUME NEW p \in Peers, InitializeNode(p) \/ FinalizeNode(p)  PROVE IInv'
  BY <1>1, ConnectionsKeep, Zenon
<1>2. ASSUME NEW p \in Peers, SetTimePointPast(p) \/ SetTimePointFuture(p)  PROVE IInv'
  BY <1>2, SetTimePointKeeps, Zenon
<1>3. ASSUME NEW p \in Peers, SendGetdata(p)  PROVE IInv'
  BY <1>3, SendGetdataKeeps, Zenon
<1>4. ASSUME NEW p \in Peers, NEW tx \in Txs, Inv(p, AnnouncedBy(p, tx))  PROVE IInv'
  <2>1. AnnouncedBy(p, tx) \in TxHashes
    BY DelayAssumption, Zenon DEF AnnouncedBy
  <2> QED  BY <1>4, <2>1, InvStepKeeps, Zenon
<1>5. ASSUME NEW p \in Peers, NEW tx \in Txs, Tx(p, tx)  PROVE IInv'
  BY <1>5, TxKeeps, Zenon
<1>6. ASSUME NEW p \in Peers, NEW h \in TxHashes, NotFound(p, h)  PROVE IInv'
  BY <1>6, NotFoundKeeps, Zenon
<1>7. ASSUME NEW tx \in Txs, BlockConnected(tx) \/ Submitted(tx)  PROVE IInv'
  BY <1>7, KnownKeeps, Zenon
<1>8. ASSUME NEW h \in TxHashes, NoLongerKnown(h)  PROVE IInv'
  <2>1. /\ UNCHANGED <<index, peerinfo, connected, gone>>
        /\ due' \in [TxHashes -> [Peers -> Int]] /\ have' \subseteq TxHashes
        /\ sending' \in Peers \cup {NoPeer} /\ setbacks' \in 0 .. MaxSetBack
    BY <1>8, Zenon DEF NoLongerKnown, IInv, TypeOK
  <2> QED  BY <2>1, IndexKeeps, Zenon
<1>9. CASE Tick \/ SetBack
  BY <1>9, ClockKeeps, Zenon
<1>10. CASE UNCHANGED vars
  <2>1. /\ UNCHANGED <<index, peerinfo, connected, gone>>
        /\ due' \in [TxHashes -> [Peers -> Int]] /\ have' \subseteq TxHashes
        /\ sending' \in Peers \cup {NoPeer} /\ setbacks' \in 0 .. MaxSetBack
    BY <1>10, Zenon DEF vars, IInv, TypeOK
  <2> QED  BY <2>1, IndexKeeps, Zenon
<1> QED  BY <1>1, <1>2, <1>3, <1>4, <1>5, <1>6, <1>7, <1>8, <1>9, <1>10, Zenon DEF Next

-----------------------------------------------------------------------------
(***************************************************************************)
(* For any peers, transactions, delays and limits, and any order of        *)
(* announcements, answers, expiries, disconnections and clock changes, the *)
(* index keeps what TxRequestTracker::SanityCheck asserts: never two peers *)
(* asked at once for one hash, no ready announcement without a selected    *)
(* one or better than the best one, and no hash with completed             *)
(* announcements only.                                                     *)
(***************************************************************************)
THEOREM TrackerSane == Spec => []SanityCheck
<1>1. IInv => SanityCheck
  BY Zenon DEF IInv, SanityCheck, Sane, Row, Announced
<1> QED  BY <1>1, InitKeeps, NextKeeps, PTL DEF Spec

(***************************************************************************)
(* And m_peerinfo counts exactly the announcements of each peer, with      *)
(* nothing left of a peer that has gone, so the assertions of              *)
(* InitializeNode and FinalizeNode never fail.                             *)
(***************************************************************************)
THEOREM CountersExact == Spec => []PeerInfoExact
<1>1. ASSUME IInv, NEW p \in Peers
      PROVE  /\ peerinfo[p] = [total     |-> Tally(index, p, States \ {"NONE"}),
                               requested |-> Tally(index, p, {"REQUESTED"}),
                               completed |-> Tally(index, p, {"COMPLETED"})]
             /\ p \notin connected => peerinfo[p].total = 0
  <2>1. peerinfo[p] = [total     |-> Tally(index, p, States \ {"NONE"}),
                       requested |-> Tally(index, p, {"REQUESTED"}),
                       completed |-> Tally(index, p, {"COMPLETED"})]
    BY <1>1, Zenon DEF IInv, Tallies
  <2>2. ASSUME p \notin connected  PROVE Tally(index, p, States \ {"NONE"}) = 0
    <3>1. {h \in TxHashes : index[h][p] \in States \ {"NONE"}} = {}
      BY <1>1, <2>2, Zenon DEF IInv, NobodyElse
    <3> QED  BY <3>1, FS_EmptySet, ZenonT(60) DEF Tally
  <2> QED  BY <2>1, <2>2, SMTT(60)
<1>2. IInv => PeerInfoExact
  BY <1>1, Zenon DEF PeerInfoExact
<1> QED  BY <1>2, InitKeeps, NextKeeps, PTL DEF Spec

-----------------------------------------------------------------------------
(* The tracker does what the naive one does.                               *)

NaiveState(s) == IF s \in Candidate THEN "CANDIDATE" ELSE IF s = "NONE" THEN "NOTHING" ELSE s

\* What the naive tracker has of an index.
View(st) == [h \in TxHashes |-> [p \in Peers |-> NaiveState(st[h][p])]]

Forgotten == [p \in Peers |-> "NOTHING"]

\* A row of it after an answer of p.
Responded(r, p) ==
    LET c == [r EXCEPT ![p] = "COMPLETED"]
    IN IF r[p] = "NOTHING" THEN r
       ELSE IF \E q \in Peers : c[q] \in {"CANDIDATE", "REQUESTED"} THEN c ELSE Forgotten

Completed(v, h, p) == [v EXCEPT ![h][p] = "COMPLETED"]

After(v, h, p) == [v EXCEPT ![h] = Responded(v[h], p)]

\* The times of what is no longer awaited do not matter.
RInv == IInv /\ due = Timed(index, due)

\* The refinement mapping is the view of the index.
LEMMA NaiveIsView == Naive = View(index) /\ Naive' = View(index')
BY Zenon DEF Naive, View, NaiveState

\* What the naive tracker sees of the states of an announcement.
LEMMA NaiveStates ==
    \A s \in States :
        /\ NaiveState(s) \in {"NOTHING", "CANDIDATE", "REQUESTED", "COMPLETED"}
        /\ NaiveState(s) = "NOTHING" <=> s = "NONE"
        /\ NaiveState(s) = "COMPLETED" <=> s = "COMPLETED"
        /\ NaiveState(s) = "REQUESTED" <=> s = "REQUESTED"
        /\ NaiveState(s) \in {"CANDIDATE", "REQUESTED"} <=> s \in Candidate \cup {"REQUESTED"}
        /\ s \in Candidate \cup {"REQUESTED"} <=> s \notin {"NONE", "COMPLETED"}
BY Zenon DEF NaiveState, States, Candidate

\* Both trackers forget the same times.
LEMMA ViewTimes ==
    ASSUME NEW st \in [TxHashes -> Rows], NEW d
    PROVE  Tracker!Timed(View(st), d) = Timed(st, d)
<1>1. \A h \in TxHashes, p \in Peers :
          /\ View(st)[h][p] = NaiveState(st[h][p]) /\ st[h][p] \in States
  BY Zenon DEF View, Rows
<1>2. \A h \in TxHashes, p \in Peers :
          View(st)[h][p] \in {"CANDIDATE", "REQUESTED"} <=> st[h][p] \notin {"NONE", "COMPLETED"}
  BY <1>1, NaiveStates
<1> QED  BY <1>2, Zenon DEF Tracker!Timed, Timed

\* The naive tracker has nothing to clean up behind an index in order.
LEMMA SaneClean ==
    ASSUME NEW st, Sane(st)
    PROVE  Tracker!Cleanup(View(st)) = View(st)
<1>1. ASSUME NEW h \in TxHashes, ~ \E p \in Peers : View(st)[h][p] \in {"CANDIDATE", "REQUESTED"}
      PROVE  View(st)[h] = [p \in Peers |-> "NOTHING"]
  <2>1. \A p \in Peers : View(st)[h][p] = NaiveState(st[h][p]) /\ st[h][p] \in States
    BY Zenon DEF View, Sane, Rows
  <2>2. \A p \in Peers : st[h][p] \notin Candidate \cup {"REQUESTED"}
    BY <1>1, <2>1, NaiveStates
  <2>3. \A p \in Peers : st[h][p] = "NONE"
    BY <2>2, Zenon DEF Sane, Row
  <2> QED  BY <2>3, Zenon DEF View, NaiveState, Candidate
<1> QED  BY <1>1, Zenon DEF Tracker!Cleanup, View

\* An answer, in one row.
LEMMA ResponseView ==
    ASSUME NEW st, Sane(st), NEW h \in TxHashes, NEW p \in Peers
    PROVE  View(ResponseIndex(st, h, p)) = After(View(st), h, p)
<1> DEFINE r == View(st)[h]
           c == [r EXCEPT ![p] = "COMPLETED"]
           new == ResponseIndex(st, h, p)
<1>1. st \in [TxHashes -> Rows] /\ \A q \in Peers : st[h][q] \in States
  BY Zenon DEF Sane, Rows
<1>2. r = [q \in Peers |-> NaiveState(st[h][q])]
  BY Zenon DEF View
<1>3. View(st) \in [TxHashes -> [Peers -> Tracker!AnnStates]]
  BY <1>1, NaiveStates DEF View, Rows, Tracker!AnnStates
<1>4. ASSUME new = [st EXCEPT ![h] = new[h]]
      PROVE  View(new) = [View(st) EXCEPT ![h] = [q \in Peers |-> NaiveState(new[h][q])]]
  <2> HIDE DEF new
  <2> QED  BY <1>1, <1>4, Zenon DEF View
<1>5. CASE st[h][p] = "NONE"
  <2>1. new = st
    BY <1>5, Zenon DEF ResponseIndex
  <2>2. r[p] = "NOTHING"
    BY <1>2, <1>5, Zenon DEF NaiveState, Candidate
  <2>3. Responded(r, p) = r
    BY <2>2, Zenon DEF Responded
  <2>4. [View(st) EXCEPT ![h] = r] = View(st)
    BY <1>3, Zenon
  <2> QED  BY <2>1, <2>3, <2>4, Zenon DEF After
<1>6. CASE st[h][p] # "NONE"
  <2>1. new = CompleteIndex(st, h, p)
    BY <1>6, Zenon DEF ResponseIndex
  <2>2. r[p] # "NOTHING"
    BY <1>1, <1>2, <1>6, NaiveStates
  <2>3. CASE st[h][p] = "COMPLETED"
    <3>1. new = st
      BY <2>1, <2>3, Zenon DEF CompleteIndex
    <3>2. PICK q \in Peers : st[h][q] \in Candidate \cup {"REQUESTED"}
      BY <1>6, Zenon DEF Sane, Row
    <3>3. c = r
      BY <1>2, <2>3, Zenon DEF NaiveState, Candidate
    <3>4. c[q] \in {"CANDIDATE", "REQUESTED"}
      BY <1>1, <1>2, <3>2, <3>3, NaiveStates
    <3>5. Responded(r, p) = r
      BY <2>2, <3>3, <3>4, Zenon DEF Responded
    <3>6. [View(st) EXCEPT ![h] = r] = View(st)
      BY <1>3, Zenon
    <3> QED  BY <3>1, <3>5, <3>6, Zenon DEF After
  <2>4. CASE st[h][p] # "COMPLETED" /\ IsOnlyNonCompleted(st, h, p)
    <3>1. new = [st EXCEPT ![h] = [q \in Peers |-> "NONE"]]
      BY <2>1, <2>4, Zenon DEF CompleteIndex, ForgetIndex
    <3>2. \A q \in Peers \ {p} : st[h][q] \in {"NONE", "COMPLETED"}
      BY <2>4, Zenon DEF IsOnlyNonCompleted, Announced
    <3>3. \A q \in Peers : c[q] \notin {"CANDIDATE", "REQUESTED"}
      BY <1>1, <1>2, <3>2, NaiveStates
    <3>4. Responded(r, p) = Forgotten
      BY <2>2, <3>3, Zenon DEF Responded
    <3>5. [q \in Peers |-> NaiveState(new[h][q])] = Forgotten
      BY <1>1, <3>1, Zenon DEF NaiveState, Candidate, Forgotten
    <3>6. new = [st EXCEPT ![h] = new[h]]
      BY <1>1, <3>1, Zenon
    <3> QED  BY <1>4, <3>4, <3>5, <3>6, Zenon DEF After
  <2>5. CASE st[h][p] # "COMPLETED" /\ ~ IsOnlyNonCompleted(st, h, p)
    <3>1. new = ChangeIndex(st, h, p, "COMPLETED")
      BY <2>1, <2>5, Zenon DEF CompleteIndex
    <3>2. new = [st EXCEPT ![h] = new[h]]
      BY <1>1, <3>1, Zenon DEF ChangeIndex
    <3>3. \A q \in Peers : new[h][q] =
              IF q = p THEN "COMPLETED"
              ELSE IF st[h][p] \in Selected /\ q \in PrevOf(st, h, p) /\ st[h][q] = "READY"
              THEN "BEST" ELSE st[h][q]
      BY <1>1, <3>1, Zenon DEF ChangeIndex
    <3>4. [q \in Peers |-> NaiveState(new[h][q])] = c
      <4>1. \A q \in Peers : NaiveState(new[h][q]) =
                IF q = p THEN "COMPLETED" ELSE NaiveState(st[h][q])
        BY <3>3, Zenon DEF NaiveState, Candidate
      <4> HIDE DEF new
      <4> QED  BY <1>2, <4>1, Zenon
    <3>5. PICK q \in Peers \ {p} : st[h][q] \notin {"NONE", "COMPLETED"}
      BY <2>5, Zenon DEF IsOnlyNonCompleted, Announced
    <3>6. c[q] \in {"CANDIDATE", "REQUESTED"}
      BY <1>1, <1>2, <3>5, NaiveStates
    <3>7. Responded(r, p) = c
      BY <2>2, <3>6, Zenon DEF Responded
    <3> QED  BY <1>4, <3>2, <3>4, <3>7, Zenon DEF After
  <2> QED  BY <2>3, <2>4, <2>5, Zenon
<1> QED  BY <1>5, <1>6, Zenon

\* The naive tracker does the same to its announcements.
LEMMA RespondedClean ==
    ASSUME NEW st, Sane(st), NEW h \in TxHashes, NEW p \in Peers, st[h][p] # "NONE"
    PROVE  Tracker!Cleanup(Completed(View(st), h, p)) = After(View(st), h, p)
<1> DEFINE v == View(st)
           a == [v EXCEPT ![h][p] = "COMPLETED"]
<1>1. v \in [TxHashes -> [Peers -> Tracker!AnnStates]] /\ v[h][p] # "NOTHING"
  BY NaiveStates DEF View, Sane, Rows, Tracker!AnnStates
<1>2. Tracker!Cleanup(v) = v
  BY SaneClean, Zenon
<1> HIDE DEF v
<1>3. ASSUME NEW g \in TxHashes
      PROVE  Tracker!Cleanup(a)[g] = IF g = h THEN Responded(v[h], p) ELSE v[g]
  <2>1. CASE g = h
    <3>1. a[h] = [v[h] EXCEPT ![p] = "COMPLETED"]
      BY <1>1, Zenon
    <3> QED  BY <1>1, <2>1, <3>1, Zenon DEF Tracker!Cleanup, Responded, Forgotten
  <2>2. CASE g # h
    <3>1. a[g] = v[g]
      BY <1>1, <2>2, Zenon
    <3>2. Tracker!Cleanup(a)[g] = Tracker!Cleanup(v)[g]
      BY <3>1, Zenon DEF Tracker!Cleanup
    <3> QED  BY <1>2, <2>2, <3>2, Zenon
  <2> QED  BY <2>1, <2>2, Zenon
<1>4. Tracker!Cleanup(a) = [g \in TxHashes |-> Tracker!Cleanup(a)[g]]
  BY DEF Tracker!Cleanup
<1>5. [v EXCEPT ![h] = Responded(v[h], p)] =
          [g \in TxHashes |-> IF g = h THEN Responded(v[h], p) ELSE v[g]]
  BY <1>1, Zenon
<1> QED  BY <1>3, <1>4, <1>5, Zenon DEF v, Completed, After

AfterAnswers(resp, p, h) ==
    IF h \in resp THEN Responded(View(index)[h], p) ELSE View(index)[h]

\* The announcements and answers of one message, hash by hash: the hashes answered for, the
\* new announcements, the hashes forgotten and the times.
Handled(p, delay, resp, new, forget, d) ==
    /\ resp \subseteq TxHashes /\ new \subseteq TxHashes /\ forget \subseteq TxHashes
    /\ forget \subseteq have'
    /\ \A h \in new : AfterAnswers(resp, p, h)[p] = "NOTHING"
    /\ \A h \in TxHashes : View(index')[h] =
           IF h \in forget THEN Forgotten
           ELSE IF h \in new THEN [AfterAnswers(resp, p, h) EXCEPT ![p] = "CANDIDATE"]
           ELSE AfterAnswers(resp, p, h)
    /\ due' = Timed(index', d)
    /\ \A h \in TxHashes : d[h] = IF h \in new THEN [due[h] EXCEPT ![p] = delay] ELSE due[h]

\* A handler of the tracker is a step of the naive one.
LEMMA HandleStep ==
    ASSUME RInv, IInv', NEW p \in Peers, NEW delay \in Delays, NEW resp, NEW new, NEW forget,
           NEW d, Handled(p, delay, resp, new, forget, d)
    PROVE  Tracker!Handle(p, delay)
<1> resp \subseteq TxHashes /\ new \subseteq TxHashes /\ forget \subseteq TxHashes
  BY Zenon DEF Handled
<1> forget \subseteq have'
  BY Zenon DEF Handled
<1> \A h \in new : AfterAnswers(resp, p, h)[p] = "NOTHING"
  BY Zenon DEF Handled
<1> \A h \in TxHashes : View(index')[h] =
        IF h \in forget THEN Forgotten
        ELSE IF h \in new THEN [AfterAnswers(resp, p, h) EXCEPT ![p] = "CANDIDATE"]
        ELSE AfterAnswers(resp, p, h)
  BY Zenon DEF Handled
<1> due' = Timed(index', d)
    /\ \A h \in TxHashes : d[h] = IF h \in new THEN [due[h] EXCEPT ![p] = delay] ELSE due[h]
  BY Zenon DEF Handled
<1>1. Naive = View(index) /\ Naive' = View(index')
  BY NaiveIsView, Zenon
<1>2. /\ index \in [TxHashes -> Rows] /\ index' \in [TxHashes -> Rows] /\ Sane(index)
      /\ due' \in [TxHashes -> [Peers -> Int]] /\ due \in [TxHashes -> [Peers -> Int]]
      /\ have' \subseteq TxHashes
  BY Zenon DEF RInv, IInv, Sane, TypeOK
<1>3. View(index) \in [TxHashes -> [Peers -> Tracker!AnnStates]]
      /\ View(index') \in [TxHashes -> [Peers -> Tracker!AnnStates]]
  BY <1>2, NaiveStates DEF View, Rows, Tracker!AnnStates
<1>4. ASSUME NEW h \in TxHashes
      PROVE  Tracker!HandleHash(h, p, h \in resp, h \in new, h \in forget, delay)
  <2> DEFINE v == View(index)
             responded == IF h \in resp /\ v[h][p] # "NOTHING"
                          THEN Tracker!Cleanup([v EXCEPT ![h][p] = "COMPLETED"])[h] ELSE v[h]
  <2>1. responded = AfterAnswers(resp, p, h)
    <3>1. CASE h \in resp /\ v[h][p] # "NOTHING"
      <4>1. index[h][p] # "NONE"
        BY <1>2, <3>1, Zenon DEF View, NaiveState, Candidate
      <4>2. Tracker!Cleanup(Completed(v, h, p)) = After(v, h, p)
        BY <1>2, <4>1, RespondedClean, Zenon
      <4> HIDE DEF v
      <4> QED  BY <1>3, <3>1, <4>2, Zenon DEF v, Completed, After, AfterAnswers
    <3>2. CASE h \in resp /\ v[h][p] = "NOTHING"
      BY <3>2, Zenon DEF Responded, AfterAnswers
    <3>3. CASE h \notin resp
      BY <3>3, Zenon DEF AfterAnswers
    <3> QED  BY <3>1, <3>2, <3>3, Zenon
  <2>2. View(index')[h] = IF h \in forget THEN [q \in Peers |-> "NOTHING"]
                          ELSE IF h \in new /\ responded[p] = "NOTHING"
                          THEN [responded EXCEPT ![p] = "CANDIDATE"] ELSE responded
    <3> HIDE DEF responded
    <3> QED  BY <2>1, Zenon DEF Forgotten
  <2>3. due'[h] = Tracker!Timed(View(index'), IF h \in new /\ responded[p] = "NOTHING"
                                              THEN [due EXCEPT ![h][p] = delay] ELSE due)[h]
    <3> DEFINE e == IF h \in new /\ responded[p] = "NOTHING"
                    THEN [due EXCEPT ![h][p] = delay] ELSE due
    <3>1. e[h] = d[h]
      <4> HIDE DEF responded
      <4> QED  BY <1>2, <2>1, Zenon
    <3>2. Tracker!Timed(View(index'), e) = Timed(index', e)
      <4> HIDE DEF e
      <4> QED  BY <1>2, ViewTimes, Zenon
    <3>3. Timed(index', e)[h] = Timed(index', d)[h]
      <4> HIDE DEF e
      <4> QED  BY <3>1, Zenon DEF Timed
    <3> QED  BY <3>2, <3>3, Zenon
  <2>4. h \in forget => h \in have'
    BY Zenon
  <2> QED  BY <1>1, <2>2, <2>3, <2>4, Zenon DEF Tracker!HandleHash
<1>5. \A h \in TxHashes : \E a, b, c \in BOOLEAN : Tracker!HandleHash(h, p, a, b, c, delay)
  <2>1. \A h \in TxHashes : (h \in resp) \in BOOLEAN /\ (h \in new) \in BOOLEAN
                            /\ (h \in forget) \in BOOLEAN
    OBVIOUS
  <2> QED  BY <1>4, <2>1, Zenon
<1> QED  BY <1>1, <1>2, <1>3, <1>5, Zenon DEF Tracker!Handle

\* ReceivedInv adds candidates.
LEMMA InvView ==
    ASSUME NEW st, NEW p \in Peers, NEW W \in SUBSET TxHashes, st \in [TxHashes -> Rows]
    PROVE  \A h \in TxHashes : View(InvIndex(st, p, W))[h] =
               IF h \in W THEN [View(st)[h] EXCEPT ![p] = "CANDIDATE"] ELSE View(st)[h]
<1>1. ASSUME NEW h \in W
      PROVE  View(InvIndex(st, p, W))[h] = [View(st)[h] EXCEPT ![p] = "CANDIDATE"]
  <2>1. \A q \in Peers : InvIndex(st, p, W)[h][q] = IF q = p THEN "DELAYED" ELSE st[h][q]
    BY Zenon DEF InvIndex, Rows
  <2>2. \A q \in Peers : View(InvIndex(st, p, W))[h][q] =
                             IF q = p THEN "CANDIDATE" ELSE View(st)[h][q]
    BY <2>1, Zenon DEF View, NaiveState, Candidate
  <2> QED  BY <2>2, Zenon DEF View
<1>2. ASSUME NEW h \in TxHashes \ W  PROVE View(InvIndex(st, p, W))[h] = View(st)[h]
  <2>1. InvIndex(st, p, W)[h] = st[h]
    BY Zenon DEF InvIndex
  <2> QED  BY <2>1, Zenon DEF View
<1> QED  BY <1>1, <1>2, Zenon

\* ForgetTxHash forgets a hash for every peer.
LEMMA ForgetView ==
    ASSUME NEW st, NEW W \in SUBSET TxHashes, st \in [TxHashes -> Rows]
    PROVE  \A h \in TxHashes : View(ForgetAll(st, W))[h] =
               IF h \in W THEN Forgotten ELSE View(st)[h]
<1>1. ASSUME NEW h \in W  PROVE View(ForgetAll(st, W))[h] = Forgotten
  <2>1. ForgetAll(st, W)[h] = [q \in Peers |-> "NONE"]
    BY Zenon DEF ForgetAll, ForgetIndex
  <2> QED  BY <2>1, Zenon DEF View, NaiveState, Candidate, Forgotten
<1>2. ASSUME NEW h \in TxHashes \ W  PROVE View(ForgetAll(st, W))[h] = View(st)[h]
  <2>1. ForgetAll(st, W)[h] = st[h]
    BY Zenon DEF ForgetAll
  <2> QED  BY <2>1, Zenon DEF View
<1> QED  BY <1>1, <1>2, Zenon

\* A tx message answers for both of its hashes, which may be one.
LEMMA AnsweredView ==
    ASSUME IInv, NEW p \in Peers, NEW tx \in Txs
    PROVE  \A h \in TxHashes : View(AnsweredIndex(p, tx))[h] = AfterAnswers(Hashes(tx), p, h)
<1> DEFINE one == ResponseIndex(index, tx.txid, p)
           two == ResponseIndex(one, tx.wtxid, p)
<1>1. tx.txid \in TxHashes /\ tx.wtxid \in TxHashes
  BY DelayAssumption, Zenon
<1>2. Sane(index) /\ Sane(one)
  BY <1>1, ResponseKeeps, Zenon DEF IInv
<1>3. View(one) = After(View(index), tx.txid, p)
  BY <1>1, <1>2, ResponseView, Zenon
<1>4. View(two) = After(View(one), tx.wtxid, p)
  <2> HIDE DEF one
  <2> QED  BY <1>1, <1>2, ResponseView, Zenon
<1>5. DOMAIN View(index) = TxHashes /\ \A h \in TxHashes : DOMAIN View(index)[h] = Peers
  BY Zenon DEF View
<1>6. AnsweredIndex(p, tx) = two
  BY Zenon DEF AnsweredIndex
<1> HIDE DEF one, two
<1>7. ASSUME NEW h \in TxHashes  PROVE View(two)[h] = AfterAnswers(Hashes(tx), p, h)
  <2>1. View(one)[h] = IF h = tx.txid THEN Responded(View(index)[h], p) ELSE View(index)[h]
    BY <1>1, <1>3, <1>5, Zenon DEF After
  <2>2. DOMAIN View(one) = TxHashes
    BY Zenon DEF View
  <2>3. View(two)[h] = IF h = tx.wtxid THEN Responded(View(one)[h], p) ELSE View(one)[h]
    BY <1>1, <1>4, <2>2, Zenon DEF After
  <2>4. ASSUME NEW r, DOMAIN r = Peers, r = [q \in Peers |-> r[q]]
        PROVE  Responded(Responded(r, p), p) = Responded(r, p)
    <3> DEFINE c == [r EXCEPT ![p] = "COMPLETED"]
    <3>1. c[p] = "COMPLETED" /\ [c EXCEPT ![p] = "COMPLETED"] = c
      BY <2>4, Zenon
    <3>2. CASE r[p] = "NOTHING"
      BY <3>2, Zenon DEF Responded
    <3>3. CASE r[p] # "NOTHING" /\ \E q \in Peers : c[q] \in {"CANDIDATE", "REQUESTED"}
      <4>1. Responded(r, p) = c
        BY <3>3, Zenon DEF Responded
      <4>2. Responded(c, p) = c
        <5> HIDE DEF c
        <5> QED  BY <3>1, <3>3, Zenon DEF Responded
      <4> QED  BY <4>1, <4>2, Zenon
    <3>4. CASE r[p] # "NOTHING" /\ ~ \E q \in Peers : c[q] \in {"CANDIDATE", "REQUESTED"}
      <4>1. Responded(r, p) = Forgotten
        BY <3>4, Zenon DEF Responded
      <4>2. Responded(Forgotten, p) = Forgotten
        BY Zenon DEF Responded, Forgotten
      <4> QED  BY <4>1, <4>2, Zenon
    <3> QED  BY <3>2, <3>3, <3>4, Zenon
  <2>5. View(index)[h] = [q \in Peers |-> View(index)[h][q]]
    BY Zenon DEF View
  <2>6. Responded(Responded(View(index)[h], p), p) = Responded(View(index)[h], p)
    BY <1>5, <2>4, <2>5, Zenon
  <2> QED  BY <2>1, <2>3, <2>6, Zenon DEF AfterAnswers, Hashes
<1> QED  BY <1>6, <1>7, Zenon

\* The delays of the handlers are those of the naive tracker.
LEMMA DelayIn == ASSUME NEW p \in Peers, NEW b, NEW info  PROVE Delay(p, b, info) \in Delays
<1> DEFINE u == IF p \in PreferredPeers THEN 0 ELSE NonprefDelay
           t == IF ~ b /\ WtxidPeers \cap connected # {} THEN TxidDelay ELSE 0
           o == IF info[p].requested >= MaxInFlight THEN OverloadedDelay ELSE 0
<1>1. t \in {0, TxidDelay} /\ o \in {0, OverloadedDelay}
  BY Zenon
<1>2. Delay(p, b, info) = u + t + o
  BY Zenon DEF Delay
<1>3. \A v \in {0, TxidDelay}, w \in {0, OverloadedDelay} : u + v + w \in Delays
  BY DEF Delays
<1> HIDE DEF u, t, o
<1> QED  BY <1>1, <1>2, <1>3, Zenon

\* What the naive tracker does not tell apart.
LEMMA RowView ==
    ASSUME NEW st \in [TxHashes -> Rows], NEW h \in TxHashes, NEW r,
           \A q \in Peers : NaiveState(r[q]) = NaiveState(st[h][q]),
           NEW new, new = [st EXCEPT ![h] = r]
    PROVE  View(new) = View(st)
<1>1. ASSUME NEW g \in TxHashes, NEW q \in Peers
      PROVE  NaiveState(new[g][q]) = NaiveState(st[g][q])
  BY Zenon
<1> QED  BY <1>1, Zenon DEF View

\* The naive tracker does not see a candidate become ready.
LEMMA PromoteView ==
    ASSUME NEW st, Sane(st), NEW h \in TxHashes, NEW p \in Peers, st[h][p] = "DELAYED"
    PROVE  View(PromoteIndex(st, h, p)) = View(st)
<1> DEFINE new == PromoteIndex(st, h, p)
           ready == [st EXCEPT ![h][p] = "READY"]
           next == NextOf(ready, h, p)
           q0 == CHOOSE q \in next : TRUE
           b == [st[h] EXCEPT ![p] = "BEST"]
           y == [st[h] EXCEPT ![p] = "READY"]
           z == [st[h] EXCEPT ![p] = "BEST", ![q0] = "READY"]
<1>1. st \in [TxHashes -> Rows] /\ \A q \in Peers : st[h][q] \in States
  BY Zenon DEF Sane, Rows
<1>2. ready = [st EXCEPT ![h] = y]
  BY <1>1, Zenon
<1>3. next \subseteq Peers
  BY Zenon DEF NextOf, Announced
<1>4. \A q \in Peers : NaiveState(b[q]) = NaiveState(st[h][q])
  BY <1>1 DEF NaiveState, Candidate, Rows
<1>5. \A q \in Peers : NaiveState(y[q]) = NaiveState(st[h][q])
  BY <1>1 DEF NaiveState, Candidate, Rows
<1>6. CASE \A q \in next : ready[h][q] = "COMPLETED"
  <2>1. new = [st EXCEPT ![h] = b]
    BY <1>1, <1>6, Zenon DEF PromoteIndex
  <2> HIDE DEF b, new
  <2> QED  BY <1>1, <1>4, <2>1, RowView, Zenon DEF new
<1>7. CASE ~ (\A q \in next : ready[h][q] = "COMPLETED") /\ ready[h][q0] = "BEST"
           /\ HigherPriority(h, p, q0)
  <2>1. new = [st EXCEPT ![h] = z]
    <3> HIDE DEF next
    <3>1. new = [st EXCEPT ![h] = [@ EXCEPT ![p] = "BEST", ![q0] = "READY"]]
      BY <1>7, Zenon DEF PromoteIndex, next
    <3> QED  BY <1>1, <3>1, Zenon
  <2>2. q0 \in next
    <3> HIDE DEF next
    <3> QED  BY <1>7, Zenon
  <2>3. q0 \in Peers
    BY <1>3, <2>2, Zenon
  <2> HIDE DEF q0, next
  <2>4. y[p] = "READY"
    BY <1>1, Zenon DEF Rows
  <2>5. q0 # p /\ st[h][q0] = "BEST"
    BY <1>1, <1>2, <1>7, <2>3, Zenon DEF Rows
  <2>6. \A q \in Peers : NaiveState(z[q]) = NaiveState(st[h][q])
    BY <1>1, <2>3, <2>5, Zenon DEF NaiveState, Candidate, Rows
  <2> HIDE DEF z, new
  <2> QED  BY <1>1, <2>1, <2>6, RowView, Zenon DEF new
<1>8. CASE ~ (\A q \in next : ready[h][q] = "COMPLETED")
           /\ ~ (ready[h][q0] = "BEST" /\ HigherPriority(h, p, q0))
  <2>1. new = ready
    BY <1>8, Zenon DEF PromoteIndex
  <2>2. new = [st EXCEPT ![h] = y]
    BY <1>2, <2>1, Zenon
  <2> HIDE DEF y, new
  <2> QED  BY <1>1, <1>5, <2>2, RowView, Zenon DEF new
<1> QED  BY <1>6, <1>7, <1>8, Zenon

\* Nor does it see one wait again.
LEMMA DelayView ==
    ASSUME NEW st, Sane(st), NEW h \in TxHashes, NEW p \in Peers, st[h][p] \in Selectable
    PROVE  View(ChangeIndex(st, h, p, "DELAYED")) = View(st)
<1> DEFINE r == [q \in Peers |->
                    IF q = p THEN "DELAYED"
                    ELSE IF st[h][p] \in Selected /\ q \in PrevOf(st, h, p) /\ st[h][q] = "READY"
                      THEN "BEST" ELSE st[h][q]]
<1>1. ChangeIndex(st, h, p, "DELAYED") = [st EXCEPT ![h] = r]
  BY Zenon DEF ChangeIndex
<1>2. \A q \in Peers : NaiveState(r[q]) = NaiveState(st[h][q])
  BY DEF NaiveState, Candidate, Selectable
<1>3. st \in [TxHashes -> Rows]
  BY Zenon DEF Sane
<1> HIDE DEF r
<1> QED  BY <1>1, <1>2, <1>3, RowView

\* A step that it does not see is a stutter.
LEMMA SameView ==
    ASSUME RInv, NEW st \in [TxHashes -> Rows], Moves(st, due), View(st) = View(index),
           have' = have
    PROVE  UNCHANGED Tracker!vars
<1>1. Naive' = Naive
  BY NaiveIsView, Zenon DEF Moves, View, Naive, NaiveState
<1>2. due' = due
  <2>1. index \in [TxHashes -> Rows]
    BY Zenon DEF RInv, IInv, Sane
  <2>2. Timed(st, due) = Timed(index, due)
    BY <2>1, ViewTimes, Zenon
  <2> QED  BY <2>2, Zenon DEF RInv, Moves
<1> QED  BY <1>1, <1>2, Zenon DEF Tracker!vars

\* FinalizeNode.
LEMMA FinalizeView ==
    ASSUME IInv, NEW p \in Peers
    PROVE  View(DisconnectIndex(index, p)) =
               Tracker!Cleanup([h \in TxHashes |-> [View(index)[h] EXCEPT ![p] = "NOTHING"]])
<1> DEFINE left == [h \in TxHashes |-> [View(index)[h] EXCEPT ![p] = "NOTHING"]]
           new == DisconnectIndex(index, p)
<1>1. Sane(index) /\ Tracker!Cleanup(View(index)) = View(index)
  BY SaneClean, Zenon DEF IInv
<1>2. ASSUME NEW h \in TxHashes  PROVE View(new)[h] = Tracker!Cleanup(left)[h]
  <2> DEFINE v == View(index)[h]
             answer == ResponseIndex(index, h, p)
             c == [v EXCEPT ![p] = "COMPLETED"]
             w == [v EXCEPT ![p] = "NOTHING"]
  <2>1. DOMAIN v = Peers /\ v = [q \in Peers |-> v[q]]
    BY Zenon DEF View
  <2>2. View(answer)[h] = Responded(v, p)
    <3>1. View(answer) = After(View(index), h, p)
      BY <1>1, ResponseView, Zenon
    <3>2. DOMAIN View(index) = TxHashes
      BY Zenon DEF View
    <3> QED  BY <3>1, <3>2, Zenon DEF After
  <2>3. answer[h] \in Rows
    BY <1>1, ResponseKeeps, Zenon DEF Sane
  <2>4. View(new)[h] = [Responded(v, p) EXCEPT ![p] = "NOTHING"]
    <3>1. new[h] = [answer[h] EXCEPT ![p] = "NONE"]
      BY Zenon DEF DisconnectIndex
    <3> HIDE DEF answer, new
    <3>2. \A q \in Peers : View(new)[h][q] = IF q = p THEN "NOTHING" ELSE View(answer)[h][q]
      BY <2>3, <3>1, Zenon DEF View, NaiveState, Candidate, Rows
    <3>3. View(new)[h] = [q \in Peers |-> View(new)[h][q]]
          /\ View(answer)[h] = [q \in Peers |-> View(answer)[h][q]]
      BY Zenon DEF View
    <3>4. View(new)[h] = [View(answer)[h] EXCEPT ![p] = "NOTHING"]
      BY <3>2, <3>3, Zenon
    <3> QED  BY <2>2, <3>4, Zenon
  <2>5. Tracker!Cleanup(left)[h] =
            IF \E q \in Peers : w[q] \in {"CANDIDATE", "REQUESTED"} THEN w ELSE Forgotten
    <3>1. left[h] = w
      BY Zenon
    <3> HIDE DEF left, w
    <3> QED  BY <3>1, Zenon DEF Tracker!Cleanup, Forgotten
  <2>6. v = IF \E q \in Peers : v[q] \in {"CANDIDATE", "REQUESTED"} THEN v ELSE Forgotten
    BY <1>1, Zenon DEF Tracker!Cleanup, Forgotten
  <2> HIDE DEF v, new, left
  <2>7. (\E q \in Peers : c[q] \in {"CANDIDATE", "REQUESTED"})
            <=> \E q \in Peers : w[q] \in {"CANDIDATE", "REQUESTED"}
    BY <2>1, Zenon
  <2>8. CASE v[p] = "NOTHING"
    <3>1. w = v /\ Responded(v, p) = v
      BY <2>1, <2>8, Zenon DEF Responded
    <3> QED  BY <2>4, <2>5, <2>6, <3>1, Zenon
  <2>9. CASE v[p] # "NOTHING" /\ \E q \in Peers : w[q] \in {"CANDIDATE", "REQUESTED"}
    <3>1. Responded(v, p) = c
      BY <2>7, <2>9, Zenon DEF Responded
    <3>2. [c EXCEPT ![p] = "NOTHING"] = w
      BY <2>1, Zenon
    <3> QED  BY <2>4, <2>5, <2>9, <3>1, <3>2, Zenon
  <2>10. CASE v[p] # "NOTHING" /\ ~ \E q \in Peers : w[q] \in {"CANDIDATE", "REQUESTED"}
    <3>1. Responded(v, p) = Forgotten
      BY <2>7, <2>10, Zenon DEF Responded
    <3>2. [Forgotten EXCEPT ![p] = "NOTHING"] = Forgotten
      BY Zenon DEF Forgotten
    <3> QED  BY <2>4, <2>5, <2>10, <3>1, <3>2, Zenon
  <2> QED  BY <2>8, <2>9, <2>10, Zenon
<1>3. DOMAIN View(new) = TxHashes /\ View(new) = [h \in TxHashes |-> View(new)[h]]
  BY Zenon DEF View
<1>4. Tracker!Cleanup(left) = [h \in TxHashes |-> Tracker!Cleanup(left)[h]]
  BY Zenon DEF Tracker!Cleanup
<1> HIDE DEF new, left
<1>5. View(new) = Tracker!Cleanup(left)
  BY <1>2, <1>3, <1>4, Zenon
<1> QED  BY <1>5, Zenon DEF new, left

\* The actions one by one, each a step of the naive tracker or a stutter.
LEMMA FinalizeStep ==
    ASSUME RInv, NEW p \in Peers, FinalizeNode(p)
    PROVE  Tracker!DisconnectedPeer(p)
<1> DEFINE new == DisconnectIndex(index, p)
<1>1. new \in [TxHashes -> Rows]
  BY DisconnectKeeps, Zenon DEF RInv, IInv, Sane
<1>2. index' = new /\ due' = Timed(new, due) /\ have' = have
  BY FinalizeMoves, Zenon DEF FinalizeNode, Moves, RInv
<1>3. Naive = View(index) /\ Naive' = View(index')
  BY NaiveIsView, Zenon
<1>4. View(new) = Tracker!Cleanup([h \in TxHashes |-> [View(index)[h] EXCEPT ![p] = "NOTHING"]])
  BY FinalizeView, Zenon DEF RInv
<1> HIDE DEF new
<1>5. Tracker!Timed(View(new), due) = Timed(new, due)
  BY <1>1, ViewTimes, Zenon
<1> QED  BY <1>2, <1>3, <1>4, <1>5, Zenon DEF Tracker!DisconnectedPeer

\* A message of a peer.
LEMMA InvStep ==
    ASSUME RInv, IInv', NEW p \in Peers, NEW tx \in Txs, Inv(p, AnnouncedBy(p, tx))
    PROVE  \E delay \in Delays : Tracker!Handle(p, delay)
<1> DEFINE g == AnnouncedBy(p, tx)
           delay == Delay(p, p \in WtxidPeers, peerinfo)
<1>1. g \in TxHashes
  BY DelayAssumption, Zenon DEF AnnouncedBy
<1>2. PICK new \in SUBSET TxHashes :
          /\ \A h \in new : index[h][p] = "NONE"
          /\ Moves(InvIndex(index, p, new), DueAt(p, new, delay))
  BY <1>1, InvMoves, Zenon DEF RInv
<1>3. new \subseteq TxHashes /\ \A h \in new : index[h][p] = "NONE"
  BY <1>2, Zenon
<1>4. index \in [TxHashes -> Rows]
  BY Zenon DEF RInv, IInv, Sane
<1>5. delay \in Delays
  BY DelayIn, Zenon
<1> HIDE DEF delay
<1>6. \A h \in new : AfterAnswers({}, p, h)[p] = "NOTHING"
  BY <1>3, Zenon DEF AfterAnswers, View, NaiveState, Candidate
<1>7. \A h \in TxHashes : View(index')[h] =
          IF h \in {} THEN Forgotten
          ELSE IF h \in new THEN [AfterAnswers({}, p, h) EXCEPT ![p] = "CANDIDATE"]
          ELSE AfterAnswers({}, p, h)
  <2>1. \A h \in TxHashes : View(InvIndex(index, p, new))[h] =
            IF h \in new THEN [View(index)[h] EXCEPT ![p] = "CANDIDATE"] ELSE View(index)[h]
    BY <1>3, <1>4, InvView
  <2>2. index' = InvIndex(index, p, new)
    BY <1>2, Zenon DEF Moves
  <2> QED  BY <2>1, <2>2, Zenon DEF AfterAnswers
<1>8. due' = Timed(index', DueAt(p, new, delay))
  BY <1>2, Zenon DEF Moves
<1>9. \A h \in TxHashes : DueAt(p, new, delay)[h] =
          IF h \in new THEN [due[h] EXCEPT ![p] = delay] ELSE due[h]
  BY Zenon DEF DueAt
<1>10. Tracker!Handle(p, delay)
  <2>1. Handled(p, delay, {}, new, {}, DueAt(p, new, delay))
    BY <1>3, <1>5, <1>6, <1>7, <1>8, <1>9, Zenon DEF Handled
  <2> QED  BY <1>5, <2>1, HandleStep, Zenon
<1> QED  BY <1>5, <1>10, Zenon

LEMMA TxSettledStep ==
    ASSUME RInv, IInv', NEW p \in Peers, NEW tx \in Txs,
           NEW verdict \in {"known", "final", "rejected", "stripped"}, TxSettled(p, tx, verdict)
    PROVE  \E delay \in Delays : Tracker!Handle(p, delay)
<1> DEFINE answered == AnsweredIndex(p, tx)
           delay == Delay(p, FALSE, peerinfo)
<1>1. Hashes(tx) \subseteq TxHashes /\ tx.txid \in TxHashes /\ tx.wtxid \in TxHashes
  BY DelayAssumption, Zenon DEF Hashes
<1>2. PICK settled \in SUBSET Hashes(tx) :
          Moves(ForgetAll(answered, settled), due) /\ have' = have \cup settled
  BY TxSettledMoves, Zenon DEF RInv
<1>3. answered \in [TxHashes -> Rows]
  BY AnsweredCounts, Zenon DEF RInv, Sane
<1>4. delay \in Delays
  BY DelayIn, Zenon
<1> HIDE DEF delay
<1>5. \A h \in TxHashes : View(index')[h] =
          IF h \in settled THEN Forgotten
          ELSE IF h \in {} THEN [AfterAnswers(Hashes(tx), p, h) EXCEPT ![p] = "CANDIDATE"]
          ELSE AfterAnswers(Hashes(tx), p, h)
  <2>1. index' = ForgetAll(answered, settled)
    BY <1>2, Zenon DEF Moves
  <2>2. \A h \in TxHashes : View(answered)[h] = AfterAnswers(Hashes(tx), p, h)
    BY AnsweredView, Zenon DEF RInv
  <2> HIDE DEF answered
  <2>3. \A h \in TxHashes : View(ForgetAll(answered, settled))[h] =
            IF h \in settled THEN Forgotten ELSE View(answered)[h]
    BY <1>1, <1>2, <1>3, ForgetView, Zenon
  <2> QED  BY <2>1, <2>2, <2>3, Zenon
<1>6. due' = Timed(index', due)
  BY <1>2, Zenon DEF Moves
<1>7. Tracker!Handle(p, delay)
  <2>1. settled \subseteq TxHashes /\ settled \subseteq have'
    BY <1>1, <1>2, Zenon
  <2>2. \A h \in {} : AfterAnswers(Hashes(tx), p, h)[p] = "NOTHING"
    BY Zenon
  <2>3. \A h \in TxHashes : due[h] = IF h \in {} THEN [due[h] EXCEPT ![p] = delay] ELSE due[h]
    BY Zenon
  <2>4. Handled(p, delay, Hashes(tx), {}, settled, due)
    BY <1>1, <1>4, <1>5, <1>6, <2>1, <2>2, <2>3, Zenon DEF Handled
  <2> QED  BY <1>4, <2>4, HandleStep, Zenon
<1> QED  BY <1>4, <1>7, Zenon

LEMMA TxOrphanStep ==
    ASSUME RInv, IInv', NEW p \in Peers, NEW tx \in Txs, TxOrphan(p, tx)
    PROVE  \E delay \in Delays : Tracker!Handle(p, delay)
<1> DEFINE answered == AnsweredIndex(p, tx)
           delay == Delay(p, FALSE, Answered(p, tx).info)
<1>1. /\ Hashes(tx) \subseteq TxHashes /\ tx.txid \in TxHashes /\ tx.wtxid \in TxHashes
      /\ tx.parents \subseteq TxHashes
  BY DelayAssumption, Zenon DEF Hashes
<1>2. PICK new \in SUBSET TxHashes :
          /\ \A h \in new : answered[h][p] = "NONE"
          /\ Moves(ForgetAll(InvIndex(answered, p, new), Hashes(tx)), DueAt(p, new, delay))
  BY TxOrphanMoves, Zenon DEF RInv
<1>3. new \subseteq TxHashes /\ \A h \in new : answered[h][p] = "NONE"
  BY <1>2, Zenon
<1>4. answered \in [TxHashes -> Rows]
  BY AnsweredCounts, Zenon DEF RInv, Sane
<1>5. delay \in Delays
  BY DelayIn, Zenon
<1>6. \A h \in TxHashes : View(answered)[h] = AfterAnswers(Hashes(tx), p, h)
  BY AnsweredView, Zenon DEF RInv
<1>7. have' = have \cup Hashes(tx)
  BY Zenon DEF TxOrphan
<1> HIDE DEF delay, answered
<1>8. \A h \in new : AfterAnswers(Hashes(tx), p, h)[p] = "NOTHING"
  <2>1. \A h \in new : View(answered)[h][p] = "NOTHING"
    BY <1>3, Zenon DEF View, NaiveState, Candidate
  <2> QED  BY <1>3, <1>6, <2>1, Zenon
<1>9. \A h \in TxHashes : View(index')[h] =
          IF h \in Hashes(tx) THEN Forgotten
          ELSE IF h \in new THEN [AfterAnswers(Hashes(tx), p, h) EXCEPT ![p] = "CANDIDATE"]
          ELSE AfterAnswers(Hashes(tx), p, h)
  <2> DEFINE added == InvIndex(answered, p, new)
  <2>1. index' = ForgetAll(added, Hashes(tx))
    BY <1>2, Zenon DEF Moves
  <2>2. \A h \in TxHashes : View(added)[h] =
            IF h \in new THEN [View(answered)[h] EXCEPT ![p] = "CANDIDATE"] ELSE View(answered)[h]
    BY <1>3, <1>4, InvView
  <2>3. added \in [TxHashes -> Rows]
    BY <1>4, Zenon DEF InvIndex, Rows, States
  <2> HIDE DEF added
  <2>4. \A h \in TxHashes : View(ForgetAll(added, Hashes(tx)))[h] =
            IF h \in Hashes(tx) THEN Forgotten ELSE View(added)[h]
    BY <1>1, <2>3, ForgetView, Zenon
  <2> QED  BY <1>6, <2>1, <2>2, <2>4, ZenonT(60)
<1>10. due' = Timed(index', DueAt(p, new, delay))
  BY <1>2, Zenon DEF Moves
<1>11. \A h \in TxHashes : DueAt(p, new, delay)[h] =
          IF h \in new THEN [due[h] EXCEPT ![p] = delay] ELSE due[h]
  BY Zenon DEF DueAt
<1>12. Tracker!Handle(p, delay)
  <2>1. Hashes(tx) \subseteq have'
    BY <1>7, Zenon
  <2>2. Handled(p, delay, Hashes(tx), new, Hashes(tx), DueAt(p, new, delay))
    BY <1>1, <1>3, <1>5, <1>8, <1>9, <1>10, <1>11, <2>1, Zenon DEF Handled
  <2> QED  BY <1>5, <2>2, HandleStep, Zenon
<1> QED  BY <1>5, <1>12, Zenon

LEMMA NotFoundStep ==
    ASSUME RInv, IInv', NEW p \in Peers, NEW g \in TxHashes, NotFound(p, g)
    PROVE  \E delay \in Delays : Tracker!Handle(p, delay)
<1> DEFINE delay == Delay(p, FALSE, peerinfo)
<1>1. delay \in Delays
  BY DelayIn, Zenon
<1> HIDE DEF delay
<1>2. \A h \in TxHashes : View(index')[h] =
          IF h \in {} THEN Forgotten
          ELSE IF h \in {} THEN [AfterAnswers({g}, p, h) EXCEPT ![p] = "CANDIDATE"]
          ELSE AfterAnswers({g}, p, h)
  <2>1. index' = ResponseIndex(index, g, p)
    BY NotFoundMoves, Zenon DEF Moves, RInv
  <2>2. View(ResponseIndex(index, g, p)) = After(View(index), g, p)
    BY ResponseView, Zenon DEF RInv, IInv
  <2>3. DOMAIN View(index) = TxHashes
    BY Zenon DEF View
  <2>4. \A h \in TxHashes : After(View(index), g, p)[h] = AfterAnswers({g}, p, h)
    BY <2>3, Zenon DEF After, AfterAnswers
  <2> QED  BY <2>1, <2>2, <2>4, Zenon
<1>3. due' = Timed(index', due)
  BY NotFoundMoves, Zenon DEF Moves, RInv
<1>4. Tracker!Handle(p, delay)
  <2>1. \A h \in {} : AfterAnswers({g}, p, h)[p] = "NOTHING"
    BY Zenon
  <2>2. \A h \in TxHashes : due[h] = IF h \in {} THEN [due[h] EXCEPT ![p] = delay] ELSE due[h]
    BY Zenon
  <2>3. {g} \in SUBSET TxHashes /\ {} \in SUBSET TxHashes /\ {} \subseteq have'
    BY Zenon
  <2>4. Handled(p, delay, {g}, {}, {}, due)
    BY <1>1, <1>2, <1>3, <2>1, <2>2, <2>3, Zenon DEF Handled
  <2> QED  BY <1>1, <2>4, HandleStep, Zenon
<1> QED  BY <1>1, <1>4, Zenon

\* A block, or a change of what is wanted: no message.
LEMMA WantedStep ==
    ASSUME RInv, IInv', NEW p \in Peers, NEW forget \in SUBSET TxHashes, forget \subseteq have',
           index' = ForgetAll(index, forget), due' = Timed(index', due)
    PROVE  \E delay \in Delays : Tracker!Handle(p, delay)
<1> DEFINE delay == Delay(p, FALSE, peerinfo)
<1>1. delay \in Delays
  BY DelayIn, Zenon
<1> HIDE DEF delay
<1>2. \A h \in TxHashes : View(index')[h] =
          IF h \in forget THEN Forgotten
          ELSE IF h \in {} THEN [AfterAnswers({}, p, h) EXCEPT ![p] = "CANDIDATE"]
          ELSE AfterAnswers({}, p, h)
  <2>1. index \in [TxHashes -> Rows]
    BY Zenon DEF RInv, IInv, Sane
  <2>2. \A h \in TxHashes : View(ForgetAll(index, forget))[h] =
            IF h \in forget THEN Forgotten ELSE View(index)[h]
    BY <2>1, ForgetView, Zenon
  <2> QED  BY <2>2, Zenon DEF AfterAnswers
<1>3. Tracker!Handle(p, delay)
  <2>1. \A h \in {} : AfterAnswers({}, p, h)[p] = "NOTHING"
    BY Zenon
  <2>2. \A h \in TxHashes : due[h] = IF h \in {} THEN [due[h] EXCEPT ![p] = delay] ELSE due[h]
    BY Zenon
  <2>3. Handled(p, delay, {}, {}, forget, due)
    BY <1>1, <1>2, <2>1, <2>2, Zenon DEF Handled
  <2> QED  BY <1>1, <2>3, HandleStep, Zenon
<1> QED  BY <1>1, <1>3, Zenon

\* SetTimePoint: promoting a candidate is nothing to the naive tracker, and neither is
\* taking it back when the clock was set back; a request expires.
LEMMA SetTimePointStep ==
    ASSUME RInv, NEW p \in Peers, SetTimePointPast(p) \/ SetTimePointFuture(p)
    PROVE  [Tracker!Next]_(Tracker!vars)
<1>1. Sane(index) /\ index \in [TxHashes -> Rows] /\ due \in [TxHashes -> [Peers -> Int]]
  BY Zenon DEF RInv, IInv, Sane, TypeOK
<1>2. CASE SetTimePointPast(p)
  <2>1. PICK h \in TxHashes, q \in Peers :
            /\ Past(h, q) /\ have' = have
            /\ Moves(IF index[h][q] = "DELAYED" THEN PromoteIndex(index, h, q)
                                                  ELSE CompleteIndex(index, h, q), due)
    BY <1>2, PastMoves, Zenon DEF RInv
  <2>2. CASE index[h][q] = "DELAYED"
    <3> DEFINE new == PromoteIndex(index, h, q)
    <3>1. Moves(new, due)
      BY <2>1, <2>2, Zenon
    <3>2. new \in [TxHashes -> Rows]
      BY <1>1, <2>2, PromoteKeeps, Zenon DEF Sane
    <3>3. View(new) = View(index)
      BY <1>1, <2>2, PromoteView, Zenon
    <3> HIDE DEF new
    <3> QED  BY <2>1, <3>1, <3>2, <3>3, SameView, Zenon
  <2>3. CASE index[h][q] # "DELAYED"
    <3> DEFINE new == ResponseIndex(index, h, q)
    <3>1. index[h][q] = "REQUESTED" /\ due[h][q] <= 0
      BY <2>1, <2>3, Zenon DEF Past, Waiting
    <3>2. Moves(new, due)
      BY <2>1, <3>1, Zenon DEF ResponseIndex
    <3>3. new \in [TxHashes -> Rows]
      BY <1>1, ResponseKeeps, Zenon DEF Sane
    <3>4. View(new) = Tracker!Cleanup(Completed(View(index), h, q))
      <4>1. View(new) = After(View(index), h, q)
        BY <1>1, ResponseView, Zenon
      <4>2. Tracker!Cleanup(Completed(View(index), h, q)) = After(View(index), h, q)
        BY <1>1, <3>1, RespondedClean, Zenon
      <4> QED  BY <4>1, <4>2, Zenon
    <3> HIDE DEF new
    <3>5. Tracker!Timed(View(new), due) = Timed(new, due)
      BY <3>3, ViewTimes, Zenon
    <3>6. Naive = View(index) /\ Naive' = View(index')
      BY NaiveIsView, Zenon
    <3>7. Naive[h][q] = "REQUESTED"
      BY <3>1, Zenon DEF Naive, Candidate
    <3>8. index' = new /\ due' = Timed(new, due)
      BY <3>2, Zenon DEF Moves
    <3>9. Tracker!Expire(h, q)
      BY <2>1, <3>1, <3>4, <3>5, <3>6, <3>7, <3>8, Zenon DEF Tracker!Expire, Completed
    <3> QED  BY <3>9, Zenon DEF Tracker!Next
  <2> QED  BY <2>2, <2>3, ZenonT(60)
<1>3. CASE SetTimePointFuture(p)
  <2>1. PICK h \in TxHashes, q \in Peers :
            /\ Future(h, q) /\ have' = have
            /\ Moves(ChangeIndex(index, h, q, "DELAYED"), due)
    BY <1>3, FutureMoves, Zenon DEF RInv
  <2> DEFINE new == ChangeIndex(index, h, q, "DELAYED")
  <2>2. index[h][q] \in Selectable
    BY <2>1, Zenon DEF Future
  <2>3. View(new) = View(index)
    BY <1>1, <2>2, DelayView, Zenon
  <2>4. new \in [TxHashes -> Rows]
    BY <1>1, Zenon DEF ChangeIndex, Rows, States
  <2> HIDE DEF new
  <2>5. Moves(new, due)
    BY <2>1, Zenon DEF new
  <2> QED  BY <2>1, <2>3, <2>4, <2>5, SameView, Zenon
<1> QED  BY <1>2, <1>3, Zenon

\* Once no time is left to come or to be taken back, the best announcements are the ones
\* the naive tracker selects.
LEMMA BestIsSelected ==
    ASSUME RInv, NEW p \in Peers, NEW h \in TxHashes,
           \A g \in TxHashes, q \in Peers : ~ Past(g, q) /\ ~ Future(g, q)
    PROVE  p \in Tracker!GetSelected(h) <=> index[h][p] = "BEST"
<1>1. /\ index[h] \in Rows /\ Row(h, index[h])
      /\ \A q \in Peers : index[h][q] \in States /\ due[h][q] \in Int
  BY Zenon DEF RInv, IInv, Sane, TypeOK, Rows
<1>2. \A q \in Peers : /\ Naive[h][q] = "CANDIDATE" <=> index[h][q] \in Candidate
                       /\ Naive[h][q] = "REQUESTED" <=> index[h][q] = "REQUESTED"
  BY <1>1, Zenon DEF Naive, Candidate, States
<1>3. \A q \in Peers : /\ index[h][q] \in Selectable => due[h][q] <= 0
                       /\ index[h][q] = "DELAYED" => ~ (due[h][q] <= 0)
  BY <1>1 DEF Past, Future, Waiting
<1>4. ASSUME index[h][p] = "BEST"  PROVE p \in Tracker!GetSelected(h)
  <2>1. Naive[h][p] = "CANDIDATE" /\ due[h][p] <= 0
    BY <1>2, <1>3, <1>4, Zenon DEF Candidate, Selectable
  <2>2. ASSUME NEW q \in Peers  PROVE Naive[h][q] # "REQUESTED"
    BY <1>1, <1>2, <1>4, Zenon DEF Row, Selected
  <2>3. ASSUME NEW q \in Peers, q # p, Naive[h][q] = "CANDIDATE", due[h][q] <= 0
        PROVE  HigherPriority(h, p, q)
    <3>1. index[h][q] = "READY"
      BY <1>1, <1>2, <1>3, <1>4, <2>3, Zenon DEF Row, Selected, Candidate
    <3>2. PICK u \in Peers : /\ index[h][u] \in Selected
                             /\ index[h][u] = "BEST" => HigherPriority(h, u, q)
      BY <1>1, <3>1, Zenon DEF Row
    <3>3. u = p
      BY <1>1, <1>4, <3>2, Zenon DEF Row, Selected
    <3> QED  BY <1>4, <3>2, <3>3, Zenon
  <2> QED  BY <2>1, <2>2, <2>3, Zenon DEF Tracker!GetSelected
<1>5. ASSUME p \in Tracker!GetSelected(h)  PROVE index[h][p] = "BEST"
  <2>1. /\ Naive[h][p] = "CANDIDATE" /\ due[h][p] <= 0
        /\ \A q \in Peers : Naive[h][q] # "REQUESTED"
        /\ \A q \in Peers : (q # p /\ Naive[h][q] = "CANDIDATE" /\ due[h][q] <= 0)
                                => HigherPriority(h, p, q)
    BY <1>5, Zenon DEF Tracker!GetSelected
  <2>2. index[h][p] \in {"READY", "BEST"}
    BY <1>2, <1>3, <2>1, Zenon DEF Candidate
  <2>3. SUFFICES ASSUME index[h][p] = "READY"  PROVE FALSE
    BY <2>2, Zenon
  <2>4. PICK u \in Peers : /\ index[h][u] \in Selected
                           /\ index[h][u] = "BEST" => HigherPriority(h, u, p)
    BY <1>1, <2>3, Zenon DEF Row
  <2>5. index[h][u] = "BEST"
    BY <1>2, <2>1, <2>4, Zenon DEF Selected
  <2>6. u # p /\ HigherPriority(h, u, p)
    BY <2>3, <2>4, <2>5, Zenon
  <2>7. HigherPriority(h, p, u)
    BY <1>2, <1>3, <2>1, <2>5, <2>6, Zenon DEF Candidate, Selectable
  <2> QED  BY <2>6, <2>7, PriorityOrder, Zenon
<1> QED  BY <1>4, <1>5, Zenon

LEMMA RequestStep ==
    ASSUME RInv, IInv', NEW p \in Peers, SendGetdata(p)
    PROVE  Tracker!Request(p)
<1> DEFINE best == GetRequestable(p)
           wanted == best \ have
           asked == [h \in TxHashes |->
                        IF h \in wanted THEN RequestIndex(index, h, p)[h] ELSE index[h]]
           mine == {h \in TxHashes : p \in Tracker!GetSelected(h)}
           late == [h \in TxHashes |->
                        IF h \in mine THEN [due[h] EXCEPT ![p] = GetdataInterval] ELSE due[h]]
<1>1. /\ \A g \in TxHashes, q \in Peers : ~ Past(g, q) /\ ~ Future(g, q)
      /\ index' = ForgetAll(asked, best \cap have)
      /\ due' = Timed(index', DueAt(p, wanted, GetdataInterval))
      /\ have' = have
  <2>1. Moves(ForgetAll(asked, best \cap have), DueAt(p, wanted, GetdataInterval))
    BY GetdataMoves, Zenon DEF RInv
  <2>2. /\ \A g \in TxHashes, q \in Peers : ~ Past(g, q) /\ ~ Future(g, q)
        /\ have' = have
    BY Zenon DEF SendGetdata
  <2> HIDE DEF asked, best, wanted
  <2> QED  BY <2>1, <2>2, Zenon DEF Moves
<1>2. mine = best /\ best \subseteq TxHashes
  BY <1>1, BestIsSelected, Zenon DEF GetRequestable
<1>3. /\ index \in [TxHashes -> Rows] /\ index' \in [TxHashes -> Rows]
      /\ due \in [TxHashes -> [Peers -> Int]]
  BY Zenon DEF RInv, IInv, Sane, TypeOK
<1>4. Naive = View(index) /\ Naive' = View(index')
  BY NaiveIsView, Zenon
<1>5. \A h \in TxHashes, q \in Peers : ~ (Naive[h][q] = "REQUESTED" /\ due[h][q] <= 0)
  BY <1>1, Zenon DEF Naive, Past, Waiting, Candidate
<1>6. \A h \in best : index[h][p] = "BEST"
  BY Zenon DEF GetRequestable
<1> HIDE DEF best, mine
<1>7. ASSUME NEW h \in TxHashes
      PROVE  View(index')[h] = IF h \notin mine THEN View(index)[h]
                               ELSE IF h \in have THEN [q \in Peers |-> "NOTHING"]
                               ELSE [View(index)[h] EXCEPT ![p] = "REQUESTED"]
  <2>1. CASE h \notin mine
    <3>1. index'[h] = index[h]
      BY <1>1, <1>2, <2>1, Zenon DEF ForgetAll
    <3> QED  BY <2>1, <3>1, ZenonT(60) DEF View
  <2>2. CASE h \in mine /\ h \in have
    <3>1. index'[h] = [q \in Peers |-> "NONE"]
      BY <1>1, <1>2, <1>3, <2>2, Zenon DEF ForgetAll, ForgetIndex
    <3> QED  BY <2>2, <3>1, Zenon DEF View, NaiveState, Candidate
  <2>3. CASE h \in mine /\ h \notin have
    <3>1. index'[h] = RequestIndex(index, h, p)[h]
      BY <1>1, <1>2, <2>3, Zenon DEF ForgetAll
    <3>2. index[h][p] = "BEST"
      BY <1>2, <1>6, <2>3, Zenon
    <3>3. \A q \in Peers : index'[h][q] = IF q = p THEN "REQUESTED" ELSE index[h][q]
      BY <1>3, <3>1, <3>2, Zenon DEF RequestIndex, Candidate
    <3>4. \A q \in Peers : View(index')[h][q] = IF q = p THEN "REQUESTED" ELSE View(index)[h][q]
      BY <3>3, Zenon DEF View, NaiveState, Candidate
    <3>5. View(index')[h] = [q \in Peers |-> View(index')[h][q]]
          /\ View(index)[h] = [q \in Peers |-> View(index)[h][q]]
      BY Zenon DEF View
    <3> QED  BY <2>3, <3>4, <3>5, Zenon
  <2> QED  BY <2>1, <2>2, <2>3, Zenon
<1>8. View(index') = [h \in TxHashes |->
          IF h \notin mine THEN View(index)[h]
          ELSE IF h \in have THEN [q \in Peers |-> "NOTHING"]
          ELSE [View(index)[h] EXCEPT ![p] = "REQUESTED"]]
  <2>1. View(index') = [h \in TxHashes |-> View(index')[h]]
    BY Zenon DEF View
  <2> QED  BY <1>7, <2>1, Zenon
<1>9. due' = Tracker!Timed(View(index'), late)
  <2>1. ASSUME NEW h \in TxHashes, NEW q \in Peers
        PROVE  (IF index'[h][q] \in {"NONE", "COMPLETED"} THEN 0 ELSE late[h][q])
               = IF index'[h][q] \in {"NONE", "COMPLETED"} THEN 0
                 ELSE DueAt(p, wanted, GetdataInterval)[h][q]
    <3>1. CASE h \in mine /\ h \in have
      <4>1. index'[h][q] = "NONE"
        BY <1>1, <1>2, <1>3, <3>1, Zenon DEF ForgetAll, ForgetIndex
      <4> QED  BY <4>1, Zenon
    <3>2. CASE ~ (h \in mine /\ h \in have)
      <4>1. h \in wanted <=> h \in mine
        BY <1>2, <3>2, Zenon
      <4>2. DueAt(p, wanted, GetdataInterval)[h] = late[h]
        <5> HIDE DEF wanted
        <5> QED  BY <4>1, Zenon DEF DueAt
      <4> QED  BY <4>2, Zenon
    <3> QED  BY <3>1, <3>2, Zenon
  <2> HIDE DEF late, wanted
  <2>2. Timed(index', late) = Timed(index', DueAt(p, wanted, GetdataInterval))
    BY <2>1, Zenon DEF Timed
  <2>3. Tracker!Timed(View(index'), late) = Timed(index', late)
    BY <1>3, ViewTimes, Zenon
  <2> QED  BY <1>1, <2>2, <2>3, Zenon DEF wanted
<1> QED  BY <1>1, <1>4, <1>5, <1>8, <1>9, ZenonT(60) DEF Tracker!Request, mine

LEMMA ClockStep ==
    ASSUME RInv, NEW d \in {-1, 1}, MoveClock(d)
    PROVE  \E f \in 0 .. MaxSetBack : Tracker!Clock(d, f)
<1> DEFINE f == MaxSetBack - setbacks
           later == [h \in TxHashes |-> [p \in Peers |->
                        IF due[h][p] + d < - f THEN - f ELSE due[h][p] + d]]
<1>1. setbacks \in 0 .. MaxSetBack /\ MaxSetBack \in Nat
  BY DelayAssumption, Zenon DEF RInv, IInv, TypeOK
<1>2. f \in 0 .. MaxSetBack /\ - f = Furthest
  BY <1>1 DEF Furthest
<1>3. due' = Timed(index, later) /\ index' = index /\ have' = have
  BY <1>2, Zenon DEF MoveClock
<1>4. Naive' = Naive
  BY <1>3, Zenon DEF Naive
<1>5. Tracker!Timed(Naive, later) = Timed(index, later)
  <2>1. index \in [TxHashes -> Rows]
    BY Zenon DEF RInv, IInv, Sane
  <2> HIDE DEF later
  <2> QED  BY <2>1, ViewTimes, NaiveIsView, Zenon
<1>6. Tracker!Clock(d, f)
  <2> HIDE DEF f
  <2> QED  BY <1>3, <1>4, <1>5, Zenon DEF Tracker!Clock
<1> QED  BY <1>2, <1>6, Zenon

\* Every handler leaves the times of what is no longer awaited at zero.
LEMMA TimesKept == RInv /\ [Next]_vars => RInv'
<1> SUFFICES ASSUME RInv, [Next]_vars  PROVE RInv'
  BY Zenon
<1>1. IInv'
  BY NextKeeps, Zenon DEF RInv
<1>2. ASSUME NEW d, due' = Timed(index', d)  PROVE due' = Timed(index', due')
  <2>1. Timed(index', Timed(index', d)) = Timed(index', d)
    BY Zenon DEF Timed
  <2> QED  BY <1>2, <2>1, Zenon
<1>3. (\E d : due' = Timed(index', d)) \/ (index' = index /\ due' = due)
  <2>1. ASSUME NEW t, NEW d, Becomes(t, d)  PROVE \E e : due' = Timed(index', e)
    BY <2>1, Zenon DEF Becomes
  <2>3. ASSUME NEW d, MoveClock(d)  PROVE \E e : due' = Timed(index', e)
    BY <2>3, Zenon DEF MoveClock
  <2>4. ASSUME NEW p, NEW tx, Tx(p, tx)  PROVE \E e : due' = Timed(index', e)
    <3>1. CASE TxOrphan(p, tx)
      BY <2>1, <3>1, Zenon DEF TxOrphan
    <3>2. CASE \E verdict \in {"known", "final", "rejected", "stripped"} :
                  TxSettled(p, tx, verdict)
      BY <2>1, <3>2, Zenon DEF TxSettled
    <3> QED  BY <2>4, <3>1, <3>2, Zenon DEF Tx
  <2>5. ASSUME NEW p, FinalizeNode(p) \/ SetTimePointPast(p) \/ SetTimePointFuture(p)
                      \/ SendGetdata(p)
        PROVE  \E e : due' = Timed(index', e)
    BY <2>1, <2>5, Zenon DEF FinalizeNode, SetTimePointPast, SetTimePointFuture, SendGetdata
  <2>6. ASSUME NEW p, NEW h, Inv(p, h) \/ NotFound(p, h)
        PROVE  \E e : due' = Timed(index', e)
    BY <2>1, <2>6, Zenon DEF Inv, NotFound
  <2>7. ASSUME NEW tx, BlockConnected(tx)  PROVE \E e : due' = Timed(index', e)
    BY <2>1, <2>7, Zenon DEF BlockConnected
  <2>8. ASSUME \/ \E p \in Peers : InitializeNode(p)
               \/ \E tx \in Txs : Submitted(tx)
               \/ \E h \in TxHashes : NoLongerKnown(h)
               \/ UNCHANGED vars
        PROVE  index' = index /\ due' = due
    BY <2>8, Zenon DEF InitializeNode, Submitted, NoLongerKnown, vars
  <2>9. Tick \/ SetBack => \E e : due' = Timed(index', e)
    BY <2>3, Zenon DEF Tick, SetBack
  <2> QED  BY <2>4, <2>5, <2>6, <2>7, <2>8, <2>9, Zenon DEF Next
<1>4. due' = Timed(index', due')
  <2>1. CASE \E d : due' = Timed(index', d)
    BY <1>2, <2>1
  <2>2. CASE index' = index /\ due' = due
    BY <2>2, Zenon DEF RInv
  <2> QED  BY <1>3, <2>1, <2>2, Zenon
<1> QED  BY <1>1, <1>4, Zenon DEF RInv

\* Every step is one of the naive tracker, or none.
LEMMA NaiveStep ==
    ASSUME Peers # {}, RInv, [Next]_vars
    PROVE  [Tracker!Next]_(Tracker!vars)
<1>1. IInv' /\ RInv'
  BY TimesKept, Zenon DEF RInv
<1>2. ASSUME NEW p \in Peers, \E delay \in Delays : Tracker!Handle(p, delay)
      PROVE  [Tracker!Next]_(Tracker!vars)
  BY <1>2, Zenon DEF Tracker!Next
<1>3. ASSUME NEW forget \in SUBSET TxHashes, forget \subseteq have',
             index' = ForgetAll(index, forget), due' = Timed(index', due)
      PROVE  [Tracker!Next]_(Tracker!vars)
  <2>1. PICK p \in Peers : TRUE
    BY Zenon
  <2>2. \E delay \in Delays : Tracker!Handle(p, delay)
    BY <1>1, <1>3, WantedStep, Zenon
  <2> QED  BY <1>2, <2>2, Zenon
<1>4. ASSUME index' = index, due' = due  PROVE [Tracker!Next]_(Tracker!vars)
  <2>1. ForgetAll(index, {}) = index
    BY Zenon DEF ForgetAll, RInv, IInv, Sane
  <2>2. index' = ForgetAll(index, {}) /\ due' = Timed(index', due) /\ {} \subseteq have'
    BY <1>4, <2>1, Zenon DEF RInv
  <2> QED  BY <1>3, <2>2
<1>5. ASSUME NEW p \in Peers, NEW tx \in Txs, Tx(p, tx)
      PROVE  [Tracker!Next]_(Tracker!vars)
  <2>1. CASE TxOrphan(p, tx)
    BY <1>1, <1>2, <2>1, TxOrphanStep, Zenon
  <2>2. ASSUME NEW verdict \in {"known", "final", "rejected", "stripped"},
               TxSettled(p, tx, verdict)
        PROVE  [Tracker!Next]_(Tracker!vars)
    BY <1>1, <1>2, <2>2, TxSettledStep, Zenon
  <2> QED  BY <1>5, <2>1, <2>2, Zenon DEF Tx
<1>6. ASSUME NEW p \in Peers, FinalizeNode(p)  PROVE [Tracker!Next]_(Tracker!vars)
  <2>1. Tracker!DisconnectedPeer(p)
    BY <1>6, FinalizeStep, Zenon
  <2> QED  BY <2>1, Zenon DEF Tracker!Next
<1>7. ASSUME NEW p \in Peers, SendGetdata(p)  PROVE [Tracker!Next]_(Tracker!vars)
  <2>1. Tracker!Request(p)
    BY <1>1, <1>7, RequestStep, Zenon
  <2> QED  BY <2>1, Zenon DEF Tracker!Next
<1>8. ASSUME NEW tx \in Txs, BlockConnected(tx)  PROVE [Tracker!Next]_(Tracker!vars)
  <2>1. Hashes(tx) \in SUBSET TxHashes /\ Moves(ForgetAll(index, Hashes(tx)), due)
    BY <1>8, BlockMoves, Zenon DEF RInv
  <2>2. /\ index' = ForgetAll(index, Hashes(tx)) /\ due' = Timed(index', due)
        /\ Hashes(tx) \subseteq have'
    BY <1>8, <2>1, Zenon DEF BlockConnected, Moves
  <2> QED  BY <1>3, <2>1, <2>2, Zenon
<1>9. ASSUME NEW d \in {-1, 1}, MoveClock(d)  PROVE [Tracker!Next]_(Tracker!vars)
  <2>1. \E f \in 0 .. MaxSetBack : Tracker!Clock(d, f)
    BY <1>9, ClockStep, Zenon
  <2> QED  BY <2>1, Zenon DEF Tracker!Next
<1>10. ASSUME NEW p \in Peers, SetTimePointPast(p) \/ SetTimePointFuture(p)
       PROVE  [Tracker!Next]_(Tracker!vars)
  BY <1>10, SetTimePointStep, Zenon
<1>11. ASSUME NEW p \in Peers, NEW tx \in Txs, Inv(p, AnnouncedBy(p, tx))
       PROVE  [Tracker!Next]_(Tracker!vars)
  BY <1>1, <1>2, <1>11, InvStep, Zenon
<1>12. ASSUME NEW p \in Peers, NEW h \in TxHashes, NotFound(p, h)
       PROVE  [Tracker!Next]_(Tracker!vars)
  BY <1>1, <1>2, <1>12, NotFoundStep, Zenon
<1>13. Tick \/ SetBack => [Tracker!Next]_(Tracker!vars)
  <2>1. -1 \in {-1, 1} /\ 1 \in {-1, 1}
    BY Zenon
  <2> QED  BY <1>9, <2>1, Zenon DEF Tick, SetBack
<1>14. ASSUME \/ \E p \in Peers : InitializeNode(p)
              \/ \E tx \in Txs : Submitted(tx)
              \/ \E h \in TxHashes : NoLongerKnown(h)
              \/ UNCHANGED vars
       PROVE  [Tracker!Next]_(Tracker!vars)
  <2>1. index' = index /\ due' = due
    BY <1>14, Zenon DEF InitializeNode, Submitted, NoLongerKnown, vars
  <2> QED  BY <1>4, <2>1, Zenon
<1> QED  BY <1>5, <1>6, <1>7, <1>8, <1>10, <1>11, <1>12, <1>13, <1>14, Zenon DEF Next

\* The initial states map to initial states.
LEMMA NaiveInit == Init => RInv /\ Tracker!Init
<1> SUFFICES ASSUME Init  PROVE RInv /\ Tracker!Init
  BY Zenon
<1>1. IInv
  BY InitKeeps, Zenon
<1>2. due = Timed(index, due)
  BY Zenon DEF Init, Timed
<1>3. Naive = [h \in TxHashes |-> [p \in Peers |-> "NOTHING"]]
  BY Zenon DEF Init, Naive, Candidate
<1> QED  BY <1>1, <1>2, <1>3, Zenon DEF RInv, Init, Tracker!Init

(***************************************************************************)
(* The request tracker, driven by the handlers of net_processing, does     *)
(* what the naive implementation of its fuzz test does, for any peers,     *)
(* transactions, priorities, delays and limits: whatever order the         *)
(* announcements, answers, expiries and clock changes come in, a peer is   *)
(* asked for exactly the hashes of which it is the best candidate by then. *)
(***************************************************************************)
THEOREM TrackerIsNaive ==
    ASSUME Peers # {}
    PROVE  Spec => ImplementsTxTracker
<1>1. RInv /\ [Next]_vars => [Tracker!Next]_(Tracker!vars)
  BY NaiveStep, Zenon
<1> QED  BY <1>1, NaiveInit, TimesKept, PTL DEF Spec, ImplementsTxTracker, Tracker!Spec
=============================================================================
