----------------------------- MODULE TxRequest -----------------------------
(***************************************************************************)
(* The transaction request tracker (src/txrequest.cpp): which peer is      *)
(* asked for which announced transaction.  A tracker t is a record: the    *)
(* multi-index m_index is t.index, a function from transaction hash and    *)
(* peer to the state of that announcement, "NONE" when there is none, and  *)
(* m_peerinfo is t.info, the counters of each peer.  The operators below   *)
(* are the member functions of TxRequestTracker::Impl on such a record.    *)
(* The sequence number of an announcement (it only orders the entries of   *)
(* one getdata) and the flag m_is_wtxid (copied to the getdata) are left   *)
(* out.                                                                    *)
(***************************************************************************)
EXTENDS Integers, FiniteSets

CONSTANTS TxHashes,       \* transaction hashes, txids and wtxids alike
          Peers,          \* node identifiers
          PreferredPeers, \* the peers with fPreferredDownload
          LowBits,        \* the salted hash of a transaction and a peer
          MaxLowBits      \* the largest value it can have

(***************************************************************************)
(* Two peers of a transaction never draw the same salted hash: the code    *)
(* takes 63 bits of SipHash for it.                                        *)
(***************************************************************************)
ASSUME LowBitsAssumption ==
    /\ MaxLowBits \in Nat
    /\ LowBits \in [TxHashes -> [Peers -> 0 .. MaxLowBits]]
    /\ \A h \in TxHashes : \A p, q \in Peers :
          LowBits[h][p] = LowBits[h][q] => p = q
ASSUME FiniteAssumption == IsFiniteSet(TxHashes)

Waiting == {"DELAYED", "REQUESTED"}
Selectable == {"READY", "BEST"}
Selected == {"BEST", "REQUESTED"}
Candidate == {"DELAYED", "READY", "BEST"}
States == {"NONE", "DELAYED", "READY", "BEST", "REQUESTED", "COMPLETED"}

(***************************************************************************)
(* Priorities: preferred peers come before all others (bit 63).            *)
(***************************************************************************)
HigherPriority(h, p, q) ==
    IF (p \in PreferredPeers) = (q \in PreferredPeers)
      THEN LowBits[h][p] > LowBits[h][q]
      ELSE p \in PreferredPeers

(***************************************************************************)
(* The ByTxHash index: the announcements of a hash ordered by state, the   *)
(* ready ones by priority.                                                 *)
(***************************************************************************)
Rank(s) ==
    CASE s = "DELAYED" -> 1 [] s = "READY" -> 2 [] s = "BEST" -> 3
      [] s = "REQUESTED" -> 4 [] s = "COMPLETED" -> 5 [] OTHER -> 0

ByTxHash(st, h, p, q) ==
    \/ Rank(st[h][p]) < Rank(st[h][q])
    \/ st[h][p] = "READY" /\ st[h][q] = "READY" /\ HigherPriority(h, q, p)

Announced(st, h) == {p \in Peers : st[h][p] # "NONE"}

\* std::next and std::prev of an announcement, while they have its hash
NextOf(st, h, p) ==
    {q \in Announced(st, h) :
        /\ ByTxHash(st, h, p, q)
        /\ ~ \E r \in Announced(st, h) : ByTxHash(st, h, p, r) /\ ByTxHash(st, h, r, q)}

PrevOf(st, h, p) ==
    {q \in Announced(st, h) :
        /\ ByTxHash(st, h, q, p)
        /\ ~ \E r \in Announced(st, h) : ByTxHash(st, h, q, r) /\ ByTxHash(st, h, r, p)}

(***************************************************************************)
(* The counters of a peer: a peer without an entry in m_peerinfo counts as *)
(* one with NoInfo, which is also what a new entry holds.  m_index changes *)
(* only through the wrappers Erase and Modify, which keep the counters of  *)
(* the peer up to date, and in ReceivedInv.                                *)
(***************************************************************************)
NoInfo == [total |-> 0, requested |-> 0, completed |-> 0]

One(b) == IF b THEN 1 ELSE 0

Erase(t, h, p) ==
    LET s == t.index[h][p]
        i == [total     |-> t.info[p].total - 1,
              requested |-> t.info[p].requested - One(s = "REQUESTED"),
              completed |-> t.info[p].completed - One(s = "COMPLETED")]
    IN  [index |-> [t.index EXCEPT ![h][p] = "NONE"],
         info  |-> [t.info EXCEPT ![p] = IF i.total = 0 THEN NoInfo ELSE i]]

\* Mutant: what the announcement was counted as before is not taken off.
ModifyAdding(t, h, p, s) ==
    [index |-> [t.index EXCEPT ![h][p] = s],
     info  |-> [t.info EXCEPT ![p] =
                  [@ EXCEPT !.requested = @ + One(s = "REQUESTED"),
                            !.completed = @ + One(s = "COMPLETED")]]]

Modify(t, h, p, s) ==
    LET old == t.index[h][p]
        i   == t.info[p]
    IN  [index |-> [t.index EXCEPT ![h][p] = s],
         info  |-> [t.info EXCEPT ![p] =
                      [total     |-> i.total,
                       requested |-> i.requested - One(old = "REQUESTED") + One(s = "REQUESTED"),
                       completed |-> i.completed - One(old = "COMPLETED") + One(s = "COMPLETED")]]]

\* a new announcement, unless the peer has already announced the hash
ReceivedInv(t, h, p) ==
    IF t.index[h][p] # "NONE" THEN t
    ELSE [index |-> [t.index EXCEPT ![h][p] = "DELAYED"],
          info  |-> [t.info EXCEPT ![p].total = @ + 1]]

\* Mutant: what becomes ready is the best at once.
PromoteCandidateReadyAlways(t, h, p) ==
    LET best == {q \in Peers : t.index[h][q] = "BEST"}
        free == IF best = {} THEN t ELSE Modify(t, h, CHOOSE q \in best : TRUE, "READY")
    IN  Modify(free, h, p,
               IF \E r \in Peers : t.index[h][r] = "REQUESTED" THEN "READY" ELSE "BEST")

(***************************************************************************)
(* A delayed announcement becomes ready, and best when it is better than   *)
(* the best one and nothing is requested.                                  *)
(***************************************************************************)
PromoteCandidateReady(t, h, p) ==
    LET ready == Modify(t, h, p, "READY")
        next  == NextOf(ready.index, h, p)
        q     == CHOOSE q \in next : TRUE
    IN  IF \A r \in next : ready.index[h][r] = "COMPLETED"
          THEN Modify(ready, h, p, "BEST")
          ELSE IF ready.index[h][q] = "BEST" /\ HigherPriority(h, p, q)
                 THEN Modify(Modify(ready, h, q, "READY"), h, p, "BEST")
                 ELSE ready

(***************************************************************************)
(* A selected announcement that changes hands over to the ready one just   *)
(* before it.                                                              *)
(***************************************************************************)
ChangeAndReselect(t, h, p, new) ==
    LET prev == {q \in PrevOf(t.index, h, p) : t.index[h][q] = "READY"}
    IN  IF t.index[h][p] \in Selected /\ prev # {}
          THEN Modify(Modify(t, h, CHOOSE q \in prev : TRUE, "BEST"), h, p, new)
          ELSE Modify(t, h, p, new)

\* Mutant: delayed announcements are overlooked.
IsOnlyReady(st, h, p) ==
    \A q \in Announced(st, h) \ {p} : st[h][q] \in {"COMPLETED", "DELAYED"}

IsOnlyNonCompleted(st, h, p) ==
    \A q \in Announced(st, h) \ {p} : st[h][q] = "COMPLETED"

(***************************************************************************)
(* Every announcement of a hash is erased.  They are of different peers,   *)
(* so no two of the calls touch the same counters.                         *)
(***************************************************************************)
ForgetTxHash(t, h) ==
    [index |-> [t.index EXCEPT ![h] = [q \in Peers |-> "NONE"]],
     info  |-> [q \in Peers |->
                  IF q \in Announced(t.index, h) THEN Erase(t, h, q).info[q] ELSE t.info[q]]]

(***************************************************************************)
(* An announcement is done with; the last one takes the completed ones of  *)
(* its hash along.                                                         *)
(***************************************************************************)
MakeCompleted(t, h, p) ==
    IF t.index[h][p] = "COMPLETED" THEN t
    ELSE IF IsOnlyNonCompleted(t.index, h, p) THEN ForgetTxHash(t, h)
    ELSE ChangeAndReselect(t, h, p, "COMPLETED")

ReceivedResponse(t, h, p) ==
    IF t.index[h][p] = "NONE" THEN t ELSE MakeCompleted(t, h, p)

(***************************************************************************)
(* A peer leaves: each of its announcements, in whatever order, is         *)
(* completed and then erased, unless it went with the last of its hash.    *)
(***************************************************************************)
CompletedAndErased(t, h, p) ==
    LET c == MakeCompleted(t, h, p)
    IN  IF c.index[h][p] = "NONE" THEN c ELSE Erase(c, h, p)

DisconnectedPeer(t, p) ==
    LET its == {h \in TxHashes : t.index[h][p] # "NONE"}
        left[S \in SUBSET its] ==
            IF S = {} THEN t
            ELSE LET h == CHOOSE h \in S : TRUE
                 IN  CompletedAndErased(left[S \ {h}], h, p)
    IN  left[its]

(***************************************************************************)
(* A peer is asked for a hash.  When its announcement is not the best one, *)
(* the one selected so far steps back: a best one to ready, a requested    *)
(* one to completed.                                                       *)
(***************************************************************************)
RequestedTx(t, h, p) ==
    LET old == {q \in Peers : t.index[h][q] \in Selected}
        q   == CHOOSE q \in old : TRUE
    IN  IF t.index[h][p] \notin Candidate THEN t
        ELSE IF t.index[h][p] = "BEST" \/ old = {} THEN Modify(t, h, p, "REQUESTED")
        ELSE Modify(Modify(t, h, q, IF t.index[h][q] = "BEST" THEN "READY" ELSE "COMPLETED"),
                    h, p, "REQUESTED")

=============================================================================
