----------------------------- MODULE TxDownload -----------------------------
(***************************************************************************)
(* Fetching announced transactions: the handlers of                        *)
(* src/net_processing.cpp that drive the transaction request tracker, the  *)
(* peers that may answer, answer late, say "notfound", stay silent or      *)
(* leave, and the clock that decides when a request has expired.           *)
(*                                                                         *)
(* Times are kept relative to the clock: due[h][p] is the m_time of an     *)
(* announcement less the current time.  The system clock may be set back,  *)
(* MaxSetBack times in a behaviour, so a time that lies further back than  *)
(* it can still be set is kept there: it can never be in the future again. *)
(***************************************************************************)
EXTENDS TxRequest

CONSTANTS Txs,              \* transactions: records with txid, wtxid, parents
          WtxidPeers,       \* the peers that negotiated wtxidrelay
          MaxAnnouncements, \* MAX_PEER_TX_ANNOUNCEMENTS
          MaxInFlight,      \* MAX_PEER_TX_REQUEST_IN_FLIGHT
          NonprefDelay,     \* NONPREF_PEER_TX_DELAY
          TxidDelay,        \* TXID_RELAY_DELAY
          OverloadedDelay,  \* OVERLOADED_PEER_TX_DELAY
          GetdataInterval,  \* GETDATA_TX_INTERVAL
          MaxSetBack,       \* bound: how often the clock is set back
          NoPeer

ASSUME DelayAssumption ==
    /\ NonprefDelay \in Nat /\ TxidDelay \in Nat /\ OverloadedDelay \in Nat
    /\ GetdataInterval \in Nat \ {0} /\ MaxSetBack \in Nat
    /\ MaxAnnouncements \in Nat /\ MaxInFlight \in Nat
    /\ NoPeer \notin Peers
    /\ Txs \subseteq [txid : TxHashes, wtxid : TxHashes, parents : SUBSET TxHashes]

VARIABLES index,      \* m_txrequest's m_index
          due,        \* the m_time of each announcement, less the time now
          peerinfo,   \* m_txrequest's m_peerinfo
          connected,  \* mapNodeState
          gone,       \* the identifiers used up: none is given out twice
          have,       \* the hashes for which AlreadyHaveTx() is true
          sending,    \* the peer whose SendMessages is in GetRequestable
          setbacks    \* how often the clock has been set back

vars == <<index, due, peerinfo, connected, gone, have, sending, setbacks>>

Init ==
    /\ index = [h \in TxHashes |-> [p \in Peers |-> "NONE"]]
    /\ due = [h \in TxHashes |-> [p \in Peers |-> 0]]
    /\ peerinfo = [p \in Peers |-> NoInfo]
    /\ connected = {} /\ gone = {} /\ have = {}
    /\ sending = NoPeer /\ setbacks = 0

\* no handler holds cs_main
Idle == sending = NoPeer

\* times matter only for what waits or may be asked for
Timed(st, d) ==
    [h \in TxHashes |-> [p \in Peers |->
        IF st[h][p] \in {"NONE", "COMPLETED"} THEN 0 ELSE d[h][p]]]

m_txrequest == [index |-> index, info |-> peerinfo]

\* m_txrequest becomes t, and d are the times (the quantifier only names the value of t)
Becomes(t, d) ==
    \E new \in {t} :
        /\ index' = new.index
        /\ due' = Timed(new.index, d)
        /\ peerinfo' = new.info

Hashes(tx) == {tx.txid, tx.wtxid}

(***************************************************************************)
(* AddTxAnnouncement: the delay of a request, and the hashes of inv that   *)
(* become new announcements when at most MaxAnnouncements are kept.        *)
(***************************************************************************)
Delay(p, isWtxid, info) ==
    (IF p \in PreferredPeers THEN 0 ELSE NonprefDelay)
    + (IF ~ isWtxid /\ WtxidPeers \cap connected # {} THEN TxidDelay ELSE 0)
    + (IF info[p].requested >= MaxInFlight THEN OverloadedDelay ELSE 0)

NewAnnouncements(t, p, inv) ==
    LET new  == {h \in inv : t.index[h][p] = "NONE"}
        room == IF t.info[p].total >= MaxAnnouncements
                  THEN 0 ELSE MaxAnnouncements - t.info[p].total
    IN  {a \in SUBSET new :
            Cardinality(a) = IF Cardinality(new) < room THEN Cardinality(new) ELSE room}

\* ReceivedInv for each of them
AddTxAnnouncement(t, p, new) ==
    LET added[S \in SUBSET new] ==
            IF S = {} THEN t
            ELSE LET h == CHOOSE h \in S : TRUE IN ReceivedInv(added[S \ {h}], h, p)
    IN  added[new]

DueAt(p, new, time) ==
    [h \in TxHashes |-> IF h \in new THEN [due[h] EXCEPT ![p] = time] ELSE due[h]]

(***************************************************************************)
(* Connections.                                                            *)
(***************************************************************************)
InitializeNode(p) ==
    /\ Idle /\ p \notin connected \cup gone
    /\ connected' = connected \cup {p}
    /\ UNCHANGED <<index, due, peerinfo, gone, have, sending, setbacks>>

FinalizeNode(p) ==
    /\ Idle /\ p \in connected
    /\ Becomes(DisconnectedPeer(m_txrequest, p), due)
    /\ connected' = connected \ {p}
    /\ gone' = gone \cup {p}
    /\ UNCHANGED <<have, sending, setbacks>>

(***************************************************************************)
(* An inv: the peer announces a transaction by its txid or its wtxid,      *)
(* whichever was negotiated.                                               *)
(***************************************************************************)
Inv(p, h) ==
    /\ Idle /\ p \in connected /\ h \notin have
    /\ \E new \in NewAnnouncements(m_txrequest, p, {h}) :
          Becomes(AddTxAnnouncement(m_txrequest, p, new),
                  DueAt(p, new, Delay(p, p \in WtxidPeers, peerinfo)))
    /\ UNCHANGED <<connected, gone, have, sending, setbacks>>

AnnouncedBy(p, tx) == IF p \in WtxidPeers THEN tx.wtxid ELSE tx.txid

(***************************************************************************)
(* A tx message, asked for or not, in time or late.  It answers for both   *)
(* hashes; what follows depends on what the node makes of it.  Verdicts:   *)
(*  "known"    the wtxid is one AlreadyHaveTx() knows;                     *)
(*  "final"    accepted, or refused whatever its witness (rejected parent, *)
(*             non-standard inputs): both hashes are settled;              *)
(*  "rejected" refused, perhaps for its witness: only the wtxid is settled;*)
(*  "stripped" witness missing: nothing is settled;                        *)
(*  "orphan"   inputs missing: the parents are announced by this peer, in  *)
(*             txid mode, and the orphan is kept (one dropped at once, for *)
(*             its size or want of room, is NoLongerKnown the step after). *)
(***************************************************************************)
Answered(p, tx) == ReceivedResponse(ReceivedResponse(m_txrequest, tx.txid, p), tx.wtxid, p)

Forget(t, tx) == ForgetTxHash(ForgetTxHash(t, tx.txid), tx.wtxid)

TxSettled(p, tx, verdict) ==
    LET answered == Answered(p, tx)
        settled  == CASE verdict = "final" -> Hashes(tx)
                      [] verdict = "rejected" -> {tx.wtxid}
                      [] verdict \in {"stripped", "known"} -> {}
    IN  /\ (tx.wtxid \in have) <=> (verdict = "known")
        /\ Becomes(CASE verdict = "final" -> Forget(answered, tx)
                     [] verdict = "rejected" -> ForgetTxHash(answered, tx.wtxid)
                     [] verdict \in {"stripped", "known"} -> answered, due)
        /\ have' = have \cup settled

TxOrphan(p, tx) ==
    LET answered == Answered(p, tx)
    IN  /\ tx.wtxid \notin have /\ tx.parents # {}
        /\ \E new \in NewAnnouncements(answered, p, tx.parents \ have) :
              Becomes(Forget(AddTxAnnouncement(answered, p, new), tx),
                      DueAt(p, new, Delay(p, FALSE, answered.info)))
        /\ have' = have \cup Hashes(tx)

Tx(p, tx) ==
    /\ Idle /\ p \in connected
    /\ \/ \E verdict \in {"known", "final", "rejected", "stripped"} : TxSettled(p, tx, verdict)
       \/ TxOrphan(p, tx)
    /\ UNCHANGED <<connected, gone, sending, setbacks>>

\* a notfound message
NotFound(p, h) ==
    /\ Idle /\ p \in connected
    /\ Becomes(ReceivedResponse(m_txrequest, h, p), due)
    /\ UNCHANGED <<connected, gone, have, sending, setbacks>>

(***************************************************************************)
(* SendMessages to a peer, holding cs_main from the first of these steps   *)
(* to SendGetdata: SetTimePoint takes the announcements whose time has     *)
(* come, oldest first, then, when the clock was set back, those whose time *)
(* lies in the future again, latest first.  The peer is then asked for all *)
(* its best announcements.                                                 *)
(***************************************************************************)
InSendMessages(p) == sending = p \/ (Idle /\ p \in connected)

\* Mutant: requests do not expire.
PastDelayed(h, p) == index[h][p] = "DELAYED" /\ due[h][p] <= 0

Past(h, p) == index[h][p] \in Waiting /\ due[h][p] <= 0

Future(h, p) == index[h][p] \in Selectable /\ due[h][p] > 0

SetTimePointPast(p) ==
    \E h \in TxHashes, q \in Peers :
        /\ InSendMessages(p) /\ Past(h, q)
        /\ \A g \in TxHashes, r \in Peers : Past(g, r) => due[h][q] <= due[g][r]
        /\ Becomes(IF index[h][q] = "DELAYED" THEN PromoteCandidateReady(m_txrequest, h, q)
                                              ELSE MakeCompleted(m_txrequest, h, q), due)
        /\ sending' = p
        /\ UNCHANGED <<connected, gone, have, setbacks>>

SetTimePointFuture(p) ==
    \E h \in TxHashes, q \in Peers :
        /\ InSendMessages(p) /\ Future(h, q)
        /\ \A g \in TxHashes, r \in Peers : ~ Past(g, r)
        /\ \A g \in TxHashes, r \in Peers : Future(g, r) => due[g][r] <= due[h][q]
        /\ Becomes(ChangeAndReselect(m_txrequest, h, q, "DELAYED"), due)
        /\ sending' = p
        /\ UNCHANGED <<connected, gone, have, setbacks>>

GetRequestable(p) == {h \in TxHashes : index[h][p] = "BEST"}

\* each of them is asked for, or forgotten when it is known by now
Request(t, p, hashes) ==
    LET done[S \in SUBSET hashes] ==
            IF S = {} THEN t
            ELSE LET h == CHOOSE h \in S : TRUE
                 IN  IF h \in have THEN ForgetTxHash(done[S \ {h}], h)
                                   ELSE RequestedTx(done[S \ {h}], h, p)
    IN  done[hashes]

SendGetdata(p) ==
    /\ InSendMessages(p)
    /\ \A g \in TxHashes, q \in Peers : ~ Past(g, q) /\ ~ Future(g, q)
    /\ Becomes(Request(m_txrequest, p, GetRequestable(p)),
               DueAt(p, GetRequestable(p) \ have, GetdataInterval))
    /\ sending' = NoPeer
    /\ UNCHANGED <<connected, gone, have, setbacks>>

(***************************************************************************)
(* BlockConnected.  The code fills the filter of confirmed transactions    *)
(* under a lock of its own before it takes cs_main and forgets the         *)
(* requests; Submitted below puts a hash into "have" at any earlier        *)
(* moment, so that one step loses nothing.                                 *)
(***************************************************************************)
BlockConnected(tx) ==
    /\ Idle
    /\ Becomes(Forget(m_txrequest, tx), due)
    /\ have' = have \cup Hashes(tx)
    /\ UNCHANGED <<connected, gone, sending, setbacks>>

(***************************************************************************)
(* What AlreadyHaveTx() knows also changes without a message: a            *)
(* transaction of this node's wallet or RPC enters the memory pool, one is *)
(* evicted, a filter is reset for a new tip.                               *)
(***************************************************************************)
Submitted(tx) ==
    /\ Idle /\ have' = have \cup Hashes(tx)
    /\ UNCHANGED <<index, due, peerinfo, connected, gone, sending, setbacks>>

NoLongerKnown(h) ==
    /\ Idle /\ have' = have \ {h}
    /\ UNCHANGED <<index, due, peerinfo, connected, gone, sending, setbacks>>

(***************************************************************************)
(* The clock.                                                              *)
(***************************************************************************)
Furthest == setbacks - MaxSetBack

MoveClock(d) ==
    /\ Idle
    /\ due' = Timed(index, [h \in TxHashes |-> [p \in Peers |->
                   IF due[h][p] + d < Furthest THEN Furthest ELSE due[h][p] + d]])
    /\ UNCHANGED <<index, peerinfo, connected, gone, have, sending>>

Tick == MoveClock(-1) /\ setbacks' = setbacks

SetBack == setbacks < MaxSetBack /\ MoveClock(1) /\ setbacks' = setbacks + 1

Next ==
    \/ \E p \in Peers : \/ InitializeNode(p) \/ FinalizeNode(p)
                         \/ SetTimePointPast(p) \/ SetTimePointFuture(p) \/ SendGetdata(p)
    \/ \E p \in Peers, tx \in Txs : Inv(p, AnnouncedBy(p, tx)) \/ Tx(p, tx)
    \/ \E p \in Peers, h \in TxHashes : NotFound(p, h)
    \/ \E tx \in Txs : BlockConnected(tx) \/ Submitted(tx)
    \/ \E h \in TxHashes : NoLongerKnown(h)
    \/ Tick \/ SetBack

(***************************************************************************)
(* Fairness: the clock advances, a handler that runs finishes, and the     *)
(* message handler thread serves every connected peer again and again.     *)
(***************************************************************************)
Fairness ==
    /\ SF_vars(Tick)
    /\ WF_vars(\E p \in Peers : SetTimePointPast(p) \/ SetTimePointFuture(p))
    /\ \A p \in Peers : SF_vars(SendGetdata(p))

Spec == Init /\ [][Next]_vars

FairSpec == Spec /\ Fairness

-----------------------------------------------------------------------------
(***************************************************************************)
(* The variables have their types; no counter of m_peerinfo, unsigned in   *)
(* the code, goes below zero.                                              *)
(***************************************************************************)
TypeOK ==
    /\ index \in [TxHashes -> [Peers -> States]]
    /\ due \in [TxHashes -> [Peers -> Int]]
    /\ peerinfo \in [Peers -> [total : Nat, requested : Nat, completed : Nat]]
    /\ connected \subseteq Peers /\ gone \subseteq Peers /\ have \subseteq TxHashes
    /\ sending \in Peers \cup {NoPeer}
    /\ setbacks \in 0 .. MaxSetBack

(***************************************************************************)
(* The invariants SanityCheck() asserts of the index, which every handler  *)
(* and every round of SetTimePoint must keep: no hash has only completed   *)
(* announcements, at most one announcement of a hash is selected (so at    *)
(* most one peer is being asked), a ready one implies a selected one, and  *)
(* no ready one has a higher priority than the best one.                   *)
(***************************************************************************)
SanityCheck ==
    /\ TypeOK
    /\ \A h \in TxHashes :
        /\ Announced(index, h) # {} =>
              \E p \in Peers : index[h][p] \in Candidate \cup {"REQUESTED"}
        /\ \A p, q \in Peers :
              index[h][p] \in Selected /\ index[h][q] \in Selected => p = q
        /\ \A p \in Peers : index[h][p] = "READY" =>
              \E q \in Peers :
                 /\ index[h][q] \in Selected
                 /\ index[h][q] = "BEST" => HigherPriority(h, q, p)

\* RecomputePeerInfo: the announcements of a peer in the states s
Tally(st, p, s) == Cardinality({h \in TxHashes : st[h][p] \in s})

(***************************************************************************)
(* The counters of m_peerinfo, which limit how much a peer may announce    *)
(* and delay a busy one, are those of the index (RecomputePeerInfo), and a *)
(* peer that has gone has left nothing behind: the assertions of           *)
(* InitializeNode and FinalizeNode.                                        *)
(***************************************************************************)
PeerInfoExact ==
    \A p \in Peers :
        /\ peerinfo[p] = [total     |-> Tally(index, p, States \ {"NONE"}),
                          requested |-> Tally(index, p, {"REQUESTED"}),
                          completed |-> Tally(index, p, {"COMPLETED"})]
        /\ p \notin connected => peerinfo[p].total = 0

(***************************************************************************)
(* The tracker does what the naive one does: whenever SendMessages asks a  *)
(* peer, it asks for exactly the hashes of which that peer is the best     *)
(* candidate by now, whatever order the announcements, answers, expiries   *)
(* and clock changes came in.                                              *)
(***************************************************************************)
Naive ==
    [h \in TxHashes |-> [p \in Peers |->
        IF index[h][p] \in Candidate THEN "CANDIDATE"
        ELSE IF index[h][p] = "NONE" THEN "NOTHING" ELSE index[h][p]]]

Delays ==
    {(IF p \in PreferredPeers THEN 0 ELSE NonprefDelay) + t + o :
        p \in Peers, t \in {0, TxidDelay}, o \in {0, OverloadedDelay}}

Tracker == INSTANCE TxTracker WITH ann <- Naive, Interval <- GetdataInterval,
                                   MaxBack <- MaxSetBack

ImplementsTxTracker == Tracker!Spec

(***************************************************************************)
(* No announcement is forgotten about: a candidate is sooner or later      *)
(* asked for, answered, settled or withdrawn with its peer, also when the  *)
(* peers asked before it stay silent.                                      *)
(***************************************************************************)
CandidatesServed ==
    \A h \in TxHashes, p \in Peers :
        index[h][p] \in Candidate ~> index[h][p] \notin Candidate

=============================================================================
