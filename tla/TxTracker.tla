----------------------------- MODULE TxTracker -----------------------------
(***************************************************************************)
(* What the transaction request tracker promises: the naive implementation *)
(* that src/test/fuzz/txrequest.cpp compares it with.  An announcement is  *)
(* a candidate, requested or completed; who is asked is computed from      *)
(* scratch whenever the question is put.  Times are relative to the clock: *)
(* due[h][p] is m_time less the current time.                              *)
(***************************************************************************)
EXTENDS Integers, FiniteSets

CONSTANTS TxHashes, Peers,
          HigherPriority(_, _, _), \* priority of two peers for a hash
          Interval,                \* the time an answer may take
          Delays,                  \* the delays a request can be given
          MaxBack                    \* the most the clock can be set back

VARIABLES ann, \* the state of each announcement
          due, \* its reqtime or expiry
          have \* the hashes that are not wanted any more

vars == <<ann, due, have>>

AnnStates == {"NOTHING", "CANDIDATE", "REQUESTED", "COMPLETED"}

Init ==
    /\ ann = [h \in TxHashes |-> [p \in Peers |-> "NOTHING"]]
    /\ due = [h \in TxHashes |-> [p \in Peers |-> 0]]
    /\ have = {}

\* a hash with only completed announcements is forgotten
Cleanup(a) ==
    [h \in TxHashes |->
        IF \E p \in Peers : a[h][p] \in {"CANDIDATE", "REQUESTED"}
          THEN a[h] ELSE [p \in Peers |-> "NOTHING"]]

\* the times of what is no longer awaited do not matter
Timed(a, d) ==
    [h \in TxHashes |-> [p \in Peers |->
        IF a[h][p] \in {"CANDIDATE", "REQUESTED"} THEN d[h][p] ELSE 0]]

GetSelected(h) ==
    {p \in Peers :
        /\ ann[h][p] = "CANDIDATE" /\ due[h][p] <= 0
        /\ \A q \in Peers :
              /\ ann[h][q] # "REQUESTED"
              /\ (q # p /\ ann[h][q] = "CANDIDATE" /\ due[h][q] <= 0)
                     => HigherPriority(h, p, q)}

(***************************************************************************)
(* What one message of a peer does to one hash: the peer may answer for    *)
(* it, may announce it (a new announcement only), and it may be forgotten, *)
(* but only when it is no longer wanted.                                   *)
(***************************************************************************)
HandleHash(h, p, resp, inv, forget, delay) ==
    LET responded == IF resp /\ ann[h][p] # "NOTHING"
                       THEN Cleanup([ann EXCEPT ![h][p] = "COMPLETED"])[h] ELSE ann[h]
        new == inv /\ responded[p] = "NOTHING"
        announced == IF new THEN [responded EXCEPT ![p] = "CANDIDATE"] ELSE responded
    IN  /\ forget => h \in have'
        /\ ann'[h] = IF forget THEN [q \in Peers |-> "NOTHING"] ELSE announced
        /\ due'[h] = Timed(ann', IF new THEN [due EXCEPT ![h][p] = delay] ELSE due)[h]

(***************************************************************************)
(* One message of a peer, or a change of what is wanted, with no message.  *)
(***************************************************************************)
Handle(p, delay) ==
    /\ ann' \in [TxHashes -> [Peers -> AnnStates]]
    /\ due' \in [TxHashes -> [Peers -> Int]]
    /\ have' \subseteq TxHashes
    /\ \A h \in TxHashes : \E resp, inv, forget \in BOOLEAN :
          HandleHash(h, p, resp, inv, forget, delay)

DisconnectedPeer(p) ==
    /\ ann' = Cleanup([h \in TxHashes |-> [ann[h] EXCEPT ![p] = "NOTHING"]])
    /\ due' = Timed(ann', due)
    /\ have' = have

\* a request that was not answered in time
Expire(h, p) ==
    /\ ann[h][p] = "REQUESTED" /\ due[h][p] <= 0
    /\ ann' = Cleanup([ann EXCEPT ![h][p] = "COMPLETED"])
    /\ due' = Timed(ann', due)
    /\ have' = have

(***************************************************************************)
(* The answer of GetRequestable(p), once nothing is left to expire: the    *)
(* hashes for which p is selected are all requested from it, or forgotten  *)
(* when they are no longer wanted.                                         *)
(***************************************************************************)
Request(p) ==
    LET mine == {h \in TxHashes : p \in GetSelected(h)}
    IN  /\ \A h \in TxHashes, q \in Peers : ~ (ann[h][q] = "REQUESTED" /\ due[h][q] <= 0)
        /\ ann' = [h \in TxHashes |->
               IF h \notin mine THEN ann[h]
               ELSE IF h \in have THEN [q \in Peers |-> "NOTHING"]
               ELSE [ann[h] EXCEPT ![p] = "REQUESTED"]]
        /\ due' = Timed(ann', [h \in TxHashes |->
               IF h \in mine THEN [due[h] EXCEPT ![p] = Interval] ELSE due[h]])
        /\ have' = have

(***************************************************************************)
(* The clock moves by d, in either direction.  A time further back than f, *)
(* the most the clock can still be set back, is as good as that.           *)
(***************************************************************************)
Clock(d, f) ==
    /\ ann' = ann /\ have' = have
    /\ due' = Timed(ann, [h \in TxHashes |-> [p \in Peers |->
                  IF due[h][p] + d < - f THEN - f ELSE due[h][p] + d]])

Next ==
    \/ \E p \in Peers, delay \in Delays : Handle(p, delay)
    \/ \E p \in Peers : DisconnectedPeer(p)
    \/ \E h \in TxHashes, p \in Peers : Expire(h, p)
    \/ \E p \in Peers : Request(p)
    \/ \E d \in {-1, 1}, f \in 0 .. MaxBack : Clock(d, f)

Spec == Init /\ [][Next]_vars

=============================================================================
