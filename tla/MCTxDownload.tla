---------------------------- MODULE MCTxDownload ----------------------------
(***************************************************************************)
(* Two instances: a transaction with a witness, its parent without one,    *)
(* and two peers, one preferred and one that relays by wtxid; and one      *)
(* transaction that three peers announce, for the choice among several.    *)
(***************************************************************************)
EXTENDS TxDownload

Parent == [txid |-> "parent", wtxid |-> "parent", parents |-> {}]
Child == [txid |-> "txid", wtxid |-> "wtxid", parents |-> {"parent"}]

FamilyTxs == {Parent, Child}
FamilyHashes == {"parent", "txid", "wtxid"}
FamilyLowBits == [h \in FamilyHashes |-> [p \in {1, 2} |-> p]]

SingleTxs == {Parent}
SingleHashes == {"parent"}
SingleLowBits == [h \in SingleHashes |-> [p \in {1, 2, 3} |-> 3 - p]]

=============================================================================
