------------------------------ MODULE MCIndex ------------------------------
(***************************************************************************)
(* Two branches of two blocks each from the first block.  Four scopes: two *)
(* changes of the chain and three starts of the index alone; three changes *)
(* and two starts; a subscriber that comes and goes beside the index, with *)
(* a second thread that calls Iterate; and two such subscribers with stops *)
(* and crashes.                                                            *)
(***************************************************************************)
EXTENDS Index

MCBlocks == {"G", "A1", "A2", "B1", "B2"}

MCParent == [b \in MCBlocks |->
    CASE b \in {"A1", "B1"} -> "G" [] b = "A2" -> "A1" [] b = "B2" -> "B1" [] b = "G" -> None]

MCHeight == [b \in MCBlocks |->
    CASE b = "G" -> 0 [] b \in {"A1", "B1"} -> 1 [] b \in {"A2", "B2"} -> 2]

MCScopes == {[moves |-> 2, starts |-> 3, joins |-> 0, callers |-> {}],
             [moves |-> 3, starts |-> 2, joins |-> 0, callers |-> {}],
             [moves |-> 1, starts |-> 1, joins |-> 1, callers |-> {"messages"}],
             [moves |-> 0, starts |-> 2, joins |-> 2, callers |-> {"messages"}]}
=============================================================================
