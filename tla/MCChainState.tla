---------------------------- MODULE MCChainState ----------------------------
(***************************************************************************)
(* ChainState on small block trees: a chain g - a1 - a2 - a3, a second     *)
(* child c2 of a1, and a branch g - b1 - b2.  Every block adds one unit of  *)
(* work.                                                                   *)
(***************************************************************************)
EXTENDS ChainState

CONSTANTS g, a1, a2, a3, b1, b2, c2, none

MCParent == [b \in Blocks |-> CASE b = g -> none
                                [] b \in {a1, b1} -> g
                                [] b \in {a2, c2} -> a1
                                [] b = a3 -> a2
                                [] b = b2 -> b1]

MCHeight == [b \in Blocks |-> CASE b = g -> 0 [] b \in {a1, b1} -> 1 [] b = a3 -> 3 [] OTHER -> 2]

MCChain == [b \in Blocks |-> IF b = a3 THEN {g, a1, a2, a3}
                              ELSE {g, b} \cup ({MCParent[b]} \ {none})]

MCWork == [b \in Blocks |-> MCHeight[b] + 1]

MCAddress == [b \in Blocks |-> CASE b = g -> 1 [] b = a1 -> 2 [] b = a2 -> 3
                                 [] b = b1 -> 4 [] b = b2 -> 5 [] b = c2 -> 6 [] b = a3 -> 7]
=============================================================================
