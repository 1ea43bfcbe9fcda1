---------------------------- MODULE MCCoinsCache ----------------------------
(* CoinsCache on two outpoints and three coins of different size, one of     *)
(* them with an unspendable script.                                          *)
EXTENDS CoinsCache, TLC

CONSTANTS small, large, burned

MCUsage == (small :> 1) @@ (large :> 2) @@ (burned :> 1) @@ (Spent :> 0)
=============================================================================
