---------------------------- MODULE MCChainFlush ----------------------------
(***************************************************************************)
(* Two branches above genesis.  Branch a creates o1 in its first block and *)
(* spends it in its second, which creates o2; branch b creates o2 at       *)
(* another height.  A coin left by an interrupted flush can be missing,    *)
(* already spent, or there with the other branch's height.                 *)
(***************************************************************************)
EXTENDS ChainFlush, TLC

CONSTANTS g, a1, a2, b1, o1, o2

MCBlocks == {g, a1, a2, b1}

MCParent == (g :> NoBlock) @@ (a1 :> g) @@ (a2 :> a1) @@ (b1 :> g)

MCHeight == (g :> 0) @@ (a1 :> 1) @@ (a2 :> 2) @@ (b1 :> 1)

MCChain == (g :> {g}) @@ (a1 :> {g, a1}) @@ (a2 :> {g, a1, a2})
           @@ (b1 :> {g, b1})

MCCreates == (g :> {}) @@ (a1 :> {o1}) @@ (a2 :> {o2}) @@ (b1 :> {o2})

MCSpends == (g :> {}) @@ (a1 :> {}) @@ (a2 :> {o1}) @@ (b1 :> {})

MCUtxoAt[b \in MCBlocks] ==
    IF b = g THEN [o \in Outpoints |-> Spent] ELSE Applied(b, MCUtxoAt[MCParent[b]])
=============================================================================
