--------------------------- MODULE MCVersionBits ---------------------------
(* Two branches that fork after height 2 and end at height 8; periods of   *)
(* two blocks.  Blocks 0..8 are the first branch, 13..18 the second one at *)
(* heights 3..8.  Four blocks of the first branch and two of the second    *)
(* may signal; the deployments are by height, by time, always and never    *)
(* active.                                                                 *)
EXTENDS VersionBits

MCBlocks == (0..8) \cup (13..18)
MCHeight == [b \in MCBlocks |-> IF b > 8 THEN b - 10 ELSE b]
MCParent == [b \in MCBlocks |-> IF b = 0 THEN NoBlock ELSE IF b = 13 THEN 2 ELSE b - 1]
MCChain == [b \in MCBlocks |-> IF b > 8 THEN (0..2) \cup (13..b) ELSE 0..b]
MCMedianTime == [b \in MCBlocks |-> IF b > 8 THEN 3 + (b - 12) \div 2 ELSE b + 1]
MCVoters == {2, 3, 4, 5, 14, 15}

Deployment(s, t, sh, th) ==
    [start |-> s, timeout |-> t, startHeight |-> sh, timeoutHeight |-> th]

MCDeployments == {Deployment(0, 0, 2, 6), Deployment(0, 0, 0, 8), Deployment(2, 6, 0, 0),
                  Deployment(4, 5, 0, 0), Deployment(ALWAYS_ACTIVE, 0, 0, 0),
                  Deployment(NEVER_ACTIVE, 0, 0, 0)}
=============================================================================
