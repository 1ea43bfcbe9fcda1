---------------------------- MODULE MCCheckQueue ----------------------------
(* Two workers, two masters and four checks, one of which fails; batches   *)
(* of one and of two checks occur.                                         *)
EXTENDS CheckQueue
CONSTANTS c1, c2, c3, c4
MCChecks == {c1, c2, c3, c4}
MCGood == {c1, c2, c3}
=============================================================================
