---------------------------- MODULE MCScheduler ----------------------------
(* Two threads, two producers and two callbacks.                           *)
EXTENDS Scheduler
=============================================================================
