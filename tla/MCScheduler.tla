----------------------------- MODULE MCScheduler -----------------------------
(* Scheduler with two collectors: one quick and frequent, one that may run   *)
(* for longer than its interval.  A tick is half a second.                   *)
EXTENDS Scheduler, TLC

CONSTANTS fast, slow

TwoIntervals == (fast :> 2) @@ (slow :> 3)
TwoRuntimes == (fast :> 1) @@ (slow :> 4)
=============================================================================
