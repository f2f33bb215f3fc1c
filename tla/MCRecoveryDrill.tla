--------------------------- MODULE MCRecoveryDrill ---------------------------
(* The recovery evidence beside one scheduler.                             *)
EXTENDS RecoveryDrill

CONSTANT s1

OneScheduler == {s1}
=============================================================================
