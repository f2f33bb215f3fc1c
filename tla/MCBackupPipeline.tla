-------------------------- MODULE MCBackupPipeline --------------------------
(* The backup pipeline with one or two overlapping schedulers.             *)
EXTENDS BackupPipeline, TLC

CONSTANTS s1, s2

OneScheduler  == {s1}
TwoSchedulers == {s1, s2}

(* The specification compares schedulers for equality only.                *)
SchedulerSymmetry == Permutations(TwoSchedulers)
=============================================================================
