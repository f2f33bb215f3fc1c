---------------------------- MODULE RecoveryDrill ----------------------------
(***************************************************************************)
(* The weekly restore drill (app/recovery_drill.py), which has a child     *)
(* process (scripts/validate_recovery.py) restore the newest backup and    *)
(* try it, and the evaluation of both artifacts, the drill's and that of   *)
(* the recovery check, into one alert (app/recovery_alert.py).  They run   *)
(* beside the schedulers, the replicator and the check, without a lock.    *)
(*                                                                         *)
(* What the validator tries on a restored copy, from PRAGMA quick_check to *)
(* starting a server on it, is one verdict: a backup is sound or not.      *)
(* Artifacts are replaced atomically and hold what the code writes; their  *)
(* validation by the evaluator is reduced to the times it compares, and    *)
(* the time of an artifact that fails is left out, which only tells apart  *)
(* the answers critical and check_error: both are "alarm" here.            *)
(***************************************************************************)
EXTENDS RecoveryHealth

CONSTANTS
  Unsound,      \* backups whose restored copy does not pass
  HealthFresh,  \* DEFAULT_HEALTH_ARTIFACT_FRESHNESS
  DrillMaxAge,  \* DEFAULT_RESTORE_DRILL_MAX_AGE
  Skew          \* MAX_FUTURE_CLOCK_SKEW

ASSUME DrillAssumption == Unsound \subseteq Ids /\ {HealthFresh, DrillMaxAge, Skew} \subseteq Nat

VARIABLES
  drilling,   \* the running drill: its step and backup
  drill       \* status.json of the drill

recoveryVars == <<vars, looking, health, drilling, drill>>

NotDrilling == [step |-> "idle", id |-> 0]
NoDrill == [status |-> "none", id |-> 0, code |-> "none", at |-> 0]

RecoveryTypeOK ==
  /\ HealthTypeOK
  /\ drilling \in [step : {"idle", "check", "copy", "validate"}, id : 0 .. MaxBackups]
  /\ drill \in [status : {"none", "PASS", "FAIL"}, id : 0 .. MaxBackups, at : 0 .. MaxClock,
                code : {"none", "backup_inventory_invalid", "backup_missing",
                        "validator_timeout", "validator_process_failed"}]

RecoveryInit == HealthInit /\ drilling = NotDrilling /\ drill = NoDrill

-----------------------------------------------------------------------------
(* run_scheduled_restore_drill.  Definitions whose name ends in _slip are   *)
(* the next one with a plausible mistake; nothing below uses them.          *)

(* The finally clause: whatever it came to is written.                      *)
Artifact(status, i, code) ==
  drill' = [status |-> status, id |-> i, code |-> code, at |-> IF status = "PASS" THEN clock ELSE 0]

Finish(status, i, code) == Artifact(status, i, code) /\ drilling' = NotDrilling

(* The newest database file is taken, whether its sidecar is there or not.  *)
StartDrill_slip ==
  /\ drilling = NotDrilling
  /\ IF db = {} THEN Finish("FAIL", 0, "backup_missing")
     ELSE drilling' = [step |-> "check", id |-> Newest(db)] /\ UNCHANGED drill
  /\ UNCHANGED <<vars, looking, health>>

StartDrill ==
  /\ drilling = NotDrilling
  /\ IF ~InventoryClean THEN Finish("FAIL", 0, "backup_inventory_invalid")
     ELSE IF Pairs = {} THEN Finish("FAIL", 0, "backup_missing")
     ELSE drilling' = [step |-> "check", id |-> Newest(Pairs)] /\ UNCHANGED drill
  /\ UNCHANGED <<vars, looking, health>>

At(step) == drilling.step = step
Proceed(step) == drilling' = [drilling EXCEPT !.step = step] /\ UNCHANGED drill
ValidatorFails == Finish("FAIL", drilling.id, "validator_process_failed")

(* The validator looks for both files, then restores the database into a    *)
(* directory of its own; either finds them gone if a backup run pruned the  *)
(* backup meanwhile.                                                        *)
CheckFiles ==
  /\ At("check")
  /\ IF drilling.id \in Pairs THEN Proceed("copy") ELSE ValidatorFails
  /\ UNCHANGED <<vars, looking, health>>

CopyBackup ==
  /\ At("copy")
  /\ IF drilling.id \in db THEN Proceed("validate") ELSE ValidatorFails
  /\ UNCHANGED <<vars, looking, health>>

PassesDrill_slip(i) == TRUE

PassesDrill(i) == i \notin Unsound

ValidateCopy ==
  /\ At("validate")
  /\ IF PassesDrill(drilling.id) THEN Finish("PASS", drilling.id, "none") ELSE ValidatorFails
  /\ UNCHANGED <<vars, looking, health>>

(* VALIDATOR_TIMEOUT_SECONDS have passed: the child is killed.              *)
ValidatorTimeout ==
  /\ drilling # NotDrilling
  /\ Finish("FAIL", drilling.id, "validator_timeout")
  /\ UNCHANGED <<vars, looking, health>>

(* The service is killed with its child, and the artifact stays as it was.  *)
DrillDies ==
  /\ drilling # NotDrilling
  /\ drilling' = NotDrilling
  /\ UNCHANGED <<vars, looking, health, drill>>

Drill == StartDrill \/ CheckFiles \/ CopyBackup \/ ValidateCopy \/ ValidatorTimeout \/ DrillDies

-----------------------------------------------------------------------------
(* evaluate_recovery_alert, which writes nothing: what it answers now.      *)
InTimeFor_slip(artifact, age) == artifact.at <= clock + Skew

InTimeFor(artifact, age) == artifact.at <= clock + Skew /\ clock <= artifact.at + age

(* An artifact that is missing, malformed or at odds with itself is as bad  *)
(* as one that tells of a failure.                                          *)
Failing(artifact) == artifact.status \in {"none", "FAIL"}

evaluate_recovery_alert ==
  CASE Failing(health) \/ ~InTimeFor(health, HealthFresh) -> "alarm"
    [] Failing(drill) \/ ~InTimeFor(drill, DrillMaxAge) -> "alarm"
    [] health.status = "DEGRADED" -> "warning"
    [] OTHER -> "healthy"

RecoveryNext ==
  \/ Next /\ UNCHANGED <<looking, health, drilling, drill>>
  \/ CheckHealth /\ UNCHANGED <<drilling, drill>>
  \/ Drill

RecoverySpec == RecoveryInit /\ [][RecoveryNext]_recoveryVars

-----------------------------------------------------------------------------
(* Properties.                                                             *)

(* When the alert is healthy, the store has a backup that is no older than  *)
(* the age the check accepts and the age of its artifact together, however  *)
(* the programs and the backup runs interleave.                             *)
HealthyAlertIsBacked ==
  evaluate_recovery_alert = "healthy" =>
    \E i \in Replicated : clock <= created[i] + MaxAge + HealthFresh

(* Nor is it healthy unless, within the age it accepts, a backup that was   *)
(* whole in the directory has been restored and passed.                     *)
HealthyAlertIsDrilled ==
  evaluate_recovery_alert = "healthy" =>
    /\ drill.id \in DOMAIN created \ Unsound
    /\ clock <= drill.at + DrillMaxAge

(* A failing validator is to be blamed on the backup, or on its removal     *)
(* while it was being read, and never on a backup still being written.      *)
DrillBlamesTheBackup ==
  drill.code = "validator_process_failed" => drill.id \in Unsound \/ drill.id \notin Pairs
=============================================================================
