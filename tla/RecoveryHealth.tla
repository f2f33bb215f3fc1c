--------------------------- MODULE RecoveryHealth ---------------------------
(***************************************************************************)
(* The hourly check of the recovery evidence (app/recovery_health.py),     *)
(* beside the schedulers and the replicator it watches.  It takes no lock  *)
(* and reads their files one after the other.                              *)
(***************************************************************************)
EXTENDS BackupPipeline

CONSTANTS
  MaxAge,   \* oldest newest backup the check accepts
  MaxLag    \* longest time from a backup to its verified receipt

ASSUME AgesAssumption == {MaxAge, MaxLag} \subseteq Nat

VARIABLES
  looking,   \* the newest backup the running check found (or 0), and its time
  health     \* status.json of the check

NotLooking == [id |-> 0, at |-> 0]
NoHealth == [status |-> "none", id |-> 0, at |-> 0]

HealthTypeOK ==
  /\ TypeOK
  /\ looking \in [id : 0 .. MaxBackups, at : 0 .. MaxClock]
  /\ health \in [status : {"none", "PASS", "DEGRADED", "FAIL"}, id : 0 .. MaxBackups, at : 0 .. MaxClock]

HealthInit == Init /\ looking = NotLooking /\ health = NoHealth

-----------------------------------------------------------------------------
(* evaluate_recovery_health at the time it starts (checked_at): the         *)
(* inventory first, then last-run.json and the receipt of the newest        *)
(* backup.  Of an artifact that fails only the failure is kept.             *)
Verdict(status, i, at) ==
  /\ health' = IF status = "FAIL" THEN [NoHealth EXCEPT !.status = "FAIL"]
               ELSE [status |-> status, id |-> i, at |-> at]
  /\ looking' = NotLooking

InTime(i) == created[i] <= clock /\ clock <= created[i] + MaxAge

LookForBackup ==
  LET i == Newest(Pairs)
  IN /\ looking = NotLooking
     /\ IF Pairs = {} \/ ~InventoryClean \/ ~InTime(i) THEN Verdict("FAIL", 0, 0)
        ELSE looking' = [id |-> i, at |-> clock] /\ UNCHANGED health
     /\ UNCHANGED vars

StateMatches(i) == lastRun = [status |-> "PASS", id |-> i]

ReceiptInTime(i, now) ==
  /\ i \in DOMAIN receipts
  /\ receipts[i] <= now /\ created[i] <= receipts[i] /\ receipts[i] <= created[i] + MaxLag

JudgeBackup ==
  /\ looking # NotLooking
  /\ Verdict(IF ~StateMatches(looking.id) THEN "FAIL"
             ELSE IF ReceiptInTime(looking.id, looking.at) THEN "PASS" ELSE "DEGRADED",
             looking.id, looking.at)
  /\ UNCHANGED vars

CheckHealth == LookForBackup \/ JudgeBackup
=============================================================================
