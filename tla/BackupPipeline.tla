--------------------------- MODULE BackupPipeline ---------------------------
(***************************************************************************)
(* Scheduled backups (app/database_backup.py, app/backup_retention.py) and *)
(* their replication to an object store (app/offhost_backup.py).           *)
(*                                                                         *)
(* A backup is a pair of files, the database and its sidecar of metadata,  *)
(* each created and removed by a system call of its own.  The processes    *)
(* share nothing but the directory, and each may die between two calls.    *)
(* Schedulers exclude each other with a lock file the system drops when    *)
(* its owner dies; the replicator takes no part in it.                     *)
(*                                                                         *)
(* A backup's identifier is its number.  Its content is left out: files    *)
(* are replaced atomically, so a file that is there is whole.  The object  *)
(* store and the clock are external.                                       *)
(***************************************************************************)
EXTENDS Naturals, Sequences, FiniteSets

CONSTANTS
  Schedulers,    \* runs of the backup service that may overlap
  Daily, Weekly, \* backups kept by recency, backups kept one per week
  Week,          \* units of time in a week
  MaxBackups,    \* bound on the backups created
  MaxClock,      \* bound on the clock
  MaxFaults,     \* bound on crashes and failed system calls
  ClockMayStepBack

ASSUME RetentionAssumption ==
  Daily \in Nat \ {0} /\ Weekly \in Nat /\ Week \in Nat \ {0}
ASSUME LimitsAssumption ==
  /\ {MaxBackups, MaxClock, MaxFaults} \subseteq Nat
  /\ ClockMayStepBack \in BOOLEAN

VARIABLES
  clock,
  faults,
  created,    \* created_at of every backup ever published
  db, meta,   \* backups whose database, whose sidecar is in the directory
  objects,    \* database and sidecar objects in the store
  receipts,   \* receipts on disk: backup to verified_at
  lastRun,    \* last-run.json
  run,        \* the schedulers
  rep         \* the replicator

files == <<created, db, meta>>
vars  == <<clock, faults, files, objects, receipts, lastRun, run, rep>>

Ids   == 1 .. MaxBackups
Pairs == db \cap meta
Lone  == (db \cup meta) \ Pairs    \* what backup_inventory reports as invalid
Replicated == {i \in Ids : {<<i, "db">>, <<i, "meta">>} \subseteq objects}

Run(phase, id, todo, held) == [phase |-> phase, id |-> id, todo |-> todo, held |-> held]
Quiet == Run("idle", 0, {}, {})
RepIdle == [phase |-> "idle", todo |-> {}]

TypeOK ==
  /\ clock \in 0 .. MaxClock /\ faults \in 0 .. MaxFaults
  /\ created \in Seq(0 .. MaxClock) /\ Len(created) <= MaxBackups
  /\ db \subseteq DOMAIN created /\ meta \subseteq DOMAIN created
  /\ objects \subseteq (DOMAIN created) \X {"db", "meta"}
  /\ DOMAIN receipts \subseteq DOMAIN created
  /\ \A i \in DOMAIN receipts : receipts[i] \in 0 .. MaxClock
  /\ lastRun \in [status : {"none", "PASS", "FAIL"}, id : 0 .. MaxBackups]
  /\ run \in [Schedulers ->
       [phase : {"idle", "locked", "published", "paired", "pruning", "unlinking",
                 "passed", "failed"},
        id : 0 .. MaxBackups, todo : SUBSET Ids, held : SUBSET Ids]]
  /\ rep \in [phase : {"idle", "db", "meta", "receipt"}, todo : SUBSET Ids]

Init ==
  /\ clock = 0 /\ faults = 0
  /\ created = <<>> /\ db = {} /\ meta = {}
  /\ objects = {} /\ receipts = [i \in {} |-> 0]
  /\ lastRun = [status |-> "none", id |-> 0]
  /\ run = [s \in Schedulers |-> Quiet] /\ rep = RepIdle

-----------------------------------------------------------------------------
(* Definitions whose name ends in _slip are the next one with a plausible   *)
(* mistake; nothing below uses them.                                        *)

(* backup_inventory sorts the pairs by created_at.                          *)
Newer(i, j) == created[i] > created[j] \/ (created[i] = created[j] /\ i > j)
NewerThan(j) == {i \in Pairs : Newer(i, j)}
Newest(S) == CHOOSE i \in S : \A j \in S \ {i} : Newer(i, j)
Oldest(S) == CHOOSE i \in S : \A j \in S \ {i} : Newer(j, i)

WeekOf(i) == created[i] \div Week

KeptDaily_slip(i) == Cardinality(NewerThan(i)) <= Daily

KeptDaily(i) == Cardinality(NewerThan(i)) < Daily

KeptWeekly(i) ==
  /\ \A j \in NewerThan(i) : WeekOf(j) # WeekOf(i)
  /\ Cardinality({WeekOf(j) : j \in NewerThan(i)}) < Weekly

PruneCandidates_slip(current) == {i \in Pairs : KeptDaily(i) \/ KeptWeekly(i)}

PruneCandidates(current) ==
  {i \in Pairs : ~KeptDaily(i) /\ ~KeptWeekly(i) /\ i # current}

-----------------------------------------------------------------------------
(* The clock of the host, which may be set back.                            *)
Tick ==
  /\ clock' \in {clock + 1} \cup (IF ClockMayStepBack THEN {clock - 1} ELSE {})
  /\ clock' \in 0 .. MaxClock
  /\ UNCHANGED <<faults, files, objects, receipts, lastRun, run, rep>>

-----------------------------------------------------------------------------
(* run_scheduled_backup.                                                    *)
Becomes(s, r) == run' = [run EXCEPT ![s] = r]
Goes(s, phase) == run' = [run EXCEPT ![s].phase = phase]

HoldsLock(s) == run[s].phase \in {"locked", "published", "paired", "pruning", "unlinking"}

LockFree_slip == TRUE

LockFree == \A s \in Schedulers : ~HoldsLock(s)

scheduled_backup_lock(s) ==
  /\ run[s].phase = "idle"
  /\ Len(created) < MaxBackups
  /\ Goes(s, IF LockFree THEN "locked" ELSE "failed")
  /\ UNCHANGED <<clock, faults, files, objects, receipts, lastRun, rep>>

(* A copy that fails its verification is treated as published.              *)
(* create_backup up to its first os.replace; it may find the copy different *)
(* from a database that changed meanwhile.                                  *)
PublishDatabase(s) ==
  /\ run[s].phase = "locked"
  /\ \/ /\ Len(created) < MaxBackups
        /\ created' = Append(created, clock)
        /\ db' = db \cup {Len(created')}
        /\ Becomes(s, Run("published", Len(created'), {}, {}))
     \/ Goes(s, "failed") /\ UNCHANGED <<created, db>>
  /\ UNCHANGED <<clock, faults, meta, objects, receipts, lastRun, rep>>

(* Its second os.replace.                                                   *)
PublishMetadata(s) ==
  /\ run[s].phase = "published"
  /\ meta' = meta \cup {run[s].id}
  /\ Goes(s, "paired")
  /\ UNCHANGED <<clock, faults, created, db, objects, receipts, lastRun, rep>>

InventoryClean == Lone = {}

(* The inventory after the backup: any invalid candidate stops the run.     *)
SelectForPruning(s) ==
  /\ run[s].phase = "paired"
  /\ IF InventoryClean THEN Becomes(s, Run("pruning", run[s].id, PruneCandidates(run[s].id), {}))
     ELSE Goes(s, "failed")
  /\ UNCHANGED <<clock, faults, files, objects, receipts, lastRun, rep>>

ReceiptVerified_slip(i) == <<i, "db">> \in objects

ReceiptVerified(i) == i \in DOMAIN receipts

(* The next candidate, newest first: kept when it has no verified receipt,  *)
(* and otherwise removed, the database first.                               *)
PruneNext(s) ==
  LET i == Newest(run[s].todo)
  IN /\ run[s].phase = "pruning" /\ run[s].todo # {}
     /\ IF ReceiptVerified(i) THEN db' = db \ {i} /\ Goes(s, "unlinking")
        ELSE /\ Becomes(s, [run[s] EXCEPT !.todo = @ \ {i}, !.held = @ \cup {i}])
             /\ UNCHANGED db
     /\ UNCHANGED <<clock, faults, created, meta, objects, receipts, lastRun, rep>>

(* The sidecar is forgotten.                                                *)
UnlinkMetadata_slip(s) ==
  /\ run[s].phase = "unlinking"
  /\ Becomes(s, [run[s] EXCEPT !.phase = "pruning", !.todo = @ \ {Newest(@)}])
  /\ UNCHANGED <<clock, faults, files, objects, receipts, lastRun, rep>>

UnlinkMetadata(s) ==
  LET i == Newest(run[s].todo)
  IN /\ run[s].phase = "unlinking"
     /\ meta' = meta \ {i}
     /\ Becomes(s, [run[s] EXCEPT !.phase = "pruning", !.todo = @ \ {i}])
     /\ UNCHANGED <<clock, faults, created, db, objects, receipts, lastRun, rep>>

EndPruning(s) ==
  /\ run[s].phase = "pruning" /\ run[s].todo = {}
  /\ Goes(s, "passed")
  /\ UNCHANGED <<clock, faults, files, objects, receipts, lastRun, rep>>

WriteState_slip(s) ==
  /\ run[s].phase \in {"passed", "failed"}
  /\ lastRun' = [status |-> "PASS", id |-> run[s].id]
  /\ Becomes(s, Quiet)
  /\ UNCHANGED <<clock, faults, files, objects, receipts, rep>>

(* The finally clause, after the lock is gone and also when it was refused. *)
WriteState(s) ==
  /\ run[s].phase \in {"passed", "failed"}
  /\ lastRun' = [status |-> IF run[s].phase = "passed" THEN "PASS" ELSE "FAIL", id |-> run[s].id]
  /\ Becomes(s, Quiet)
  /\ UNCHANGED <<clock, faults, files, objects, receipts, rep>>

(* A system call fails.  Between its two replaces create_backup removes the *)
(* database again; a pair half removed stays so.                            *)
StepFails(s) ==
  /\ HoldsLock(s)
  /\ faults < MaxFaults /\ faults' = faults + 1
  /\ IF run[s].phase = "published"
     THEN db' = db \ {run[s].id} /\ Becomes(s, Run("failed", 0, {}, {}))
     ELSE UNCHANGED db /\ Goes(s, "failed")
  /\ UNCHANGED <<clock, created, meta, objects, receipts, lastRun, rep>>

SchedulerDies(s) ==
  /\ run[s].phase # "idle"
  /\ faults < MaxFaults /\ faults' = faults + 1
  /\ Becomes(s, Quiet)
  /\ UNCHANGED <<clock, files, objects, receipts, lastRun, rep>>

SchedulerStep(s) ==
  \/ scheduled_backup_lock(s) \/ PublishDatabase(s) \/ PublishMetadata(s)
  \/ SelectForPruning(s) \/ PruneNext(s) \/ UnlinkMetadata(s) \/ EndPruning(s) \/ WriteState(s)

-----------------------------------------------------------------------------
(* run_offhost_replication: oldest backup first, stopping at the first      *)
(* failure.                                                                 *)
ListBackups ==
  /\ rep = RepIdle
  /\ InventoryClean /\ Pairs # {}
  /\ rep' = [phase |-> "db", todo |-> Pairs]
  /\ UNCHANGED <<clock, faults, files, objects, receipts, lastRun, run>>

(* put_object with IfNoneMatch, then head_object.  An object that is there  *)
(* already is the same one and verifies.                                    *)
Put(part, next) ==
  LET i == Oldest(rep.todo)
  IN /\ rep.phase = part
     /\ part = "db" => i \in Pairs
     /\ objects' = objects \cup {<<i, part>>}
     /\ rep' = [rep EXCEPT !.phase = next]
     /\ UNCHANGED <<clock, faults, files, receipts, lastRun, run>>

PutDatabase == Put("db", "meta")
PutMetadata == Put("meta", "receipt")

(* A put that fails, its effect in the store or not.  The run ends.         *)
PutFails ==
  LET i == Oldest(rep.todo)
  IN /\ rep.phase \in {"db", "meta"}
     /\ rep.phase = "db" => i \in Pairs
     /\ objects' \in {objects, objects \cup {<<i, rep.phase>>}}
     /\ rep' = RepIdle
     /\ UNCHANGED <<clock, faults, files, receipts, lastRun, run>>

(* The backup was pruned since it was listed ("local_backup_changed").      *)
BackupGone ==
  /\ rep.phase = "db" /\ Oldest(rep.todo) \notin Pairs
  /\ rep' = RepIdle
  /\ UNCHANGED <<clock, faults, files, objects, receipts, lastRun, run>>

Receive(i) ==
  receipts' = [j \in DOMAIN receipts \cup {i} |-> IF j = i THEN clock ELSE receipts[j]]

(* The receipt before the sidecar is up.                                    *)
WriteReceipt_early_slip ==
  LET i == Oldest(rep.todo)
  IN /\ rep.phase = "meta"
     /\ Receive(i)
     /\ rep' = IF rep.todo = {i} THEN RepIdle ELSE [phase |-> "db", todo |-> rep.todo \ {i}]
     /\ UNCHANGED <<clock, faults, files, objects, lastRun, run>>

(* The run ends with its first receipt.                                     *)
WriteReceipt_once_slip ==
  /\ rep.phase = "receipt"
  /\ Receive(Oldest(rep.todo))
  /\ rep' = RepIdle
  /\ UNCHANGED <<clock, faults, files, objects, lastRun, run>>

(* The receipt is written again for a backup that has one, with the time.   *)
WriteReceipt ==
  LET i == Oldest(rep.todo)
  IN /\ rep.phase = "receipt"
     /\ Receive(i)
     /\ rep' = IF rep.todo = {i} THEN RepIdle ELSE [phase |-> "db", todo |-> rep.todo \ {i}]
     /\ UNCHANGED <<clock, faults, files, objects, lastRun, run>>

ReplicatorDies ==
  /\ rep # RepIdle
  /\ faults < MaxFaults /\ faults' = faults + 1
  /\ rep' = RepIdle
  /\ UNCHANGED <<clock, files, objects, receipts, lastRun, run>>

-----------------------------------------------------------------------------
Next ==
  \/ Tick
  \/ \E s \in Schedulers : SchedulerStep(s) \/ StepFails(s) \/ SchedulerDies(s)
  \/ ListBackups \/ PutDatabase \/ PutMetadata \/ PutFails \/ BackupGone \/ WriteReceipt \/ ReplicatorDies

Spec == Init /\ [][Next]_vars

(* The timers start the replicator again and again, its calls end, and the  *)
(* object store does not refuse one object for ever; a scheduler that holds *)
(* the lock goes on.                                                        *)
FairSpec ==
  /\ Spec
  /\ \A s \in Schedulers : WF_vars(HoldsLock(s) /\ SchedulerStep(s))
  /\ WF_vars(ListBackups) /\ WF_vars(BackupGone) /\ WF_vars(WriteReceipt)
  /\ \A i \in Ids : /\ SF_vars(PutDatabase /\ Oldest(rep.todo) = i)
                   /\ SF_vars(PutMetadata /\ Oldest(rep.todo) = i)

-----------------------------------------------------------------------------
(* Properties.                                                             *)

(* A receipt tells the truth: both objects of its backup are in the store.  *)
ReceiptsAreTrue == DOMAIN receipts \subseteq Replicated

(* Pruning is the only step that takes a backup away, whatever crashes or   *)
(* fails around it, and it takes only what the store has.                   *)
OnlyReplicatedIsPruned == [][Pairs \ Pairs' \subseteq Replicated']_vars

(* Whoever prunes, two overlapping runs included, leaves the newest backup. *)
NewestSurvives == [][Pairs # {} => Newest(Pairs) \in Pairs']_vars

(* Without a crash or a failing call, a directory in which no scheduler is  *)
(* working holds whole backups only.                                        *)
HalvesNeedAFault == faults = 0 /\ LockFree => Lone = {}

(* A run that made the newest backup leaves no more than it means to keep,  *)
(* those waiting for their receipt apart.  The newest counts as daily and   *)
(* as weekly.                                                               *)
RetentionBound ==
  \A s \in Schedulers :
    run[s].phase = "pruning" /\ run[s].todo = {} /\ Newest(Pairs) = run[s].id =>
      Cardinality(Pairs \ run[s].held) <= Daily + (IF Weekly = 0 THEN 0 ELSE Weekly - 1)

(* last-run.json, once no scheduler has anything left to write, names the   *)
(* newest backup when it reports success.  Overlapping runs break this: the *)
(* file is written outside the lock.                                        *)
StateNamesNewest ==
  faults = 0 /\ (\A s \in Schedulers : run[s] = Quiet) /\ lastRun.status = "PASS" =>
    Pairs # {} /\ lastRun.id = Newest(Pairs)

(* A backup that lies in the directory gets its receipt.                    *)
EventuallyReplicated ==
  \A i \in Ids : i \in Pairs ~> i \in DOMAIN receipts
=============================================================================
