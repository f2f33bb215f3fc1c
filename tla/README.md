# A formal model of the demo prediction market

This directory holds TLA+ modules that model the parts of the application in
which money-like balances, files and messages move, the TLC configurations that
check them, and proofs that TLAPS checks. Paths are relative to the repository's
root. `PROJECT.json` maps every definition to the lines it models, lists the
runs, and names for each property a mutant, a plausible slip in the code (the
definitions that end in `_slip`), under which the property fails.

## The system

One uvicorn process serves the web application (`deploy/systemd/demo-prediction-market.service`).
Its handlers are `async def` without an `await` around database work, so requests
do not interleave in it. Other processes run beside it from systemd timers and
share the SQLite database or the backup directory: market synchronisation
(5 min), backup (daily), off-host replication and recovery health (hourly),
restore drill (weekly), and two alert senders. The code and its tests
(`tests/test_collateral_ledger.py:554`, `tests/test_demo_points.py:225`) also
use several database connections at once, and the transactions are written for
that; the models therefore allow it, and say where a result needs it.

| Component | State | Operations | Interacts through | Hard part | Makes it correct |
| --- | --- | --- | --- | --- | --- |
| V2 collateral ledger, `app/collateral_ledger.py` | supply, accounts, positions, reserves, reservations, three event tables | bootstrap, allocate, create market, split, merge, reserve, cancel, reject | SQLite, BEGIN IMMEDIATE | two tables count the same collateral; replays; overflow | points are conserved, sets are backed, locks equal claims, a release happens once |
| Demo points, `app/demo_points.py` | balance, positions, ledger rows | predict | SQLite, BEGIN IMMEDIATE | concurrent predictions, rounding | balances follow the rows |
| Settlement, `app/settlement.py` | settlements, evidence | list, fetch, commit | market service over HTTP, SQLite | the answer is fetched outside the transaction, payouts are recognised by notes | paid once, by evidence, for good |
| Demo wallet, `app/demo_wallet.py` | balance, ledger rows | add, reset, reverse | SQLite, read before the transaction | read and write in separate transactions | the books chain while one connection writes |
| Backup and retention, `app/database_backup.py`, `app/backup_retention.py` | database and sidecar files, last-run.json | create, inventory, prune | directory, flock, receipts | a crash between any two calls, overlap | only what the store has is pruned, never the newest |
| Off-host replication, `app/offhost_backup.py` | objects, receipts | put, head, write receipt | directory, object store | lost answers, a backup pruned meanwhile | receipts are true, every backup gets one |
| Recovery health, `app/recovery_health.py` | status.json | check | files of the two above, no lock | reads while they change | PASS means the store has the backup |
| Audit chain, `app/storage.py:1768` | hash-linked rows | append, verify, migrate | every component that writes | appended outside write transactions too | no transaction forks it |
| Alerts, `app/sync_alert*.py`, `app/recovery_alert*.py` | notification state | evaluate, decide, post, acknowledge | webhook | crash between post and acknowledge | at least once, not too often |
| Market sync and refresh, `app/polymarket_sync.py`, `app/realtime.py` | markets, sync runs | fetch, plan, write; delete, store | sync lock (not the web process) | a plan made outside its transaction, a refresh in two transactions | nothing goes back, readers find markets, "healthy" is true |
| Accounts, sessions, rate limits, `app/main.py`, `app/storage.py:51` | accounts, sessions, failures, audit rows | register, log in, log out, disable, count | SQLite, several connections | reads before the write lock | a limit of n is n, a disabled account is out |
| Restore drill, `app/recovery_drill.py`, `scripts/validate_recovery.py` | drill artifact | restore the newest backup in a child process | backup directory, no lock | retention and timeouts under way | a healthy alert was earned |
| Translation, `app/translation.py`, `scripts/translate_markets.py` | cached translations | batch, retry, judge, record | provider, markets table | texts change while the job runs, empty texts in batches | an answer gets back to its text, pages show current texts |
| Routes, display, languages, journal, configuration, scripts | none of their own | - | - | text and I/O | not modelled, see the end |

## Modules

`CollateralLedger` has one variable per table or column of the V2 ledger and one
action per operation. All run inside `_write_transaction` and roll back on any
exception, so each is one step. A refused call and a replay of a recorded key
change nothing and are stuttering steps. A guard is the conjunction of the
code's checks in their order; amounts are integers up to `IntMax`, and every
addition the code checks for overflow has its guard, the one it does not check
(release) has none. The verification every operation ends with
(`verify_collateral_invariants`) is not a guard but the invariant
`VerifierNeverObjects`: the refusal is unreachable, which is also proved.
`Allocate` does not look at the status of the participant's account, and so
allows more than the code. `UnitSum` sums a function over a finite set as the
cardinality of a set of units, a definition proofs can use. `CompleteSetBank`
is the abstract specification: points, complete sets, who owns what, and no
collateral, keys or events.

`DemoPoints` has one record per position and its settlement row (they are
inserted in one transaction). A worker is one database connection. A prediction
is one step. Settling is `ListPending`, then for each row `Fetch` (the REST
answer, outside any transaction), then `Commit` (reads the row again inside
BEGIN IMMEDIATE); `Abandon` is a crash or a rollback at any point between. A
wallet call is `CheckCall`, `ReadBalance`, `WriteCall`, since the code reads in
autocommit mode and opens the transaction only to write. A row's note is the set
of numbers it names as `settlement_id=<number>`: a settlement's row names its
own, the row of a wallet call what the operator's reason names (`Reasons`), and
`settlement_ledger_entry_exists` looks through the notes of all rows, as the code
does. The name of an outcome, which is in a prediction's note, is assumed not to
hold such a text. The answer of the
market service is a confirmed winner or one of the four ways in which
`validate_settlement_evidence` does not confirm one. Balances are integers,
`Cent` units to the hundredth of a point the code rounds to; what operators add
is rounded to whole hundredths, what users stake is not.

`BackupPipeline` has the two files of each backup, the objects in the store, the
receipts, last-run.json, the phase of each run of the backup service and of the
replicator. Each system call that changes the directory is an action, in the
order of the code (database before sidecar, for `os.replace` and `unlink`
alike), and each may fail or be the last thing its process does. A backup's
identifier is its number and its content is left out: files are replaced
atomically. Invalid receipts, which the code keeps like missing ones, are left
out; so is `Daily = 0`. The inventory is read in one step.

`RecoveryHealth` adds the hourly check: the inventory in one step, last-run.json
and the receipt in a later one, in which other processes may have moved on.
`RecoveryDrill` composes both with the restore drill (the inventory, the
validator's look for the files, its copy and its verdict are steps, with its
timeout and its death at each) and with the evaluator that reads both artifacts
into one alert. None of these takes the backup lock. What the validator tries
on the restored copy is one verdict, a constant set of backups that would not
pass.

`AuditChain` is the hash chain as a sequence of links, with the latest hash,
verification and the migration of chains that have no hashes. `AccessControl`
has one account, its sessions, the failures counted per action, the chain, the
write lock of the database and what each connection does. A handler reads
without the lock, takes it with its first write and gives it back at its commit
(`begin`, `locked`, `append` are steps); a rate-limit call reads the time, waits
for the lock and is then one step on the table, which is kept as the number of
rows of an action that expire at a time; an event outside a transaction reads the
latest hash in one step and is inserted in a later one, and `locked` in its
record says which kind it is. Writers of other components are `"other"`.

`MarketSync` has the markets table (a row's payload is the time it was fetched),
what the recorded runs say, the sync lock, each sync process and the web
process. A sync asks the service, plans from a read in autocommit mode, and
writes the rows and the run in one transaction; it may fail or be killed at each
step. The web process deletes the table and stores the new rows in two
transactions, without the lock. The verdict of `app/sync_alert.py` is an
operator over this state.

`TranslationJob` has the versions of the texts, the cache with the hashes it was
made from, and each job: the list of markets it read, the field and batch it is
at, what the provider has answered, and the markets still to record. The places
a batch's texts came from and the texts sent are separate definitions, as in the
code. The quality gate is a verdict chosen when it is asked.

`AlertNotification` is one alert sender, the synchronisation's or the
recovery's: their policies and deliveries are the same but for the conditions
they know (`Conditions`). Any number of processes may run it. A run reads the
clock, takes the nonblocking lock (or gives up: `decision_busy`), decides and
saves the state file in one step (`os.replace`), posts without the lock, and
does the same three steps again to acknowledge. It may be killed, or fail and
leave the file as it was, at each step; the webhook may have received a post
whose answer the run never gets. The state file has the fields of the code less
the reason code and the action, which follows from the state. What an evaluator
would return, `condition`, may change at any time. A decision's identifier, a
hash of its time, is a number that nobody holds at the moment.

The `MC` modules instantiate these for TLC. `UnitSum_proofs`,
`CollateralLedger_proofs`, `DemoPoints_proofs`, `RecoveryDrill_proofs` (for
`BackupPipeline` and `RecoveryHealth` too), `AlertNotification_proofs`,
`MarketSync_proofs`, `AccessControl_proofs` and `TranslationJob_proofs` hold the
proofs.

## Runs

| Run | Bounds | Shows |
| --- | --- | --- |
| `ledger` | 1 participant and the treasury, 1 market, 4 keys, `Scale` 2, `IntMax` 4, 2 reservations | the verifier never objects, conservation, backing, locks equal to claims, exact and single release, holdings that follow from recorded events, that neither a release nor a legal redemption can fail, and the refinement of `CompleteSetBank` |
| `points_workers` | 2 connections, 1 user, 2 settlements, 3 answers that change, every wallet call with a reason that names settlement 1, 3 units to a hundredth, no wallet call after 2 rows | paid once, by evidence, for good, unless a note stands in the way; balances follow the rows |
| `points_ten` | 10 settlements, 2 users | the first finding below |
| `points_fraction` | 1 connection, 1 user, a stake of 4/3 of a hundredth | the second finding below |
| `backup_overlap` | 2 overlapping runs, 3 backups, 1 fault, the clock may go back | only replicated backups are pruned and never the newest, receipts are true, half a backup needs a fault |
| `backup_timer` | 1 run at a time, 3 backups in 2 weeks, puts fail as often as they like | retention, last-run.json, and every backup gets its receipt |
| `recovery` | 1 scheduler, the replicator, check, drill and alert, 2 backups of which the second would not restore, 1 fault | a healthy alert means a recent backup in the store and a passed restore; a failing validator is due to the backup or its removal |
| `alert_overlap` | the timer's run and a manual one, 2 conditions, 4 times, cooldown of 2, the clock may go back once | records, reminders and recoveries, whatever the runs interleave |
| `alert_timer` | the timer's runs, 4 conditions, 3 times, the clock may go back once | a condition that stays is told |
| `markets` | 2 sync processes and the web process, 2 live markets and a sample, 4 times, a warning after 2 failures, critical after 3, live refresh on or off | no sync goes back, a healthy verdict is true, the table does not stay empty |
| `access` | 2 connections, 2 sessions, limit of 2 in a window of 2, 3 times, 4 kinds of old chain | no transaction forks the audit chain, the limit holds, a disabled account is out |
| `translation` | 1 job, 3 markets with 2 fields, batches of 2, one retry per batch | answers get back to their texts, pages show translations of present texts |

Each module keeps a `TypeOK` (`HealthTypeOK`, `RecoveryTypeOK`); a run checks it
when its cfg gets the line `INVARIANT TypeOK`. The runs leave it out, since
it is proved.

Why the bounds are enough. In the ledger the interactions are pairs: two
operations on one holding, two reservations on one holding, a lock against a
merge, a cancel against a reject. Two sets and two reservations make all of
them happen; four keys are two reservations and a release tried twice. The
whole supply may be `IntMax`, so every sum can come up to the limit; that none
goes beyond it is what conservation gives. What a larger instance could add is
more of the same, and there the proofs take over. In the demo points a race
needs two connections and one row, and confusing two rows needs two; two users
are in `points_ten`, and no step relates two of them but the search of the
notes. The demo points runs use no keys: a lookup is one step with what it
protects (predictions) or protects nothing (see the findings), and the proofs
cover any keys. A pruning run needs two backups to keep or remove and a third that is
new; three backups over two weeks give each of the retention rules a backup that
only it keeps. The recovery check reads one backup while a second appears, and
an artifact is out of date at the next time, so two backups and two times have
every case. Two runs of an alert sender can hold one decision, or two of which
one has replaced the other; four times are a cooldown, a reminder and a step
back. A sync is overtaken by one other or by the web process, and a row may be
old, new or absent; four times make data timely, stale and unavailable. A fork
of the audit chain needs two connections and one event each, a third event
shows what follows it, and a failure counted too many needs the limit and one
more under way. Three texts in batches of two are a full batch and a short one,
with an empty text at any place. The mutants confirm that each property bites at
its run's bounds.

What single runs leave out. `backup_timer` has one timer, no fault and a clock
that does not step back: its properties are about the timer as it is meant to
work, and the first of them fails when runs overlap (a refused run writes
last-run.json too). `HalvesNeedAFault` speaks of what no fault has touched; what
a crash leaves behind is covered by `NewestSurvives` only. `RemindersApart`
is about consecutive records: an alarm that healed and came back is a new one.
"Healthy" says nothing before the first success, when the code calls fewer
failures than the warning limit healthy too, and `HealthyMeansTimely` asks
nothing there.

`CHECK_DEADLOCK FALSE` is set in all but the alert runs because keys, rows,
backups, events and the clock are bounded, or a job may find nothing to do: the
model may stop. The alert sender never stops, and its runs check that. Symmetry
is used in runs without liveness, over keys, workers, sessions or
schedulers, which the specifications compare for equality only.

Fairness. `backup_timer`, `alert_timer` and `markets` assume some (`FairSpec`).
The replicator is started again by its timer, so `ListBackups` and the steps
that need nobody else are weakly fair. A put may fail, and the code then ends
the run; strong fairness of the put of each backup says that the store does not
refuse one object for ever while it is offered again and again. A scheduler that
holds the lock goes on (weakly fair); that it starts at all is not assumed.
Without the condition per backup the property fails: each run puts the oldest
backup again first, so a store that accepts only that one satisfies a weaker
fairness. For the alerts, time goes on, a started run ends (the service has
`TimeoutStartSec=30s`) and the timer starts the next one (weak fairness); the
webhook and the lock, offered or free again and again, are got at last, and the
timer's runs are not all killed at the same step (strong fairness, of the
timer's sender only: nothing is asked of a manual run but that it ends). For the
markets, systemd restarts the web process and pages are asked for
(`StartServing` and `EnsureMarkets`, weakly fair), and a refresh that is tried
again and again is not interrupted every time (`DeleteMarkets` and
`store_markets`, strongly fair). No sync process is assumed to run at all.

## Findings

Two runs expect a violation, and `PROJECT.json` says the same.

- `points_ten`: `settlement_ledger_entry_exists` (`app/storage.py:2218`) looks for
  `settlement_id=<number>` as a substring of the note of any row, of any user and
  type. Once settlement 10 is settled, settlement 1 is marked won and never
  credited. An operator's reason that names the number does the same, since it
  becomes the note of an add, reset or reversal row (`app/demo_wallet.py:80`,
  `:143`, `:241`); `points_workers` has such reasons. `PaidUnlessNamed` says that
  a note is the only way: a settled position without its row was unpaid because
  some note names a number that its own begins, and every other is paid once.
- `points_fraction`: stakes are not rounded and balances are, so a stake of 0.002
  is booked and not taken (`app/demo_points.py:157`), although
  `docs/demo_wallet_ledger.md:75` says of every new row that
  `balance_before + amount = balance_after`. The damage stays there: such a row is
  off by half a hundredth at most, no other row is off
  (`RoundingStaysWithPredictions`), and the balance is what the last row left
  (`BalancesFollowRows`).

Seen while modelling, and not checked by a run of their own:

- The documentation says a settlement is refused when WebSocket and REST
  disagree; `settle_one` never reads the candidate (`app/settlement.py:303`).
- Wallet calls look up their key and read the balance outside the transaction
  that writes. With two connections an update may be lost, a key spent twice and a
  row reversed twice. `BalancesFollowRows` says what holds even then: a wallet
  call may start from a balance the user had earlier, but the balance is what
  its row says, and nothing else starts from an old one. In the deployed process
  a call runs from its first read to its commit without an `await`, so that
  nothing comes between; `OneConnectionKeepsBooks` says the rows then chain.
- The replicator rewrites every receipt on every run, with the time of that run,
  and the health check subtracts (`app/recovery_health.py:175`): the replication
  counts as late a few hours after each backup, a false DEGRADED.
- A drill that starts while a backup run has written or removed one file of a
  pair answers `backup_inventory_invalid`, and that stays until the next weekly
  drill.
- An alarm whose post was received but whose answer was lost is posted again
  with the same `decision_id`, so the receiver may get it twice; and if the
  condition heals before the next run, no recovery notice follows, since the
  sender follows up only what it has acknowledged.
- A sync whose transaction fails records no failure, unlike every other way to
  fail, and no sync removes a market the service has dropped.
- With `live` off, a refresh of the web process replaces synchronised rows by
  samples while the freshness stays current; with `live` on, a plan can be
  applied to a table the refresh has emptied, so that a run is recorded as a
  success though rows it planned to update are missing. `HealthyMeansTimely`
  and `SyncNeverGoesBack` therefore speak of a web process with samples only,
  and of the rows that are there.
- One audit event appended outside a transaction while another connection
  appends forks the chain, and nothing mends it: verification fails from then
  on. One process serialises its handlers, so the race needs a second one.
- A login that races the disabling of its account leaves a session row that
  stays open; only the join in `resolve_user_session` keeps it from working.
- Attempts under way at the same time may exceed the limit by the number of
  connections less one; only counted failures stay within it.
- A slow translation job may put an older row over a fresher one of another job.
  It is never shown, but the market is translated again.

## Proofs

Each module states in its theorems what holds for every value of the constants
under the named assumptions of the module it is about, which TLC evaluates in
the runs. Every theorem is proved from an inductive invariant, with one step
or lemma per action. All invariants and action properties of the passing runs are
theorems, and every module's type invariant is one (`TypeCorrect`,
`PipelineTypeCorrect`, `EvidenceTypeCorrect`). Three theorems take hypotheses
of their own: `OneConnectionKeepsBooks` takes `OneConnection` (one connection to
the database, which is how the service is deployed), `PaidOnce` takes
`NoNumberBeginsAnother` and `NoReasonNamesSettlement` (what the first finding
needs is absent), and `StateIsCurrent` takes `LoneTimer` (one backup run at a
time and a clock that is never set back).

`CollateralLedger_proofs` (any finite sets of participants and markets, any
keys, `Scale`, `IntMax` and bounds): `TypeCorrect`, `Conservation`, `Backing`,
`Locking`, `Unobjectionable`, `ReleaseIsSafe`,
`RedemptionIsSafe`, `ReleaseOnce`, `Ownership`, `HistoryIsComplete` and
`Refinement`. The invariant `IInv` is the type invariant with conservation,
backing and locking, and each needs the others. That a merge leaves `sets[m]` a
natural number follows only from the reserve check together with `reserve[m] =
sets[m] * Scale`, since the code never looks at `net_complete_sets` itself. That
a release leaves the locked balance a natural number follows from the sum of
claims, of which the released reservation is one term. That neither a release
nor a redemption overflows follows from conservation: all that is held is at
most `issued`, which `Bootstrap` checked. Per operation there is one lemma for
what it moves (`...Moves`), one for types (`...Typed`) and one for each sum it
disturbs; the sums are handled by the lemmas of `UnitSum_proofs` (`TotalUpdate`,
`TotalExtend`, `TotalBounds`, `TotalMonotone`). `Unobjectionable` adds to `IInv`
that each reservation has exactly its events, and so justifies that the actions
have no `invariant_violation` guard. For `HistoryIsComplete` a recorded event is
one term more in the sums it counts in (`SetEventCounts`, `AllocationCounts`),
which is true only because its key is fresh, and the step moves as much. A
second bootstrap would break it; conservation says there is none.
`Refinement` maps what an account has, available or locked, to what it owns in
the bank: a bootstrap issues (nothing was issued before, hence by conservation
the treasury was empty), an allocation gives, splits and merges are those of the
bank, and all else is a stutter.

`DemoPoints_proofs` (any connections, users, keys, reasons and amounts):
`TypeCorrect`, `EvidenceRules`, `PaidOrNamed` and `SettledForGood`; `PaidOnce`,
assuming `NoNumberBeginsAnother` and `NoReasonNamesSettlement`;
`RoundingStaysWithPredictions` and `RowsLeadToBalances`; and
`OneConnectionKeepsBooks`, assuming `OneConnection`. `SettlementInvariant` says
that rows and evidence refer to known settlements, that a settlement's row names
it and nothing else while any other names at most what some reason does
(`NotesKnown`), and adds the two properties about evidence and payment
themselves. A note stays for good, so a settlement that one has kept from being
paid can be told for ever. `ReconcileInvariant` says that balances, payouts and
the amounts of wallet calls under way are whole hundredths (`WholeAmounts`):
rounding then changes only what a stake has made fractional. For
`RowsLeadToBalances`, `FollowInvariant` adds that what a wallet call has read is
among the balances the user's rows have left (`Left`), which only grow; for one
connection `ChainInvariant` adds that it is the user's balance still
(`ReadIsCurrent`), since nothing happens in between. That a row follows the last
of its user is an argument about the largest of a set of positions, with no
induction over the ledger.

`RecoveryDrill_proofs` (any schedulers, retention policy, ages, bounds and
backups that would not restore). Of the pipeline: `PipelineTypeCorrect`,
`ReceiptsStayTrue`, `PruningIsSafe`, `NewestIsNeverPruned`, `HalvesComeFromFaults`,
`RetentionHolds` and, assuming `LoneTimer`, `StateIsCurrent`. `PipelineInv` says
that only one run holds the lock, that a run's candidates are all older than a
pair that stays and are not the backup it made, and that the replicator writes a
receipt only for what it has put. Each other
property adds a conjunct: without faults every half pair is the one somebody is
just making or removing (`HalvesInWork`); what a pruning run has neither removed
nor to remove is no more than the policy keeps (`LeavesEnough`, with
`KeepBound`, the days and the weeks, the newest backup counted once); between two
runs the state file names the last backup (`LastIsCurrent`), and that is the
newest when times do not decrease (`InOrderOfTime`). The lemmas about the order
of backups (`FirstIsOnly`, `NewestIsFirst`) come before, by the least element of
a set of numbers. Of the evidence: `HealthyMeansBacked`, `HealthyMeansDrilled`,
`FailureIsTheBackups` and `EvidenceTypeCorrect`. Every step of the whole is a
step of the pipeline or leaves it alone (`RecoveryIsPipeline`), so `PipelineInv`
holds there too. `Checked` says what the health check's artifact stands for, at
the time it looked: that stays true because backups and objects are not
forgotten. `Drilled` says that the backup a drill tries was a whole pair once;
if it is gone, it was pruned, and not that it is yet to be written.

`AlertNotification_proofs` (any senders, cooldowns and clock): `TypeCorrect`,
`PendingStaysDue`, `NothingIsLost`, `CooldownIsKept` and `RecoveryIsEarned`. The
invariant `Inv` is the types, that decisions are told apart by their ids, that
whoever acknowledges holds a decision the webhook has received, and
`PendingIsDue`. That last part is the heart: a run acknowledges at a time it
read before it had the lock, possibly much older than what another run has
recorded since, and nothing in `acknowledge` looks at the cooldown again. It
does not have to: the pending decision was due when it was made, every record
clears it, and a file with a time later than the run's own is an error.

`MarketSync_proofs` (any sync processes, markets and thresholds): `TypeCorrect`,
`HealthIsTimely` and `NeverGoesBack`. The invariant says that a
plan covers the response it was made from, that only the holder of the lock is
at work, and, beside a web process that serves samples only, that no row is
newer than the clock, that a response is at least as new as every row of the
table, and that the recorded run tells the truth of the rows it received.

`AccessControl_proofs` (any connections, sessions, limits and old chains):
`TypeCorrect`, `TransactionsNeverFork`, `DisablingIsFinal` and
`FailuresAreLimited`. The first invariant says that nobody serves before the
migration, that whoever is between its first write and its commit has the lock
alone, that the tail it read is then still the last event, and that the chain is
sound. The lemmas of `AuditChain` come first: on a chain that is hashed
throughout, the latest event is the last (`LatestOfHashed`). `LimitInvariant`
says that the time a handler read before it waited for the lock has passed, so
that what was active then is at least what is active now: when the call finds
room at its old time, there is room now (`ActiveShrinks`, `ActiveGrows`).

`TranslationJob_proofs` (any jobs at once, markets, fields, versions, batches
and retries): `TypeCorrect`, `BatchesAreTransparent` and `PagesAreFaithful`.
`JobsInv` says that a job's results are right as far as it has come: those of
the fields behind it, those of the batches of its field that are through, and
nothing else is filled. That an answer goes back to its own text rests on
`InOrder`: a finite set of numbers is listed with every element once and in
order (`InOrderFacts`), whatever the number of empty texts between them. A row
holds the translations of the texts whose hashes it keeps, so a page whose
hashes agree shows the right ones.

Only model-checked: liveness (`EventuallyReplicated`, `EventuallyTold`,
`EventuallyServed`), since the prover reaches neither liveness under fairness
nor ENABLED; and the two findings, which are violations.

## Not modelled

- Web routes and templates: parsing and redirects around the components above.
  The handlers of accounts are in `AccessControl`, the refresh in `MarketSync`.
- The order collateral journal: two entries per order event, written by the
  transaction that writes the event, from the same amounts. The verifier's
  comparison of the two is left out with it.
- The validation of settlement evidence and of market payloads, display
  classification, masking and wording of translations, languages: functions of
  one text or payload, without state. Their outcomes are choices in the models.
- The WebSocket clients: they append realtime updates. What matters of them,
  the latest reported outcome of a market, is `candidate` in `DemoPoints`.
- Posts by signed-in users are limited by one more call of the modelled
  `consume_rate_limit_slot`; password hashing, tokens and cookies are left out.
- Schema statements other than the migration of the audit chain: DDL.
- Restoring a backup as an operator's command works on a copy; the drill's
  restore is modelled.
- Configuration, diagnostics, logging, command lines and the load test.

## What could come next

Abstract specifications for more components, as `CompleteSetBank` is one for the
ledger: a store of backups for the pipeline, a journal of balance movements for
the demo points. Larger runs with two translation jobs or two participants,
which the proofs cover already. A stronger account of the limit on attempts
under way, and of what a fork of the audit chain leaves verifiable.
