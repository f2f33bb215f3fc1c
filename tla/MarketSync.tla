----------------------------- MODULE MarketSync -----------------------------
(***************************************************************************)
(* How market rows reach the database: the one-shot synchronisation of     *)
(* scripts/sync_polymarket_markets.py (app/polymarket_sync.py), started by *)
(* a timer and by hand, and the refresh of the web process                 *)
(* (app/realtime.py), which takes no lock.  Beside them, the verdict that  *)
(* app/sync_alert.py draws from the recorded runs.                         *)
(*                                                                         *)
(* The market service changes every live market at every tick: a row's     *)
(* payload is the time it was fetched at, and _market_hash compares        *)
(* payloads without that time, which is what two payloads of one tick      *)
(* share.  The samples never change.  Records without an id and duplicates *)
(* in a response, snapshots and counters are left out, and so are the      *)
(* files the Gamma client writes for diagnosis.                            *)
(***************************************************************************)
EXTENDS Integers, FiniteSets

CONSTANTS
  Live,          \* ids the market service knows
  Samples,       \* ids of the bundled sample markets
  Syncers,       \* sync processes: the timer's and manual ones
  Nobody,        \* the lock file is free
  LiveSettings,  \* the values settings.live may have
  Delayed,       \* DELAYED_SECONDS
  Expired,       \* STALE_SECONDS
  Warning,       \* WARNING_FAILURES
  Critical,      \* CRITICAL_FAILURES
  MaxClock       \* bound on time

ASSUME IdsAssumption == Live \cap Samples = {} /\ Samples # {} /\ Nobody \notin Syncers
ASSUME ThresholdsAssumption ==
  /\ {Delayed, Expired, Warning, Critical, MaxClock} \subseteq Nat
  /\ Delayed < Expired /\ 0 < Warning /\ Warning < Critical
  /\ LiveSettings \subseteq BOOLEAN

VARIABLES
  live,      \* settings.live of the web process
  clock,
  markets,   \* table markets: payload, or Absent
  runs,      \* what market_sync_runs tells: see Runs
  lock,      \* holder of <db>.sync.lock
  sync,      \* what each sync process is doing
  web        \* what the web process is doing

vars == <<live, clock, markets, runs, lock, sync, web>>

Ids == Live \cup Samples
Absent == 0
Payload == 1 .. MaxClock + 1
SamplePayload == 1
LivePayload == clock + 1          \* what the service says now

(* A response: some of the live markets, or none of them.                   *)
Response == UNION {[S -> Payload] : S \in SUBSET Live}
SampleResult == [i \in Samples |-> SamplePayload]

Never == -1

(* The newest run with successful_at and the failures since; the ids the    *)
(* run received are kept beside it.                                         *)
Runs == [some : BOOLEAN, success : Never .. MaxClock, received : SUBSET Live, failures : 0 .. Critical]

IdleSync == [step |-> "idle"]
Fetching == [step : {"fetching"}, dry : BOOLEAN]
Received == [step : {"received"}, dry : BOOLEAN, response : Response, at : 0 .. MaxClock]
Planned  == [step : {"planned"}, response : Response, at : 0 .. MaxClock,
             insert : SUBSET Live, update : SUBSET Live]
IdleWeb == [step |-> "serving"]
Replacing == [step : {"fetched", "deleted"},      \* never a replacement by nothing
              result : {r \in Response \cup {SampleResult} : DOMAIN r # {}}]

TypeOK ==
  /\ live \in LiveSettings /\ clock \in 0 .. MaxClock
  /\ markets \in [Ids -> Payload \cup {Absent}]
  /\ runs \in Runs
  /\ lock \in Syncers \cup {Nobody}
  /\ sync \in [Syncers -> {IdleSync} \cup Fetching \cup Received \cup Planned]
  /\ web \in {IdleWeb, [step |-> "down"]} \cup Replacing

Init ==
  /\ live \in LiveSettings /\ clock = 0
  /\ markets = [i \in Ids |-> Absent]
  /\ runs = [some |-> FALSE, success |-> Never, received |-> {}, failures |-> 0]
  /\ lock = Nobody
  /\ sync = [p \in Syncers |-> IdleSync]
  /\ web = [step |-> "down"]

Tick == clock < MaxClock /\ clock' = clock + 1 /\ UNCHANGED <<live, markets, runs, lock, sync, web>>

-----------------------------------------------------------------------------
(* The sync process.  Definitions whose name ends in _slip are the next one *)
(* with a plausible mistake; nothing uses them.                             *)

(* Leaving the with block, or dying, releases the flock.                    *)
Leave(p) ==
  /\ sync' = [sync EXCEPT ![p] = IdleSync]
  /\ lock' = Nobody
  /\ UNCHANGED <<live, clock, web>>

RecordFailure == runs' = [runs EXCEPT !.some = TRUE,
                            !.failures = IF @ < Critical THEN @ + 1 ELSE @]

try_sync_lock_slip == TRUE

(* A process that finds the lock taken returns sync_already_running and     *)
(* records nothing.                                                         *)
try_sync_lock == lock = Nobody

StartSync(p, dry) ==
  /\ sync[p] = IdleSync
  /\ try_sync_lock
  /\ lock' = p
  /\ sync' = [sync EXCEPT ![p] = [step |-> "fetching", dry |-> dry]]
  /\ UNCHANGED <<live, clock, markets, runs, web>>

(* normalize_events: a row for each displayable market of the answer, with  *)
(* what the service says of it.                                             *)
normalize_events(S) == [i \in S |-> LivePayload]

Fetch(p, S) ==
  /\ sync[p].step = "fetching"
  /\ S # {}
  /\ sync' = [sync EXCEPT ![p] = [step |-> "received", dry |-> sync[p].dry,
                                  response |-> normalize_events(S), at |-> clock]]
  /\ UNCHANGED <<live, clock, markets, runs, lock, web>>

(* No answer, an error or an empty list, and a failing read of the table:   *)
(* the failure is recorded if that write succeeds, and a dry run writes     *)
(* nothing.                                                                 *)
FailBeforeWriting(p) ==
  /\ sync[p].step \in {"fetching", "received"}
  /\ \/ ~sync[p].dry /\ RecordFailure
     \/ UNCHANGED runs
  /\ Leave(p)
  /\ UNCHANGED markets

FinishDryRun(p) ==
  /\ sync[p].step = "received" /\ sync[p].dry
  /\ Leave(p)
  /\ UNCHANGED <<markets, runs>>

(* The plan is made from a read in autocommit mode.                         *)
Plan(p) ==
  LET s   == sync[p]
      new == {i \in DOMAIN s.response : markets[i] = Absent}
      old == {i \in DOMAIN s.response : markets[i] \notin {Absent, s.response[i]}}
  IN /\ s.step = "received" /\ ~s.dry
     /\ sync' = [sync EXCEPT ![p] = [step |-> "planned", response |-> s.response,
                                     at |-> s.at, insert |-> new, update |-> old]]
     /\ UNCHANGED <<live, clock, markets, runs, lock, web>>

(* An id somebody inserted since the plan fails the transaction.            *)
CanInsert(s) == \A i \in s.insert : markets[i] = Absent

RunTime_slip(s) == clock

RunTime(s) == s.at       \* retrieved_at is the time of the request

(* The transaction: every planned row and the run, or nothing.  An update   *)
(* of a row that has gone changes nothing and is no error.                  *)
Write(p) ==
  LET s == sync[p]
      written == s.insert \cup {i \in s.update : markets[i] # Absent}
  IN /\ s.step = "planned"
     /\ CanInsert(s)
     /\ markets' = [i \in Ids |-> IF i \in written THEN s.response[i] ELSE markets[i]]
     /\ runs' = [some |-> TRUE, success |-> RunTime(s),
                 received |-> DOMAIN s.response, failures |-> 0]
     /\ Leave(p)

(* A failing statement rolls everything back, and this failure alone is not *)
(* recorded.  So does a killed process, at any step.                        *)
WriteFails(p) ==
  /\ sync[p].step = "planned"
  /\ Leave(p)
  /\ UNCHANGED <<markets, runs>>

Kill(p) == sync[p].step \in {"fetching", "received"} /\ Leave(p) /\ UNCHANGED <<markets, runs>>

-----------------------------------------------------------------------------
(* The web process: refresh_markets_with_result, then replace_markets in    *)
(* two transactions.  Other requests wait; other processes do not.          *)

Fallback(result) == IF live /\ result # <<>> THEN result ELSE SampleResult

Answers == {normalize_events(S) : S \in SUBSET Live}

Refresh(result) ==
  /\ web' = [step |-> "fetched", result |-> Fallback(result)]
  /\ UNCHANGED <<live, clock, markets, runs, lock, sync>>

(* An administrator asks for it, or the refresh interval has passed.        *)
RequestRefresh(result) == web = IdleWeb /\ Refresh(result)

OnlySamples == \A i \in Live : markets[i] = Absent
NoMarkets == \A i \in Ids : markets[i] = Absent

MustRefresh_slip == live /\ OnlySamples /\ ~NoMarkets

(* ensure_markets, at start and on the requests that need markets.          *)
MustRefresh == NoMarkets \/ (live /\ OnlySamples)

EnsureMarkets(result) == web.step \in {"serving", "down"} /\ MustRefresh /\ Refresh(result)

StartServing ==
  /\ web.step = "down" /\ ~MustRefresh
  /\ web' = IdleWeb
  /\ UNCHANGED <<live, clock, markets, runs, lock, sync>>

DeleteMarkets ==
  /\ web.step = "fetched"
  /\ markets' = [i \in Ids |-> Absent]
  /\ web' = [web EXCEPT !.step = "deleted"]
  /\ UNCHANGED <<live, clock, runs, lock, sync>>

store_markets ==
  /\ web.step = "deleted"
  /\ markets' = [i \in Ids |-> IF i \in DOMAIN web.result THEN web.result[i] ELSE markets[i]]
  /\ web' = IdleWeb
  /\ UNCHANGED <<live, clock, runs, lock, sync>>

(* The process dies, or a statement fails and the request with it.          *)
Interrupt ==
  /\ web.step \in {"fetched", "deleted"}
  /\ web' \in {IdleWeb, [step |-> "down"]}
  /\ UNCHANGED <<live, clock, markets, runs, lock, sync>>

-----------------------------------------------------------------------------
SyncStep(p) ==
  \/ \E dry \in BOOLEAN : StartSync(p, dry)
  \/ \E S \in SUBSET Live : Fetch(p, S)
  \/ FailBeforeWriting(p) \/ FinishDryRun(p) \/ Plan(p) \/ Write(p) \/ WriteFails(p) \/ Kill(p)

WebStep ==
  \/ \E result \in Answers : RequestRefresh(result) \/ EnsureMarkets(result)
  \/ StartServing \/ DeleteMarkets \/ store_markets \/ Interrupt

Next == Tick \/ WebStep \/ \E p \in Syncers : SyncStep(p)

Spec == Init /\ [][Next]_vars

(* systemd restarts the web process, pages are asked for, and a request     *)
(* that is tried again and again is not interrupted every time.             *)
Fairness ==
  /\ WF_vars(StartServing) /\ WF_vars(\E result \in Answers : EnsureMarkets(result))
  /\ SF_vars(DeleteMarkets) /\ SF_vars(store_markets)

FairSpec == Spec /\ Fairness

-----------------------------------------------------------------------------
(* classify_market_freshness of the last success, and evaluate_sync_health. *)
Freshness ==
  CASE runs.success = Never \/ clock - runs.success >= Expired -> "unavailable"
    [] clock - runs.success < Delayed -> "timely"      \* current or delayed
    [] OTHER -> "stale"

Verdict ==
  CASE ~runs.some -> "not_initialized"
    [] runs.success # Never /\ Freshness = "unavailable" -> "critical"
    [] runs.failures >= Critical -> "critical"
    [] Freshness = "stale" \/ runs.failures >= Warning -> "warning"
    [] OTHER -> "healthy"

-----------------------------------------------------------------------------
(* Properties.                                                             *)

EndsWriting(p) == sync[p].step = "planned" /\ sync'[p] = IdleSync

(* Beside a web process that serves samples only, as deployed, no sync puts *)
(* an older state of a market over a newer one, however a manual run and    *)
(* the timer's overlap.                                                     *)
SyncNeverGoesBack ==
  [][~live => \A p \in Syncers : EndsWriting(p) => \A i \in Live : markets'[i] >= markets[i]]_vars

(* When the verdict is healthy, what the last successful sync received and  *)
(* is still in the table is not older than the freshness promises, beside   *)
(* a web process that serves samples only.                                  *)
HealthyMeansTimely ==
  Verdict = "healthy" /\ ~live =>
    \A i \in runs.received : markets[i] # Absent => clock - (markets[i] - 1) < Delayed

(* The table is not empty for good, although the refresh deletes it in a    *)
(* transaction of its own and may die before it stores the new rows.        *)
EventuallyServed == []<>(~NoMarkets)
=============================================================================
