-------------------------- MODULE MarketSync_proofs --------------------------
(***************************************************************************)
(* What MarketSync guarantees for every set of markets, every number of    *)
(* sync processes and every threshold.                                     *)
(***************************************************************************)
EXTENDS MarketSync, TLAPS

SyncStates == {IdleSync} \cup Fetching \cup Received \cup Planned
WebStates == {IdleWeb, [step |-> "down"]} \cup Replacing

(* A plan is about ids of its response.                                     *)
PlansCover ==
  \A p \in Syncers : sync[p].step = "planned" =>
    sync[p].insert \cup sync[p].update \subseteq DOMAIN sync[p].response

(* The step tells which record a sync process holds.                        *)
LEMMA StepTells ==
  ASSUME NEW s \in SyncStates
  PROVE  /\ s.step = "fetching" => s \in Fetching
         /\ s.step = "received" => s \in Received
         /\ s.step = "planned" => s \in Planned
         /\ s.step = "idle" => s = IdleSync
         /\ s = IdleSync => s.step = "idle"
BY DEF SyncStates, IdleSync, Fetching, Received, Planned

LEMMA WebTells ==
  ASSUME NEW w \in WebStates, w.step \in {"fetched", "deleted"}
  PROVE  w \in Replacing
BY DEF WebStates, IdleWeb, Replacing

LEMMA AnswerIsResponse ==
  ASSUME NEW S \in SUBSET Live, clock \in 0 .. MaxClock
  PROVE  normalize_events(S) \in Response
<1>1. MaxClock \in Nat BY ThresholdsAssumption
<1>2. normalize_events(S) \in [S -> Payload]
  BY <1>1 DEF normalize_events, LivePayload, Payload
<1> QED BY <1>2 DEF Response

LEMMA ResponseRange ==
  ASSUME NEW r \in Response
  PROVE  DOMAIN r \in SUBSET Live /\ \A i \in DOMAIN r : r[i] \in Payload
BY DEF Response

(* A refresh never replaces the table by nothing.                           *)
LEMMA FallbackReplaces ==
  ASSUME NEW r \in Answers, clock \in 0 .. MaxClock
  PROVE  [step |-> "fetched", result |-> Fallback(r)] \in Replacing
<1>1. MaxClock \in Nat BY ThresholdsAssumption
<1>2. PICK S \in SUBSET Live : r = normalize_events(S) BY DEF Answers
<1>3. r \in Response BY <1>2, AnswerIsResponse
<1>4. r # <<>> => DOMAIN r # {}
  <2>1. DOMAIN r = {} => r = [i \in {} |-> LivePayload]
    BY <1>2 DEF normalize_events
  <2>2. [i \in {} |-> LivePayload] = <<>> OBVIOUS
  <2> QED BY <2>1, <2>2
<1>5. DOMAIN SampleResult # {} BY IdsAssumption DEF SampleResult
<1> QED BY <1>3, <1>4, <1>5 DEF Fallback, Replacing
-----------------------------------------------------------------------------
LEMMA TypeInit == Init => TypeOK
<1> SUFFICES ASSUME Init PROVE TypeOK OBVIOUS
<1>1. MaxClock \in Nat /\ Critical \in Nat BY ThresholdsAssumption
<1>2. runs \in Runs BY <1>1 DEF Init, Runs, Never
<1> QED BY <1>1, <1>2 DEF Init, TypeOK, Absent

LEMMA TypeSync ==
  ASSUME TypeOK, PlansCover, NEW p \in Syncers, SyncStep(p)
  PROVE  TypeOK'
<1>0. MaxClock \in Nat /\ Critical \in Nat /\ 0 \in 0 .. Critical BY ThresholdsAssumption
<1>1. /\ live \in LiveSettings /\ clock \in 0 .. MaxClock
      /\ markets \in [Ids -> Payload \cup {Absent}] /\ runs \in Runs
      /\ lock \in Syncers \cup {Nobody} /\ sync \in [Syncers -> SyncStates] /\ web \in WebStates
  BY DEF TypeOK, SyncStates, WebStates
<1> DEFINE Keeps == /\ markets' \in [Ids -> Payload \cup {Absent}] /\ runs' \in Runs
                    /\ lock' \in Syncers \cup {Nobody}
                    /\ sync' \in [Syncers -> SyncStates]
<1>2. ASSUME Keeps, UNCHANGED <<live, clock, web>> PROVE TypeOK'
  BY <1>1, <1>2 DEF TypeOK, SyncStates, WebStates
<1>3. IdleSync \in SyncStates BY DEF SyncStates
<1>4. ASSUME Leave(p) PROVE /\ lock' \in Syncers \cup {Nobody} /\ sync' \in [Syncers -> SyncStates]
                            /\ UNCHANGED <<live, clock, web>>
  BY <1>1, <1>3, <1>4 DEF Leave
<1>5. ASSUME NEW dry \in BOOLEAN, StartSync(p, dry) PROVE TypeOK'
  <2>1. [step |-> "fetching", dry |-> dry] \in SyncStates BY DEF SyncStates, Fetching
  <2> QED BY <1>1, <1>2, <1>5, <2>1 DEF StartSync
<1>6. ASSUME NEW S \in SUBSET Live, Fetch(p, S) PROVE TypeOK'
  <2>1. sync[p].dry \in BOOLEAN BY <1>1, <1>6, StepTells DEF Fetch, Fetching
  <2>2. [step |-> "received", dry |-> sync[p].dry, response |-> normalize_events(S), at |-> clock] \in SyncStates
    BY <1>1, <2>1, AnswerIsResponse DEF SyncStates, Received
  <2> QED BY <1>1, <1>2, <1>6, <2>2 DEF Fetch
<1>7. CASE FailBeforeWriting(p)
  <2> DEFINE count == IF runs.failures < Critical THEN runs.failures + 1 ELSE runs.failures
  <2>0. runs.failures \in 0 .. Critical BY <1>1 DEF Runs
  <2>1. count \in 0 .. Critical BY <1>0, <2>0
  <2>2. RecordFailure => runs' = [runs EXCEPT !.some = TRUE, !.failures = count] BY DEF RecordFailure
  <2> HIDE DEF count
  <2>3. RecordFailure => runs' \in Runs BY <1>1, <2>1, <2>2 DEF Runs
  <2> QED BY <1>1, <1>2, <1>4, <1>7, <2>3 DEF FailBeforeWriting
<1>8. CASE FinishDryRun(p) BY <1>1, <1>2, <1>4, <1>8 DEF FinishDryRun
<1>9. CASE Plan(p)
  <2> DEFINE s == sync[p]
             new == {i \in DOMAIN s.response : markets[i] = Absent}
             old == {i \in DOMAIN s.response : markets[i] \notin {Absent, s.response[i]}}
             made == [step |-> "planned", response |-> s.response, at |-> s.at, insert |-> new, update |-> old]
  <2>1. s \in Received BY <1>1, <1>9, StepTells DEF Plan
  <2>2. s.response \in Response /\ s.at \in 0 .. MaxClock BY <2>1 DEF Received
  <2>3. new \in SUBSET Live /\ old \in SUBSET Live BY <2>2, ResponseRange
  <2>4. made \in SyncStates BY <2>2, <2>3 DEF SyncStates, Planned
  <2>5. sync' = [sync EXCEPT ![p] = made] BY <1>9 DEF Plan
  <2> HIDE DEF made
  <2> QED BY <1>1, <1>2, <1>9, <2>4, <2>5 DEF Plan
<1>10. CASE Write(p)
  <2> DEFINE s == sync[p]
  <2>1. s \in Planned BY <1>1, <1>10, StepTells DEF Write
  <2>2. /\ s.response \in Response /\ s.at \in 0 .. MaxClock
        /\ s.insert \subseteq Live /\ s.update \subseteq Live BY <2>1 DEF Planned
  <2>3. runs' \in Runs BY <1>0, <1>10, <2>2, ResponseRange DEF Write, RunTime, Runs, Never
  <2> DEFINE written == s.insert \cup {i \in s.update : markets[i] # Absent}
  <2>4. markets' = [i \in Ids |-> IF i \in written THEN s.response[i] ELSE markets[i]]
    BY <1>10 DEF Write
  <2>5. written \subseteq DOMAIN s.response BY <1>10 DEF PlansCover, Write
  <2>6. \A i \in written : s.response[i] \in Payload BY <2>2, <2>5, ResponseRange
  <2> HIDE DEF written
  <2>7. markets' \in [Ids -> Payload \cup {Absent}] BY <1>1, <2>4, <2>6
  <2> QED BY <1>2, <1>4, <1>10, <2>3, <2>7 DEF Write
<1>11. CASE WriteFails(p) BY <1>1, <1>2, <1>4, <1>11 DEF WriteFails
<1>12. CASE Kill(p) BY <1>1, <1>2, <1>4, <1>12 DEF Kill
<1> QED BY <1>5, <1>6, <1>7, <1>8, <1>9, <1>10, <1>11, <1>12 DEF SyncStep

LEMMA TypeWeb ==
  ASSUME TypeOK, WebStep
  PROVE  TypeOK'
<1>0. MaxClock \in Nat BY ThresholdsAssumption
<1>1. /\ live \in LiveSettings /\ clock \in 0 .. MaxClock
      /\ markets \in [Ids -> Payload \cup {Absent}] /\ web \in WebStates
  BY DEF TypeOK, WebStates
<1>2. ASSUME markets' \in [Ids -> Payload \cup {Absent}], web' \in WebStates,
             UNCHANGED <<live, clock, runs, lock, sync>>
      PROVE  TypeOK'
  BY <1>2 DEF TypeOK, WebStates
<1>3. ASSUME NEW r \in Answers, Refresh(r) PROVE TypeOK'
  BY <1>1, <1>2, <1>3, FallbackReplaces DEF Refresh, WebStates
<1>4. CASE StartServing BY <1>1, <1>2, <1>4 DEF StartServing, WebStates
<1>5. CASE DeleteMarkets
  <2>1. web \in Replacing BY <1>1, <1>5, WebTells DEF DeleteMarkets
  <2>2. [web EXCEPT !.step = "deleted"] \in Replacing BY <2>1 DEF Replacing
  <2> QED BY <1>2, <1>5, <2>2 DEF DeleteMarkets, WebStates
<1>6. CASE store_markets
  <2>1. web \in Replacing BY <1>1, <1>6, WebTells DEF store_markets
  <2>2. web.result \in Response \cup {SampleResult} BY <2>1 DEF Replacing
  <2>3. \A i \in DOMAIN web.result : web.result[i] \in Payload
    BY <1>0, <2>2, ResponseRange DEF SampleResult, SamplePayload, Payload
  <2>4. markets' \in [Ids -> Payload \cup {Absent}] BY <1>1, <1>6, <2>3 DEF store_markets
  <2> QED BY <1>2, <1>6, <2>4 DEF store_markets, WebStates
<1>7. CASE Interrupt BY <1>1, <1>2, <1>7 DEF Interrupt, WebStates
<1> QED BY <1>3, <1>4, <1>5, <1>6, <1>7 DEF WebStep, RequestRefresh, EnsureMarkets

LEMMA TypeStep ==
  ASSUME TypeOK, PlansCover, [Next]_vars
  PROVE  TypeOK'
<1>1. CASE Tick
  <2>1. clock' \in 0 .. MaxClock BY <1>1, ThresholdsAssumption DEF Tick, TypeOK
  <2>2. /\ live' = live /\ markets' = markets /\ runs' = runs
        /\ lock' = lock /\ sync' = sync /\ web' = web BY <1>1 DEF Tick
  <2> QED BY <2>1, <2>2 DEF TypeOK
<1>2. CASE UNCHANGED vars BY <1>2 DEF vars, TypeOK
<1> QED BY <1>1, <1>2, TypeWeb, TypeSync DEF Next
-----------------------------------------------------------------------------
(* The invariant.  Only the holder of the lock is at work, so nobody but    *)
(* the web process touches the table between its fetch and its              *)
(* transaction; and what a web process without live data stores are samples.*)
OneAtWork == \A p \in Syncers : sync[p] # IdleSync => lock = p

OnlyStoresSamples == web.step \in {"fetched", "deleted"} => web.result = SampleResult

(* Nothing in the table is newer than time t.                               *)
NotAfter(t) == \A i \in Live : markets[i] <= t + 1

(* What a sync has received is not older than what the table holds.         *)
ResponseIsNew(s) ==
  /\ s.at <= clock /\ NotAfter(s.at)
  /\ \A i \in DOMAIN s.response : s.response[i] = s.at + 1

(* What the plan does not write is already there, or has gone.              *)
RestIsThere(s) ==
  \A i \in DOMAIN s.response :
    i \in s.insert \cup s.update \/ markets[i] \in {Absent, s.response[i]}

RecordIsTrue ==
  /\ runs.success = Never => runs.received = {}
  /\ \A i \in runs.received : markets[i] # Absent => markets[i] > runs.success

BesideSamples ==
  /\ OnlyStoresSamples
  /\ NotAfter(clock)
  /\ RecordIsTrue
  /\ \A p \in Syncers :
       /\ sync[p].step \in {"received", "planned"} => ResponseIsNew(sync[p])
       /\ sync[p].step = "planned" => RestIsThere(sync[p])

Invariant == TypeOK /\ PlansCover /\ OneAtWork /\ (~live => BesideSamples)

LEMMA InvariantInit == Init => Invariant
<1> SUFFICES ASSUME Init PROVE Invariant OBVIOUS
<1>1. TypeOK BY TypeInit
<1>2. PlansCover /\ OneAtWork BY DEF Init, PlansCover, OneAtWork, IdleSync
<1>3. OnlyStoresSamples BY DEF Init, OnlyStoresSamples
<1>4. NotAfter(clock) /\ RecordIsTrue BY DEF Init, NotAfter, RecordIsTrue, Ids, Absent
<1> QED BY <1>1, <1>2, <1>3, <1>4 DEF Init, Invariant, BesideSamples, IdleSync

(* The lock and the plans through every step.                               *)
LEMMA LockStep ==
  ASSUME TypeOK, PlansCover, OneAtWork, [Next]_vars
  PROVE  PlansCover' /\ OneAtWork'
<1>0. sync \in [Syncers -> SyncStates] /\ Nobody \notin Syncers
  BY IdsAssumption DEF TypeOK, SyncStates
<1>1. CASE UNCHANGED <<sync, lock>> BY <1>1 DEF PlansCover, OneAtWork
<1>2. ASSUME NEW p \in Syncers, lock = p, Leave(p) PROVE PlansCover' /\ OneAtWork'
  BY <1>0, <1>2 DEF Leave, PlansCover, OneAtWork, IdleSync
<1>3. ASSUME NEW p \in Syncers, SyncStep(p) PROVE PlansCover' /\ OneAtWork'
  <2>1. ASSUME NEW dry \in BOOLEAN, StartSync(p, dry) PROVE PlansCover' /\ OneAtWork'
    BY <1>0, <2>1 DEF StartSync, try_sync_lock, PlansCover, OneAtWork
  <2>2. ASSUME sync[p].step # "idle" PROVE lock = p
    BY <1>0, <2>2, StepTells DEF OneAtWork
  <2>3. ASSUME NEW S \in SUBSET Live, Fetch(p, S) PROVE PlansCover' /\ OneAtWork'
    BY <1>0, <2>2, <2>3 DEF Fetch, PlansCover, OneAtWork
  <2>4. CASE Plan(p)
    BY <1>0, <2>2, <2>4 DEF Plan, PlansCover, OneAtWork
  <2>5. ASSUME Leave(p), sync[p].step # "idle" PROVE PlansCover' /\ OneAtWork'
    BY <1>2, <2>2, <2>5
  <2> QED
    BY <1>3, <2>1, <2>3, <2>4, <2>5 DEF SyncStep, FailBeforeWriting, FinishDryRun, Write, WriteFails, Kill
<1> QED BY <1>1, <1>3 DEF Next, Tick, WebStep, RequestRefresh, EnsureMarkets, Refresh, StartServing,
                          DeleteMarkets, store_markets, Interrupt, vars

(* A step of the web process stores samples or removes rows, neither of     *)
(* which makes a live market newer.                                         *)
LEMMA WebKeeps ==
  ASSUME Invariant, ~live, WebStep
  PROVE  BesideSamples'
<1>0. /\ BesideSamples /\ Live \cap Samples = {} /\ Absent = 0 /\ clock \in Int
      /\ markets \in [Ids -> Payload \cup {Absent}] /\ runs \in Runs
      /\ web \in WebStates /\ sync \in [Syncers -> SyncStates]
      /\ \A i \in Live : markets[i] \in Nat
  BY IdsAssumption DEF Invariant, TypeOK, WebStates, SyncStates, Absent, Ids, Payload
<1>1. ASSUME OnlyStoresSamples', UNCHANGED <<clock, runs, sync>>,
             \A i \in Live : markets'[i] \in {Absent, markets[i]}
      PROVE  BesideSamples'
  <2>1. RecordIsTrue' BY <1>0, <1>1 DEF BesideSamples, RecordIsTrue, Runs
  <2>2. ASSUME NEW t \in Nat, NotAfter(t) PROVE \A i \in Live : markets'[i] <= t + 1
    BY <1>0, <1>1, <2>2 DEF NotAfter
  <2>3. ASSUME NEW p \in Syncers, sync[p].step \in {"received", "planned"}
        PROVE  sync[p].at \in Nat /\ DOMAIN sync[p].response \subseteq Live
    BY <1>0, <2>3, StepTells, ResponseRange DEF Received, Planned
  <2>4. clock \in Nat BY DEF Invariant, TypeOK
  <2>5. NotAfter(clock)' BY <1>0, <1>1, <2>2, <2>4 DEF BesideSamples, NotAfter
  <2>6. ASSUME NEW p \in Syncers, sync[p].step \in {"received", "planned"}
        PROVE  ResponseIsNew(sync[p])'
    BY <1>0, <1>1, <2>2, <2>3, <2>6 DEF BesideSamples, ResponseIsNew, NotAfter
  <2>7. ASSUME NEW p \in Syncers, sync[p].step = "planned"
        PROVE  RestIsThere(sync[p])'
    BY <1>0, <1>1, <2>3, <2>7 DEF BesideSamples, RestIsThere
  <2> QED BY <1>1, <2>1, <2>5, <2>6, <2>7 DEF BesideSamples
<1>2. ASSUME NEW r \in Answers, Refresh(r) PROVE BesideSamples'
  <2>1. OnlyStoresSamples' BY <1>2 DEF Refresh, Fallback, OnlyStoresSamples, Invariant
  <2> QED BY <1>1, <1>2, <2>1 DEF Refresh
<1>3. CASE StartServing BY <1>1, <1>3 DEF StartServing, OnlyStoresSamples, IdleWeb
<1>4. CASE DeleteMarkets
  <2>1. web \in Replacing BY <1>0, <1>4, WebTells DEF DeleteMarkets
  <2>2. web'.result = web.result BY <1>4, <2>1 DEF DeleteMarkets, Replacing
  <2>3. OnlyStoresSamples' BY <1>0, <1>4, <2>2 DEF DeleteMarkets, OnlyStoresSamples, BesideSamples
  <2> QED BY <1>0, <1>1, <1>4, <2>3 DEF DeleteMarkets, Ids
<1>5. CASE store_markets
  <2>1. web.result = SampleResult BY <1>0, <1>5 DEF store_markets, BesideSamples, OnlyStoresSamples
  <2>2. \A i \in Live : markets'[i] = markets[i]
    BY <1>0, <1>5, <2>1 DEF store_markets, SampleResult, Ids
  <2>3. OnlyStoresSamples' BY <1>5 DEF store_markets, OnlyStoresSamples, IdleWeb
  <2> QED BY <1>1, <1>5, <2>2, <2>3 DEF store_markets
<1>6. CASE Interrupt BY <1>1, <1>6 DEF Interrupt, OnlyStoresSamples, IdleWeb
<1> QED BY <1>2, <1>3, <1>4, <1>5, <1>6 DEF WebStep, RequestRefresh, EnsureMarkets

(* What a sync reads and plans, and what its transaction makes of the table. *)
LEMMA SyncKeeps ==
  ASSUME Invariant, ~live, NEW p \in Syncers, SyncStep(p)
  PROVE  BesideSamples'
<1>0. /\ BesideSamples /\ OneAtWork /\ clock \in Nat
      /\ runs \in Runs /\ sync \in [Syncers -> SyncStates]
      /\ \A i \in Live : i \in Ids /\ markets[i] \in Nat
  BY DEF Invariant, TypeOK, SyncStates, Absent, Ids, Payload
<1>1. sync[p].step # "idle" => \A q \in Syncers \ {p} : sync[q] = IdleSync
  BY <1>0, StepTells DEF OneAtWork
<1>2. ASSUME NEW s \in SyncStates, sync' = [sync EXCEPT ![p] = s],
             UNCHANGED <<clock, markets, web>>, RecordIsTrue',
             s.step \in {"received", "planned"} => ResponseIsNew(s),
             s.step = "planned" => RestIsThere(s)
      PROVE  BesideSamples'
  BY <1>0, <1>2 DEF BesideSamples, OnlyStoresSamples, NotAfter, ResponseIsNew, RestIsThere
<1>3. ASSUME Leave(p), UNCHANGED markets, RecordIsTrue' PROVE BesideSamples'
  BY <1>2, <1>3 DEF Leave, SyncStates, IdleSync
<1>4. UNCHANGED <<runs, markets>> => RecordIsTrue'
  BY <1>0 DEF BesideSamples, RecordIsTrue
<1>5. ASSUME NEW dry \in BOOLEAN, StartSync(p, dry) PROVE BesideSamples'
  BY <1>2, <1>4, <1>5 DEF StartSync, SyncStates, Fetching
<1>6. ASSUME NEW S \in SUBSET Live, Fetch(p, S) PROVE BesideSamples'
  <2> DEFINE s == [step |-> "received", dry |-> sync[p].dry, response |-> normalize_events(S), at |-> clock]
  <2>1. sync[p].dry \in BOOLEAN BY <1>0, <1>6, StepTells DEF Fetch, Fetching
  <2>2. clock \in 0 .. MaxClock BY DEF Invariant, TypeOK
  <2>3. s \in SyncStates BY <2>1, <2>2, AnswerIsResponse DEF SyncStates, Received
  <2>4. ResponseIsNew(s)
    BY <1>0 DEF BesideSamples, ResponseIsNew, normalize_events, LivePayload
  <2>5. s.step = "received" OBVIOUS
  <2>6. sync' = [sync EXCEPT ![p] = s] BY <1>6 DEF Fetch
  <2> HIDE DEF s
  <2> QED BY <1>2, <1>4, <1>6, <2>3, <2>4, <2>5, <2>6 DEF Fetch
<1>7. CASE FailBeforeWriting(p)
  <2>1. runs' = runs \/ (runs'.success = runs.success /\ runs'.received = runs.received)
    BY <1>0, <1>7 DEF FailBeforeWriting, RecordFailure, Runs
  <2>2. RecordIsTrue'
    BY <1>0, <1>7, <2>1 DEF FailBeforeWriting, BesideSamples, RecordIsTrue
  <2> QED BY <1>3, <1>7, <2>2 DEF FailBeforeWriting
<1>8. CASE FinishDryRun(p) BY <1>3, <1>4, <1>8 DEF FinishDryRun
<1>9. CASE Plan(p)
  <2> DEFINE r == sync[p]
             new == {i \in DOMAIN r.response : markets[i] = Absent}
             old == {i \in DOMAIN r.response : markets[i] \notin {Absent, r.response[i]}}
             s == [step |-> "planned", response |-> r.response, at |-> r.at, insert |-> new, update |-> old]
  <2>1. r \in Received BY <1>0, <1>9, StepTells DEF Plan
  <2>2. r.response \in Response /\ r.at \in 0 .. MaxClock BY <2>1 DEF Received
  <2>3. new \in SUBSET Live /\ old \in SUBSET Live BY <2>2, ResponseRange
  <2>4. s \in SyncStates BY <2>2, <2>3 DEF SyncStates, Planned
  <2>5. ResponseIsNew(r) BY <1>0, <1>9 DEF Plan, BesideSamples
  <2>6. ResponseIsNew(s) BY <2>5 DEF ResponseIsNew
  <2>7. RestIsThere(s) BY DEF RestIsThere
  <2>8. sync' = [sync EXCEPT ![p] = s] BY <1>9 DEF Plan
  <2> HIDE DEF s
  <2> QED BY <1>2, <1>4, <1>9, <2>4, <2>6, <2>7, <2>8 DEF Plan
<1>10. CASE Write(p)
  <2> DEFINE s == sync[p]
             written == s.insert \cup {i \in s.update : markets[i] # Absent}
  <2>1. s \in Planned BY <1>0, <1>10, StepTells DEF Write
  <2>2. /\ s.response \in Response /\ DOMAIN s.response \subseteq Live /\ s.at \in Nat
        /\ s.insert \cup s.update \subseteq DOMAIN s.response
    BY <1>10, <2>1, ResponseRange DEF Planned, Write, Invariant, PlansCover
  <2>3. ResponseIsNew(s) /\ RestIsThere(s) BY <1>0, <1>10 DEF Write, BesideSamples
  <2>4. \A i \in Live : markets'[i] = IF i \in written THEN s.response[i] ELSE markets[i]
    BY <1>0, <1>10 DEF Write
  <2>5. \A i \in Live : markets'[i] <= s.at + 1 /\ (i \in DOMAIN s.response => markets'[i] \in {Absent, s.at + 1})
    BY <1>0, <2>2, <2>3, <2>4 DEF ResponseIsNew, RestIsThere, NotAfter
  <2>6. runs'.success = s.at /\ runs'.received = DOMAIN s.response
    BY <1>10 DEF Write, RunTime
  <2>7. RecordIsTrue' BY <2>2, <2>5, <2>6 DEF RecordIsTrue, Never
  <2>8. NotAfter(clock)' BY <1>0, <1>10, <2>2, <2>3, <2>5 DEF NotAfter, ResponseIsNew, Write, Leave
  <2>9. \A q \in Syncers : sync'[q] = IdleSync
    BY <1>0, <1>1, <1>10 DEF Write, Leave
  <2>10. OnlyStoresSamples' BY <1>0, <1>10 DEF Write, Leave, BesideSamples, OnlyStoresSamples
  <2> QED BY <2>7, <2>8, <2>9, <2>10 DEF BesideSamples, IdleSync
<1>11. CASE WriteFails(p) BY <1>3, <1>4, <1>11 DEF WriteFails
<1>12. CASE Kill(p) BY <1>3, <1>4, <1>12 DEF Kill
<1> QED BY <1>5, <1>6, <1>7, <1>8, <1>9, <1>10, <1>11, <1>12 DEF SyncStep

LEMMA InvariantStep ==
  ASSUME Invariant, [Next]_vars
  PROVE  Invariant'
<1>1. TypeOK' BY TypeStep DEF Invariant
<1>2. PlansCover' /\ OneAtWork' BY LockStep DEF Invariant
<1>3. live' = live
  BY DEF Next, Tick, SyncStep, StartSync, Fetch, FailBeforeWriting, FinishDryRun, Plan, Write, WriteFails,
         Kill, Leave, WebStep, RequestRefresh, EnsureMarkets, Refresh, StartServing, DeleteMarkets,
         store_markets, Interrupt, vars
<1>4. ASSUME ~live PROVE BesideSamples'
  <2>1. CASE Tick
    <3>1. clock \in Int /\ clock' = clock + 1 BY <2>1 DEF Tick, Invariant, TypeOK
    <3>2. \A i \in Live : markets[i] \in Int BY DEF Invariant, TypeOK, Ids, Payload, Absent
    <3>3. \A q \in Syncers : sync[q].step \in {"received", "planned"} => sync[q].at \in Int
      <4>1. sync \in [Syncers -> SyncStates] BY DEF Invariant, TypeOK, SyncStates
      <4> QED BY <4>1, StepTells DEF Received, Planned
    <3> QED
      BY <1>4, <2>1, <3>1, <3>2, <3>3 DEF Tick, Invariant, BesideSamples, OnlyStoresSamples, NotAfter,
                                    RecordIsTrue, ResponseIsNew, RestIsThere
  <2>2. CASE UNCHANGED vars
    BY <1>4, <2>2 DEF vars, Invariant, BesideSamples, OnlyStoresSamples, NotAfter, RecordIsTrue,
                      ResponseIsNew, RestIsThere
  <2> QED BY <1>4, <2>1, <2>2, WebKeeps, SyncKeeps DEF Next
<1> QED BY <1>1, <1>2, <1>3, <1>4 DEF Invariant

THEOREM InvariantHolds == Spec => []Invariant
<1> QED BY InvariantInit, InvariantStep, PTL DEF Spec
-----------------------------------------------------------------------------
(* Every variable keeps its type, whoever fails or is killed when.          *)
THEOREM TypeCorrect == Spec => []TypeOK
<1>1. Invariant => TypeOK BY DEF Invariant
<1> QED BY <1>1, InvariantHolds, PTL

(* A healthy verdict is worth its words: what the last successful sync      *)
(* received and is still there is as fresh as evaluate_sync_health says,    *)
(* for every threshold, however syncs and refreshes interleave.             *)
THEOREM HealthIsTimely == Spec => []HealthyMeansTimely
<1>1. ASSUME Invariant PROVE HealthyMeansTimely
  <2> SUFFICES ASSUME Verdict = "healthy", ~live,
                      NEW i \in runs.received, markets[i] # Absent
               PROVE  clock - (markets[i] - 1) < Delayed
    BY DEF HealthyMeansTimely
  <2>1. runs \in Runs /\ clock \in Int /\ Delayed \in Int /\ i \in Live /\ markets[i] \in Int
    BY <1>1, ThresholdsAssumption DEF Invariant, TypeOK, Runs, Ids, Payload, Absent
  <2>2. runs.success # Never /\ markets[i] > runs.success
    BY <1>1 DEF Invariant, BesideSamples, RecordIsTrue
  <2>3. Freshness # "unavailable" /\ Freshness # "stale" BY <2>2 DEF Verdict
  <2>4. clock - runs.success < Delayed BY <2>2, <2>3 DEF Freshness
  <2>5. runs.success \in Int BY <2>1 DEF Runs, Never
  <2> QED BY <2>1, <2>2, <2>4, <2>5
<1> QED BY <1>1, InvariantHolds, PTL

(* The only way a planned sync ends: its transaction, or nothing.           *)
LEMMA EndIsWriteOrNothing ==
  ASSUME Invariant, [Next]_vars, NEW p \in Syncers, EndsWriting(p)
  PROVE  Write(p) \/ markets' = markets
<1>1. sync \in [Syncers -> SyncStates] BY DEF Invariant, TypeOK, SyncStates
<1>2. sync'[p] # sync[p] BY <1>1, StepTells DEF EndsWriting
<1>3. PICK q \in Syncers : SyncStep(q)
  BY <1>2 DEF Next, Tick, WebStep, RequestRefresh, EnsureMarkets, Refresh, StartServing, DeleteMarkets,
              store_markets, Interrupt, vars
<1>4. Write(q) => q = p
  BY <1>1, <1>2 DEF Write, Leave
<1> QED
  BY <1>3, <1>4 DEF SyncStep, StartSync, Fetch, FailBeforeWriting, FinishDryRun, Plan, WriteFails, Kill

(* What Write needs to know of its plan.                                    *)
LEMMA PlanFacts ==
  ASSUME Invariant, NEW p \in Syncers, Write(p)
  PROVE  /\ DOMAIN sync[p].response \subseteq Live
         /\ sync[p].insert \cup sync[p].update \subseteq DOMAIN sync[p].response
         /\ sync[p].at \in Nat
<1>1. sync \in [Syncers -> SyncStates] BY DEF Invariant, TypeOK, SyncStates
<1>2. sync[p] \in Planned BY <1>1, StepTells DEF Write
<1> QED BY <1>2, ResponseRange DEF Planned, Write, Invariant, PlansCover

(* Beside a web process without live data no sync goes back: the lock keeps *)
(* every other sync away from the table between a fetch and its             *)
(* transaction, whatever the number of processes.                           *)
THEOREM NeverGoesBack == Spec => SyncNeverGoesBack
<1>1. ASSUME Invariant, [Next]_vars, ~live, NEW p \in Syncers, EndsWriting(p), NEW i \in Live
      PROVE  markets'[i] >= markets[i]
  <2>1. i \in Ids /\ markets[i] \in Int BY <1>1 DEF Invariant, TypeOK, Ids, Payload, Absent
  <2>2. CASE Write(p)
    <3>1. ResponseIsNew(sync[p]) BY <1>1, <2>2 DEF Write, Invariant, BesideSamples
    <3>2. sync[p].insert \cup sync[p].update \subseteq DOMAIN sync[p].response /\ sync[p].at \in Int
      BY <1>1, <2>2, PlanFacts
    <3>3. markets[i] <= sync[p].at + 1 BY <3>1 DEF ResponseIsNew, NotAfter
    <3>4. \/ markets'[i] = markets[i]
          \/ i \in DOMAIN sync[p].response /\ markets'[i] = sync[p].response[i]
      BY <2>1, <2>2, <3>2 DEF Write
    <3>5. markets'[i] \in {markets[i], sync[p].at + 1} BY <3>1, <3>4 DEF ResponseIsNew
    <3> QED BY <2>1, <3>2, <3>3, <3>5
  <2> QED BY <1>1, <2>1, <2>2, EndIsWriteOrNothing
<1>2. ASSUME Invariant, [Next]_vars
      PROVE  [~live => \A p \in Syncers : EndsWriting(p) => \A i \in Live : markets'[i] >= markets[i]]_vars
  BY <1>1, <1>2
<1> QED BY <1>2, InvariantHolds, PTL DEF Spec, SyncNeverGoesBack
=============================================================================
