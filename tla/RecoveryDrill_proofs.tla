------------------------ MODULE RecoveryDrill_proofs ------------------------
(***************************************************************************)
(* What the backup pipeline and the recovery evidence beside it guarantee  *)
(* for every number of schedulers, every retention policy, every age the   *)
(* alert accepts, and any number of backups, faults and ticks.             *)
(***************************************************************************)
EXTENDS RecoveryDrill, FiniteSetTheorems, SequenceTheorems, WellFoundedInduction, TLAPS

-----------------------------------------------------------------------------
(* The order of backups.  The lemmas speak of a sequence c of times, for    *)
(* `created' before a step and after it.                                    *)

Later(c, i, j) == c[i] > c[j] \/ (c[i] = c[j] /\ i > j)
First(c, S) == CHOOSE i \in S : \A j \in S \ {i} : Later(c, i, j)
Last(c, S)  == CHOOSE i \in S : \A j \in S \ {i} : Later(c, j, i)

LEMMA LeastNatural ==
  ASSUME NEW T, T \subseteq Nat, T # {}
  PROVE  \E m \in T : \A n \in T : m <= n
<1> DEFINE R == OpToRel(<, Nat)
<1>1. IsWellFoundedOn(R, Nat) BY NatLessThanWellFounded, Zenon DEF OpToRel
<1>2. \A m, n \in Nat : <<n, m>> \in R <=> n < m BY DEF OpToRel
<1> HIDE DEF R
<1>3. PICK m \in T : \A n \in T : <<n, m>> \notin R BY <1>1, WFMin, Zenon
<1>4. \A n \in T : ~(n < m) BY <1>2, <1>3, Zenon
<1> QED BY <1>4

LEMMA GreatestNatural ==
  ASSUME NEW T, T \subseteq Nat, T # {}, NEW b \in Nat, \A n \in T : n <= b
  PROVE  \E m \in T : \A n \in T : n <= m
<1> DEFINE U == {m \in Nat : \A n \in T : n <= m}
<1>1. U \subseteq Nat /\ U # {} OBVIOUS
<1>2. PICK m \in U : \A n \in U : m <= n BY <1>1, LeastNatural
<1>3. m \in T
  <2> SUFFICES ASSUME m \notin T PROVE FALSE OBVIOUS
  <2>1. \A n \in T : n < m OBVIOUS
  <2>2. PICK t \in T : t < m BY <2>1
  <2>3. m - 1 \in Nat /\ \A n \in T : n <= m - 1 BY <1>1, <2>1, <2>2
  <2> QED BY <1>2, <2>3
<1> QED BY <1>3

(* Of any backups there are, one is the newest and one the oldest.          *)
LEMMA FirstFacts ==
  ASSUME NEW c \in Seq(Nat), NEW S, S \subseteq DOMAIN c, S # {}, NEW b \in Nat,
         \A i \in S : c[i] <= b
  PROVE  First(c, S) \in S /\ \A j \in S \ {First(c, S)} : Later(c, First(c, S), j)
<1> DEFINE n == Len(c)
           T == {c[i] : i \in S}
<1>1. n \in Nat /\ \A i \in S : i \in 1 .. n /\ c[i] \in Nat OBVIOUS
<1> HIDE DEF n
<1>2. T \subseteq Nat /\ T # {} /\ \A t \in T : t <= b BY <1>1
<1>3. PICK m \in T : \A t \in T : t <= m BY <1>2, GreatestNatural
<1> DEFINE E == {i \in S : c[i] = m}
<1>4. E \subseteq Nat /\ E # {} /\ \A i \in E : i <= n BY <1>1, <1>3
<1>5. PICK i \in E : \A j \in E : j <= i BY <1>1, <1>4, GreatestNatural
<1>6. ASSUME NEW j \in S \ {i} PROVE Later(c, i, j)
  <2>1. c[j] <= m /\ (j \in E <=> c[j] = m) /\ c[i] = m /\ m \in Nat BY <1>2, <1>3, <1>5
  <2>2. i \in Nat /\ j \in Nat /\ c[j] \in Nat /\ i # j BY <1>1, <1>5
  <2> QED BY <1>5, <2>1, <2>2 DEF Later
<1>7. \E k \in S : \A j \in S \ {k} : Later(c, k, j) BY <1>5, <1>6
<1> QED BY <1>7, Zenon DEF First

LEMMA LastFacts ==
  ASSUME NEW c \in Seq(Nat), NEW S, S \subseteq DOMAIN c, S # {}
  PROVE  Last(c, S) \in S /\ \A j \in S \ {Last(c, S)} : Later(c, j, Last(c, S))
<1> DEFINE n == Len(c)
           T == {c[i] : i \in S}
<1>1. n \in Nat /\ \A i \in S : i \in 1 .. n /\ c[i] \in Nat OBVIOUS
<1> HIDE DEF n
<1>2. T \subseteq Nat /\ T # {} BY <1>1
<1>3. PICK m \in T : \A t \in T : m <= t BY <1>2, LeastNatural
<1> DEFINE E == {i \in S : c[i] = m}
<1>4. E \subseteq Nat /\ E # {} BY <1>1, <1>3
<1>5. PICK i \in E : \A j \in E : i <= j BY <1>4, LeastNatural
<1>6. ASSUME NEW j \in S \ {i} PROVE Later(c, j, i)
  <2>1. m <= c[j] /\ (j \in E <=> c[j] = m) /\ c[i] = m /\ m \in Nat BY <1>2, <1>3, <1>5
  <2>2. i \in Nat /\ j \in Nat /\ c[j] \in Nat /\ i # j BY <1>1, <1>5
  <2> QED BY <1>5, <2>1, <2>2 DEF Later
<1>7. \E k \in S : \A j \in S \ {k} : Later(c, j, k) BY <1>5, <1>6
<1> QED BY <1>7, Zenon DEF Last

(* No two are, and what is published later does not change it.              *)
LEMMA LaterIsStrict ==
  ASSUME NEW c \in Seq(Nat), NEW i \in DOMAIN c, NEW j \in DOMAIN c, Later(c, i, j)
  PROVE  ~Later(c, j, i) /\ i # j
<1>1. i \in Nat /\ j \in Nat /\ c[i] \in Nat /\ c[j] \in Nat OBVIOUS
<1> QED BY <1>1 DEF Later

LEMMA FirstIsOnly ==
  ASSUME NEW c \in Seq(Nat), NEW S, S \subseteq DOMAIN c, NEW b \in Nat, \A i \in S : c[i] <= b,
         NEW k \in S, \A j \in S \ {k} : Later(c, k, j)
  PROVE  k = First(c, S)
<1>1. First(c, S) \in S /\ \A j \in S \ {First(c, S)} : Later(c, First(c, S), j) BY FirstFacts
<1> QED BY <1>1, LaterIsStrict

LEMMA LastIsStable ==
  ASSUME NEW c \in Seq(Nat), NEW d \in Seq(Nat), NEW S, S \subseteq DOMAIN c, S # {},
         DOMAIN c \subseteq DOMAIN d, \A i \in DOMAIN c : d[i] = c[i]
  PROVE  Last(d, S) = Last(c, S)
<1>1. /\ Last(c, S) \in S /\ \A j \in S \ {Last(c, S)} : Later(c, j, Last(c, S))
      /\ Last(d, S) \in S /\ \A j \in S \ {Last(d, S)} : Later(d, j, Last(d, S))
  BY LastFacts
<1>2. \A i, j \in S : Later(c, i, j) <=> Later(d, i, j) BY DEF Later
<1> QED BY <1>1, <1>2, LaterIsStrict

-----------------------------------------------------------------------------
(* The inductive invariant of the pipeline.                                *)

Phases == {"idle", "locked", "published", "paired", "pruning", "unlinking", "passed", "failed"}
RunType == [phase : Phases, id : 0 .. MaxBackups, todo : SUBSET Ids, held : SUBSET Ids]

(* The parts of the type invariant, by who changes them.                    *)
CountersOK == clock \in 0 .. MaxClock /\ faults \in 0 .. MaxFaults
FilesOK ==
  /\ created \in Seq(0 .. MaxClock) /\ Len(created) <= MaxBackups
  /\ db \subseteq DOMAIN created /\ meta \subseteq DOMAIN created
StoreOK ==
  /\ objects \subseteq (DOMAIN created) \X {"db", "meta"}
  /\ DOMAIN receipts \subseteq DOMAIN created
  /\ \A i \in DOMAIN receipts : receipts[i] \in 0 .. MaxClock
LastRunOK == lastRun \in [status : {"none", "PASS", "FAIL"}, id : 0 .. MaxBackups]
RunOK == run \in [Schedulers -> RunType]
RepOK == rep \in [phase : {"idle", "db", "meta", "receipt"}, todo : SUBSET Ids]

(* The replicator has put what it says it has put.                          *)
Replicating ==
  /\ rep.todo \subseteq DOMAIN created
  /\ rep.phase # "idle" => rep.todo # {}
  /\ rep.phase \in {"meta", "receipt"} => <<Last(created, rep.todo), "db">> \in objects
  /\ rep.phase = "receipt" => <<Last(created, rep.todo), "meta">> \in objects

(* The lock excludes.                                                       *)
OneHolder == \A s, q \in Schedulers : HoldsLock(s) /\ HoldsLock(q) => s = q

(* What the holder knows of the directory, from the phase it is in: what it *)
(* has published, and, while it prunes, that its candidates are not the     *)
(* newest pair nor its own, and that the one it is removing is down to its  *)
(* sidecar.                                                                 *)
Prunes(s) == run[s].phase \in {"pruning", "unlinking"}
Holding(s) ==
  /\ run[s].phase = "published" => run[s].id \in db \ meta
  /\ run[s].phase = "paired" \/ Prunes(s) => run[s].id \in Pairs
  /\ Prunes(s) => /\ run[s].todo \subseteq (DOMAIN created) \ {run[s].id}
                  /\ run[s].todo # {} => \E n \in Pairs : \A i \in run[s].todo : Later(created, n, i)
  /\ run[s].phase = "unlinking" => run[s].todo # {} /\ First(created, run[s].todo) \notin db

PipelineInv ==
  /\ CountersOK /\ FilesOK /\ StoreOK /\ LastRunOK /\ RunOK /\ RepOK
  /\ Replicating /\ ReceiptsAreTrue
  /\ OneHolder /\ \A s \in Schedulers : Holding(s)

LEMMA TimesFacts ==
  ASSUME NEW b \in Nat, NEW c \in Seq(0 .. b)
  PROVE  /\ c \in Seq(Nat) /\ Len(c) \in Nat /\ DOMAIN c = 1 .. Len(c)
         /\ \A i \in DOMAIN c : c[i] \in Nat /\ c[i] <= b
<1>1. Len(c) \in Nat /\ DOMAIN c = 1 .. Len(c) BY LenProperties
<1>2. c \in Seq(Nat)
  <2>1. 0 .. b \subseteq Nat OBVIOUS
  <2> QED BY <2>1, SeqMonotonic
<1>3. \A i \in 1 .. Len(c) : c[i] \in 0 .. b BY ElementOfSeq
<1> QED BY <1>1, <1>2, <1>3

LEMMA FilesFacts ==
  ASSUME FilesOK
  PROVE  /\ created \in Seq(Nat) /\ Len(created) \in Nat /\ MaxBackups \in Nat /\ MaxClock \in Nat
         /\ DOMAIN created = 1 .. Len(created) /\ DOMAIN created \subseteq Ids
         /\ \A i \in DOMAIN created : created[i] \in Nat /\ created[i] <= MaxClock
<1>1. MaxBackups \in Nat /\ MaxClock \in Nat BY LimitsAssumption
<1>2. created \in Seq(0 .. MaxClock) /\ Len(created) <= MaxBackups BY DEF FilesOK
<1>3. /\ created \in Seq(Nat) /\ Len(created) \in Nat /\ DOMAIN created = 1 .. Len(created)
      /\ \A i \in DOMAIN created : created[i] \in Nat /\ created[i] <= MaxClock
  BY <1>1, <1>2, TimesFacts
<1>4. DOMAIN created \subseteq Ids BY <1>1, <1>2, <1>3 DEF Ids
<1> QED BY <1>1, <1>3, <1>4

(* The module's Newest and Oldest are the First and Last of the lemmas.     *)
LEMMA NewestIsFirst ==
  /\ \A S : Newest(S) = First(created, S)
  /\ \A S : Oldest(S) = Last(created, S)
  /\ \A i, j : Newer(i, j) <=> Later(created, i, j)
BY Zenon DEF Newest, Oldest, Newer, First, Last, Later

LEMMA NewestFacts ==
  ASSUME FilesOK, NEW S, S \subseteq DOMAIN created, S # {}
  PROVE  /\ Newest(S) \in S /\ \A j \in S \ {Newest(S)} : Newer(Newest(S), j)
         /\ Oldest(S) \in S
<1>1. First(created, S) \in S /\ \A j \in S \ {First(created, S)} : Later(created, First(created, S), j)
  BY FirstFacts, FilesFacts
<1>2. Last(created, S) \in S BY LastFacts, FilesFacts
<1> QED BY <1>1, <1>2, NewestIsFirst

(* created only grows.                                                      *)
Grown ==
  /\ FilesOK'
  /\ DOMAIN created \subseteq DOMAIN created'
  /\ \A i \in DOMAIN created : created'[i] = created[i]

LEMMA GrownFacts ==
  ASSUME FilesOK, Grown
  PROVE  /\ created' \in Seq(Nat) /\ DOMAIN created' \subseteq Ids
         /\ \A S : S \subseteq DOMAIN created /\ S # {} => Last(created', S) = Last(created, S)
         /\ \A i, j \in DOMAIN created : Later(created', i, j) <=> Later(created, i, j)
<1>1. created' \in Seq(Nat) /\ DOMAIN created' \subseteq Ids
  <2>1. MaxBackups \in Nat /\ MaxClock \in Nat BY LimitsAssumption
  <2>2. created' \in Seq(0 .. MaxClock) /\ Len(created') <= MaxBackups BY DEF Grown, FilesOK
  <2>3. created' \in Seq(Nat) /\ DOMAIN created' = 1 .. Len(created') /\ Len(created') \in Nat
    BY <2>1, <2>2, TimesFacts
  <2> QED BY <2>1, <2>2, <2>3 DEF Ids
<1>2. created \in Seq(Nat) BY FilesFacts
<1>3. \A S : S \subseteq DOMAIN created /\ S # {} => Last(created', S) = Last(created, S)
  BY <1>1, <1>2, LastIsStable DEF Grown
<1>4. \A i, j \in DOMAIN created : Later(created', i, j) <=> Later(created, i, j) BY DEF Grown, Later
<1> QED BY <1>1, <1>3, <1>4

LEMMA GrownWhenUnchanged ==
  ASSUME FilesOK, created' = created, db' \subseteq DOMAIN created, meta' \subseteq DOMAIN created
  PROVE  Grown
BY DEF Grown, FilesOK

-----------------------------------------------------------------------------
(* What a step leaves alone.                                               *)

(* A scheduler's step is no business of the replicator's.                   *)
LEMMA SchedulerFrame ==
  ASSUME PipelineInv, Grown, UNCHANGED <<objects, receipts, rep>>
  PROVE  StoreOK' /\ RepOK' /\ Replicating' /\ ReceiptsAreTrue'
<1>1. StoreOK' BY DEF PipelineInv, StoreOK, Grown
<1>2. RepOK' BY DEF PipelineInv, RepOK
<1>3. rep'.todo = rep.todo /\ rep'.phase = rep.phase /\ objects' = objects OBVIOUS
<1>4. rep.todo # {} => Last(created', rep'.todo) = Last(created, rep.todo)
  BY <1>3, GrownFacts DEF PipelineInv, Replicating
<1>5. Replicating' BY <1>3, <1>4 DEF PipelineInv, Replicating, Grown
<1>6. ReceiptsAreTrue' BY DEF PipelineInv, ReceiptsAreTrue, Replicated
<1> QED BY <1>1, <1>2, <1>5, <1>6

(* A step of the replicator, or of the clock, is none of the schedulers'.   *)
LEMMA ReplicatorFrame ==
  ASSUME PipelineInv, UNCHANGED <<files, run, lastRun>>
  PROVE  FilesOK' /\ LastRunOK' /\ RunOK' /\ OneHolder' /\ \A s \in Schedulers : Holding(s)'
<1>1. created' = created /\ db' = db /\ meta' = meta /\ run' = run /\ lastRun' = lastRun BY DEF files
<1>2. FilesOK' /\ LastRunOK' /\ RunOK' BY <1>1 DEF PipelineInv, FilesOK, LastRunOK, RunOK
<1>3. OneHolder' BY <1>1 DEF PipelineInv, OneHolder, HoldsLock
<1>4. \A s \in Schedulers : Holding(s)' BY <1>1 DEF PipelineInv, Holding, Prunes, Pairs
<1> QED BY <1>2, <1>3, <1>4

(* A step of one scheduler changes no other.                                *)
Moves(s) == run'[s] \in RunType /\ run' = [run EXCEPT ![s] = run'[s]]

LEMMA GoesMoves ==
  ASSUME RunOK, NEW s \in Schedulers, NEW x \in Phases, Goes(s, x)
  PROVE  /\ Moves(s)
         /\ run'[s].phase = x /\ run'[s].id = run[s].id
         /\ run'[s].todo = run[s].todo /\ run'[s].held = run[s].held
<1> DEFINE r == [run[s] EXCEPT !.phase = x]
<1>1. run \in [Schedulers -> RunType] BY DEF RunOK
<1>2. run[s] \in RunType BY <1>1
<1>3. r \in RunType /\ r.phase = x /\ r.id = run[s].id /\ r.todo = run[s].todo /\ r.held = run[s].held
  BY <1>2 DEF RunType
<1>4. run' = [run EXCEPT ![s] = r] BY DEF Goes
<1> HIDE DEF r
<1>5. run'[s] = r BY <1>1, <1>4
<1> QED BY <1>3, <1>4, <1>5 DEF Moves

LEMMA BecomesMoves ==
  ASSUME RunOK, NEW s \in Schedulers, NEW r \in RunType, Becomes(s, r)
  PROVE  Moves(s) /\ run'[s] = r
<1>1. run \in [Schedulers -> RunType] BY DEF RunOK
<1>2. run'[s] = r BY <1>1 DEF Becomes
<1> QED BY <1>2 DEF Moves, Becomes

(* A scheduler's step leaves the others what they know: if it touches the   *)
(* directory it has the lock, and then they have not.                       *)
LEMMA OthersKeep ==
  ASSUME PipelineInv, NEW s \in Schedulers, Moves(s),
         HoldsLock(s) \/ UNCHANGED files,
         HoldsLock(s)' => HoldsLock(s) \/ LockFree,
         Holding(s)'
  PROVE  RunOK' /\ OneHolder' /\ \A q \in Schedulers : Holding(q)'
<1>1. run \in [Schedulers -> RunType] BY DEF PipelineInv, RunOK
<1>2. RunOK' BY <1>1 DEF RunOK, Moves
<1>3. \A q \in Schedulers : q # s => run'[q] = run[q] BY <1>1 DEF Moves
<1>4. \A q \in Schedulers : q # s => (HoldsLock(q)' <=> HoldsLock(q)) BY <1>3 DEF HoldsLock
<1>5. OneHolder' BY <1>4 DEF PipelineInv, OneHolder, LockFree
<1>6. ASSUME NEW q \in Schedulers, q # s PROVE Holding(q)'
  <2>1. run'[q] = run[q] BY <1>3, <1>6
  <2>2. CASE HoldsLock(s)
    <3>1. ~HoldsLock(q) BY <1>6, <2>2 DEF PipelineInv, OneHolder
    <3>2. run'[q].phase \notin {"published", "paired", "pruning", "unlinking"} BY <2>1, <3>1 DEF HoldsLock
    <3> QED BY <3>2 DEF Holding, Prunes
  <2>3. CASE UNCHANGED files
    <3>1. created' = created /\ db' = db /\ meta' = meta BY <2>3 DEF files
    <3>2. Holding(q) BY DEF PipelineInv
    <3> QED BY <2>1, <3>1, <3>2 DEF Holding, Prunes, Pairs
  <2> QED BY <2>2, <2>3
<1> QED BY <1>2, <1>5, <1>6

LEMMA SchedulerKeeps ==
  ASSUME PipelineInv, NEW s \in Schedulers, Moves(s), Grown,
         UNCHANGED <<clock, objects, receipts, rep>>,
         faults' \in 0 .. MaxFaults, LastRunOK',
         HoldsLock(s) \/ UNCHANGED files,
         HoldsLock(s)' => HoldsLock(s) \/ LockFree,
         Holding(s)'
  PROVE  PipelineInv'
<1>1. RunOK' /\ OneHolder' /\ \A q \in Schedulers : Holding(q)' BY OthersKeep
<1>2. StoreOK' /\ RepOK' /\ Replicating' /\ ReceiptsAreTrue' BY SchedulerFrame
<1>3. CountersOK' /\ FilesOK' BY DEF PipelineInv, CountersOK, Grown
<1> QED BY <1>1, <1>2, <1>3 DEF PipelineInv

-----------------------------------------------------------------------------
(* The steps of a scheduler.                                               *)

(* A scheduler that has not the lock, or only just has it, knows nothing.   *)
LEMMA HoldingNothing ==
  ASSUME NEW s \in Schedulers,
         run'[s].phase \notin {"published", "paired", "pruning", "unlinking"}
  PROVE  Holding(s)'
BY DEF Holding, Prunes

(* Steps that touch no file.                                                *)
LEMMA QuietStep ==
  ASSUME PipelineInv, NEW s \in Schedulers, Moves(s), LastRunOK', faults' \in 0 .. MaxFaults,
         UNCHANGED <<clock, files, objects, receipts, rep>>,
         HoldsLock(s)' => HoldsLock(s) \/ LockFree, Holding(s)'
  PROVE  PipelineInv'
<1>1. Grown BY GrownWhenUnchanged DEF PipelineInv, FilesOK, files
<1> QED BY <1>1, SchedulerKeeps

LEMMA LockStep ==
  ASSUME PipelineInv, NEW s \in Schedulers, scheduled_backup_lock(s)
  PROVE  PipelineInv'
<1> DEFINE x == IF LockFree THEN "locked" ELSE "failed"
<1>1. x \in Phases /\ Goes(s, x) BY DEF Phases, scheduled_backup_lock
<1>2. (x = "locked" /\ LockFree) \/ x = "failed" OBVIOUS
<1> HIDE DEF x
<1>3. Moves(s) /\ run'[s].phase = x BY <1>1, GoesMoves DEF PipelineInv
<1>4. Holding(s)' BY <1>2, <1>3, HoldingNothing
<1>5. HoldsLock(s)' => LockFree BY <1>2, <1>3 DEF HoldsLock
<1>6. LastRunOK' /\ faults' \in 0 .. MaxFaults
  BY DEF scheduled_backup_lock, PipelineInv, LastRunOK, CountersOK
<1> QED BY <1>3, <1>4, <1>5, <1>6, QuietStep DEF scheduled_backup_lock

(* A published database is a new backup.                                    *)
LEMMA PublishedFacts ==
  ASSUME PipelineInv, Len(created) < MaxBackups, created' = Append(created, clock),
         db' = db \cup {Len(created')}, meta' = meta
  PROVE  /\ Grown /\ Len(created') = Len(created) + 1
         /\ Len(created') \in DOMAIN created' /\ Len(created') \notin DOMAIN created
         /\ DOMAIN created' = DOMAIN created \cup {Len(created')}
         /\ created'[Len(created')] = clock
         /\ Len(created') \in 0 .. MaxBackups
<1> DEFINE c == Append(created, clock)
           n == Len(created)
<1>1. FilesOK /\ clock \in 0 .. MaxClock BY DEF PipelineInv, CountersOK
<1>2. created \in Seq(0 .. MaxClock) BY <1>1 DEF FilesOK
<1>3. n \in Nat /\ DOMAIN created = 1 .. n /\ MaxBackups \in Nat /\ MaxClock \in Nat BY <1>1, FilesFacts
<1>4. /\ c \in Seq(0 .. MaxClock) /\ Len(c) = n + 1
      /\ \A i \in 1 .. n : c[i] = created[i]
      /\ c[n + 1] = clock
  BY <1>1, <1>2, AppendProperties
<1>5. DOMAIN c = 1 .. Len(c) BY <1>3, <1>4, TimesFacts
<1>6. created' = c OBVIOUS
<1> HIDE DEF c
<1>7. DOMAIN c = 1 .. n + 1 BY <1>4, <1>5
<1>8. n < MaxBackups OBVIOUS
<1> HIDE DEF n
<1>9. n + 1 \in DOMAIN c /\ n + 1 \notin 1 .. n /\ 1 .. n + 1 = (1 .. n) \cup {n + 1} BY <1>3, <1>7
<1>10. db \subseteq 1 .. n /\ meta \subseteq 1 .. n BY <1>1, <1>3 DEF FilesOK
<1>11. FilesOK'
  <2>1. db' \subseteq DOMAIN c /\ meta' \subseteq DOMAIN c BY <1>4, <1>6, <1>7, <1>9, <1>10
  <2>2. Len(c) <= MaxBackups BY <1>3, <1>4, <1>8
  <2> QED BY <1>4, <1>6, <2>1, <2>2 DEF FilesOK
<1>12. Grown BY <1>3, <1>4, <1>6, <1>7, <1>9, <1>11 DEF Grown
<1>13. n + 1 \in 0 .. MaxBackups BY <1>3, <1>8
<1> QED BY <1>3, <1>4, <1>6, <1>7, <1>9, <1>12, <1>13 DEF n

LEMMA PublishDatabaseStep ==
  ASSUME PipelineInv, NEW s \in Schedulers, PublishDatabase(s)
  PROVE  PipelineInv'
<1>1. HoldsLock(s) BY DEF PublishDatabase, HoldsLock
<1>2. LastRunOK' /\ faults' \in 0 .. MaxFaults BY DEF PublishDatabase, PipelineInv, LastRunOK, CountersOK
<1>3. CASE Goes(s, "failed") /\ UNCHANGED <<created, db>>
  <2>1. Moves(s) /\ run'[s].phase = "failed" BY <1>3, GoesMoves DEF PipelineInv, Phases
  <2> QED BY <1>1, <1>2, <1>3, <2>1, QuietStep, HoldingNothing DEF PublishDatabase, files
<1>4. CASE /\ Len(created) < MaxBackups /\ created' = Append(created, clock)
           /\ db' = db \cup {Len(created')} /\ Becomes(s, Run("published", Len(created'), {}, {}))
  <2> DEFINE n == Len(created')
             r == Run("published", n, {}, {})
  <2>1. Grown /\ n \notin DOMAIN created /\ n \in 0 .. MaxBackups BY <1>4, PublishedFacts DEF PublishDatabase
  <2>2. r \in RunType /\ r.phase = "published" /\ r.id = n BY <2>1 DEF Run, RunType, Phases
  <2>3. n \in db' /\ meta' = meta BY <1>4 DEF PublishDatabase
  <2>4. Becomes(s, r) BY <1>4
  <2> HIDE DEF n, r
  <2>5. Moves(s) /\ run'[s].phase = "published" /\ run'[s].id = n BY <2>2, <2>4, BecomesMoves DEF PipelineInv
  <2>6. n \notin meta BY <2>1 DEF PipelineInv, FilesOK
  <2>7. Holding(s)' BY <2>3, <2>5, <2>6 DEF Holding, Prunes
  <2> QED BY <1>1, <1>2, <2>1, <2>5, <2>7, SchedulerKeeps DEF PublishDatabase
<1> QED BY <1>3, <1>4 DEF PublishDatabase

LEMMA PublishMetadataStep ==
  ASSUME PipelineInv, NEW s \in Schedulers, PublishMetadata(s)
  PROVE  PipelineInv'
<1>1. HoldsLock(s) BY DEF PublishMetadata, HoldsLock
<1>2. LastRunOK' /\ faults' \in 0 .. MaxFaults BY DEF PublishMetadata, PipelineInv, LastRunOK, CountersOK
<1>3. Moves(s) /\ run'[s].phase = "paired" /\ run'[s].id = run[s].id
  BY GoesMoves DEF PipelineInv, Phases, PublishMetadata
<1>4. run[s].id \in db BY DEF PipelineInv, Holding, PublishMetadata
<1>5. Grown BY <1>4, GrownWhenUnchanged DEF PipelineInv, FilesOK, PublishMetadata
<1>6. Holding(s)' BY <1>3, <1>4 DEF Holding, Prunes, Pairs, PublishMetadata
<1> QED BY <1>1, <1>2, <1>3, <1>5, <1>6, SchedulerKeeps DEF PublishMetadata

(* The newest pair is kept as a daily one.                                  *)
LEMMA NewestIsKept ==
  ASSUME FilesOK, Pairs # {}
  PROVE  /\ Newest(Pairs) \in Pairs /\ NewerThan(Newest(Pairs)) = {} /\ KeptDaily(Newest(Pairs))
         /\ \A j \in Pairs \ {Newest(Pairs)} : Later(created, Newest(Pairs), j)
<1> DEFINE n == Newest(Pairs)
<1>1. Pairs \subseteq DOMAIN created BY DEF Pairs, FilesOK
<1>2. n \in Pairs /\ \A j \in Pairs \ {n} : Newer(n, j) BY <1>1, NewestFacts
<1> HIDE DEF n
<1>3. \A j \in Pairs \ {n} : Later(created, n, j) BY <1>2, NewestIsFirst
<1>4. \A j \in Pairs : ~Later(created, j, n) BY <1>1, <1>2, <1>3, LaterIsStrict, FilesFacts
<1>5. NewerThan(n) = {} BY <1>4, NewestIsFirst DEF NewerThan
<1>6. KeptDaily(n) BY <1>5, FS_EmptySet, RetentionAssumption DEF KeptDaily
<1> QED BY <1>2, <1>3, <1>5, <1>6 DEF n

LEMMA SelectForPruningStep ==
  ASSUME PipelineInv, NEW s \in Schedulers, SelectForPruning(s)
  PROVE  PipelineInv'
<1>1. HoldsLock(s) BY DEF SelectForPruning, HoldsLock
<1>2. LastRunOK' /\ faults' \in 0 .. MaxFaults BY DEF SelectForPruning, PipelineInv, LastRunOK, CountersOK
<1>3. CASE Goes(s, "failed")
  <2>1. Moves(s) /\ run'[s].phase = "failed" BY <1>3, GoesMoves DEF PipelineInv, Phases
  <2> QED BY <1>1, <1>2, <2>1, QuietStep, HoldingNothing DEF SelectForPruning
<1>4. CASE Becomes(s, Run("pruning", run[s].id, PruneCandidates(run[s].id), {}))
  <2> DEFINE k == run[s].id
             T == PruneCandidates(k)
             r == Run("pruning", k, T, {})
  <2>1. FilesOK /\ k \in Pairs BY DEF PipelineInv, Holding, SelectForPruning
  <2>2. Pairs \subseteq DOMAIN created /\ T \subseteq Pairs \ {k} /\ k \in 0 .. MaxBackups
    <3>1. run[s] \in RunType BY DEF PipelineInv, RunOK
    <3> QED BY <2>1, <3>1 DEF Pairs, FilesOK, PruneCandidates, RunType
  <2>3. T \subseteq Ids BY <2>1, <2>2, FilesFacts
  <2>4. \A i \in T : Later(created, Newest(Pairs), i)
    BY <2>1, NewestIsKept DEF PruneCandidates
  <2>5. Newest(Pairs) \in Pairs BY <2>1, NewestIsKept
  <2>6. created' = created /\ Pairs' = Pairs BY DEF SelectForPruning, files, Pairs
  <2>7. Becomes(s, r) BY <1>4
  <2> HIDE DEF k, T
  <2>8. r \in RunType /\ r.phase = "pruning" /\ r.id = k /\ r.todo = T BY <2>2, <2>3 DEF Run, RunType, Phases
  <2> HIDE DEF r
  <2>9. Moves(s) /\ run'[s].phase = "pruning" /\ run'[s].id = k /\ run'[s].todo = T
    BY <2>7, <2>8, BecomesMoves DEF PipelineInv
  <2>10. T \subseteq (DOMAIN created) \ {k} /\ k \in Pairs BY <2>1, <2>2
  <2>11. Holding(s)' BY <2>4, <2>5, <2>6, <2>9, <2>10 DEF Holding, Prunes
  <2> QED BY <1>1, <1>2, <2>9, <2>11, QuietStep DEF SelectForPruning
<1> QED BY <1>3, <1>4 DEF SelectForPruning

(* The candidate in hand is one of the candidates, and not the backup of    *)
(* the run.                                                                 *)
LEMMA CandidateFacts ==
  ASSUME PipelineInv, NEW s \in Schedulers, Prunes(s), run[s].todo # {}
  PROVE  /\ Newest(run[s].todo) = First(created, run[s].todo)
         /\ Newest(run[s].todo) \in run[s].todo /\ Newest(run[s].todo) \in Ids
         /\ run[s].todo \subseteq (DOMAIN created) \ {run[s].id} /\ run[s].id \in Pairs
         /\ run[s] \in RunType
         /\ \E n \in Pairs \ run[s].todo : \A i \in run[s].todo : Later(created, n, i)
<1>1. FilesOK /\ Holding(s) /\ run[s] \in RunType BY DEF PipelineInv, RunOK
<1>2. /\ run[s].todo \subseteq (DOMAIN created) \ {run[s].id} /\ run[s].id \in Pairs
      /\ \E n \in Pairs : \A i \in run[s].todo : Later(created, n, i)
  BY <1>1 DEF Holding
<1>3. Newest(run[s].todo) = First(created, run[s].todo) BY NewestIsFirst
<1>4. Newest(run[s].todo) \in run[s].todo BY <1>1, <1>2, NewestFacts
<1>5. Newest(run[s].todo) \in Ids BY <1>1, <1>2, <1>4, FilesFacts
<1>6. \A n : Later(created, n, n) => n \notin DOMAIN created BY <1>1, FilesFacts, LaterIsStrict
<1>7. \E n \in Pairs \ run[s].todo : \A i \in run[s].todo : Later(created, n, i) BY <1>2, <1>6
<1> QED BY <1>1, <1>2, <1>3, <1>4, <1>5, <1>7

LEMMA PruneNextStep ==
  ASSUME PipelineInv, NEW s \in Schedulers, PruneNext(s)
  PROVE  PipelineInv'
<1> DEFINE i == Newest(run[s].todo)
           T == run[s].todo
           k == run[s].id
<1>1. Prunes(s) /\ run[s].phase = "pruning" /\ HoldsLock(s) /\ T # {} BY DEF PruneNext, Prunes, HoldsLock
<1>2. LastRunOK' /\ faults' \in 0 .. MaxFaults BY DEF PruneNext, PipelineInv, LastRunOK, CountersOK
<1>3. /\ i = First(created, T) /\ i \in T /\ i \in Ids /\ T \subseteq (DOMAIN created) \ {k}
      /\ k \in Pairs /\ run[s] \in RunType /\ \E n \in Pairs \ T : \A j \in T : Later(created, n, j)
  BY <1>1, CandidateFacts
<1>4. created' = created /\ meta' = meta BY DEF PruneNext
<1>5. CASE db' = db \ {i} /\ Goes(s, "unlinking")
  <2>1. Moves(s) /\ run'[s].phase = "unlinking" /\ run'[s].id = k /\ run'[s].todo = T
    BY <1>5, GoesMoves DEF PipelineInv, Phases
  <2>2. Grown BY <1>4, <1>5, GrownWhenUnchanged DEF PipelineInv, FilesOK
  <2> HIDE DEF i, T, k
  <2>3. Pairs' = Pairs \ {i} /\ i \notin db' BY <1>4, <1>5 DEF Pairs
  <2>4. k \in Pairs' /\ \E n \in Pairs' : \A j \in T : Later(created, n, j) BY <1>3, <2>3
  <2>5. Holding(s)' BY <1>1, <1>3, <1>4, <2>1, <2>3, <2>4 DEF Holding, Prunes
  <2> QED BY <1>1, <1>2, <2>1, <2>2, <2>5, SchedulerKeeps DEF PruneNext
<1>6. CASE Becomes(s, [run[s] EXCEPT !.todo = @ \ {i}, !.held = @ \cup {i}]) /\ UNCHANGED db
  <2> DEFINE r == [run[s] EXCEPT !.todo = @ \ {i}, !.held = @ \cup {i}]
  <2>1. Becomes(s, r) /\ db' = db BY <1>6
  <2> HIDE DEF i
  <2>2. r \in RunType /\ r.phase = "pruning" /\ r.id = k /\ r.todo = T \ {i} BY <1>1, <1>3 DEF RunType
  <2> HIDE DEF r
  <2>3. Moves(s) /\ run'[s].phase = "pruning" /\ run'[s].id = k /\ run'[s].todo = T \ {i}
    BY <2>1, <2>2, BecomesMoves DEF PipelineInv
  <2> HIDE DEF T, k
  <2>4. Pairs' = Pairs BY <1>4, <2>1 DEF Pairs
  <2>5. Holding(s)' BY <1>3, <1>4, <2>3, <2>4 DEF Holding, Prunes
  <2>6. UNCHANGED files BY <1>4, <2>1 DEF files
  <2> QED BY <1>1, <1>2, <2>3, <2>5, <2>6, QuietStep DEF PruneNext
<1> QED BY <1>5, <1>6 DEF PruneNext

LEMMA UnlinkMetadataStep ==
  ASSUME PipelineInv, NEW s \in Schedulers, UnlinkMetadata(s)
  PROVE  PipelineInv'
<1> DEFINE i == Newest(run[s].todo)
           T == run[s].todo
           k == run[s].id
           r == [run[s] EXCEPT !.phase = "pruning", !.todo = @ \ {i}]
<1>1. Prunes(s) /\ run[s].phase = "unlinking" /\ HoldsLock(s) BY DEF UnlinkMetadata, Prunes, HoldsLock
<1>2. LastRunOK' /\ faults' \in 0 .. MaxFaults BY DEF UnlinkMetadata, PipelineInv, LastRunOK, CountersOK
<1>3. T # {} /\ First(created, T) \notin db BY <1>1 DEF PipelineInv, Holding
<1>4. /\ i = First(created, T) /\ i \in T /\ i \in Ids /\ T \subseteq (DOMAIN created) \ {k}
      /\ k \in Pairs /\ run[s] \in RunType /\ \E n \in Pairs \ T : \A j \in T : Later(created, n, j)
  BY <1>1, <1>3, CandidateFacts
<1>5. created' = created /\ db' = db /\ meta' = meta \ {i} /\ Becomes(s, r) BY DEF UnlinkMetadata
<1>6. Grown BY <1>5, GrownWhenUnchanged DEF PipelineInv, FilesOK
<1> HIDE DEF i
<1>7. r \in RunType /\ r.phase = "pruning" /\ r.id = k /\ r.todo = T \ {i} BY <1>4 DEF RunType, Phases
<1> HIDE DEF r
<1>8. Moves(s) /\ run'[s].phase = "pruning" /\ run'[s].id = k /\ run'[s].todo = T \ {i}
  BY <1>5, <1>7, BecomesMoves DEF PipelineInv
<1> HIDE DEF T, k
<1>9. Pairs' = Pairs BY <1>3, <1>4, <1>5 DEF Pairs
<1>10. Holding(s)' BY <1>4, <1>5, <1>8, <1>9 DEF Holding, Prunes
<1> QED BY <1>1, <1>2, <1>6, <1>8, <1>10, SchedulerKeeps DEF UnlinkMetadata

LEMMA EndPruningStep ==
  ASSUME PipelineInv, NEW s \in Schedulers, EndPruning(s)
  PROVE  PipelineInv'
<1>1. HoldsLock(s) BY DEF EndPruning, HoldsLock
<1>2. LastRunOK' /\ faults' \in 0 .. MaxFaults BY DEF EndPruning, PipelineInv, LastRunOK, CountersOK
<1>3. Moves(s) /\ run'[s].phase = "passed" BY GoesMoves DEF PipelineInv, Phases, EndPruning
<1> QED BY <1>1, <1>2, <1>3, HoldingNothing, QuietStep DEF EndPruning

LEMMA QuietIsTyped == Quiet \in RunType /\ Quiet.phase = "idle"
BY LimitsAssumption DEF Quiet, Run, RunType, Phases

LEMMA WriteStateStep ==
  ASSUME PipelineInv, NEW s \in Schedulers, WriteState(s)
  PROVE  PipelineInv'
<1>1. Moves(s) /\ run'[s].phase = "idle" BY BecomesMoves, QuietIsTyped DEF PipelineInv, WriteState
<1>2. faults' \in 0 .. MaxFaults BY DEF WriteState, PipelineInv, CountersOK
<1>3. LastRunOK'
  <2>1. run[s] \in RunType BY DEF PipelineInv, RunOK
  <2>2. run[s].id \in 0 .. MaxBackups BY <2>1 DEF RunType
  <2> QED BY <2>2 DEF LastRunOK, WriteState
<1>4. ~HoldsLock(s)' BY <1>1 DEF HoldsLock
<1> QED BY <1>1, <1>2, <1>3, <1>4, HoldingNothing, QuietStep DEF WriteState

LEMMA StepFailsStep ==
  ASSUME PipelineInv, NEW s \in Schedulers, StepFails(s)
  PROVE  PipelineInv'
<1>1. HoldsLock(s) BY DEF StepFails
<1>2. LastRunOK' BY DEF StepFails, PipelineInv, LastRunOK
<1>3. faults' \in 0 .. MaxFaults
  <2>1. MaxFaults \in Nat /\ faults \in 0 .. MaxFaults BY LimitsAssumption DEF PipelineInv, CountersOK
  <2> QED BY <2>1 DEF StepFails
<1>4. Moves(s) /\ run'[s].phase = "failed"
  <2>1. Run("failed", 0, {}, {}) \in RunType /\ Run("failed", 0, {}, {}).phase = "failed"
    BY LimitsAssumption DEF Run, RunType, Phases
  <2>2. Becomes(s, Run("failed", 0, {}, {})) \/ Goes(s, "failed") BY DEF StepFails
  <2> QED BY <2>1, <2>2, GoesMoves, BecomesMoves DEF PipelineInv, Phases
<1>5. created' = created /\ meta' = meta /\ db' \subseteq db BY DEF StepFails
<1>6. Grown BY <1>5, GrownWhenUnchanged DEF PipelineInv, FilesOK
<1> QED BY <1>1, <1>2, <1>3, <1>4, <1>6, HoldingNothing, SchedulerKeeps DEF StepFails

LEMMA SchedulerDiesStep ==
  ASSUME PipelineInv, NEW s \in Schedulers, SchedulerDies(s)
  PROVE  PipelineInv'
<1>1. Moves(s) /\ run'[s].phase = "idle" BY BecomesMoves, QuietIsTyped DEF PipelineInv, SchedulerDies
<1>2. faults' \in 0 .. MaxFaults
  <2>1. MaxFaults \in Nat /\ faults \in 0 .. MaxFaults BY LimitsAssumption DEF PipelineInv, CountersOK
  <2> QED BY <2>1 DEF SchedulerDies
<1>3. LastRunOK' BY DEF SchedulerDies, PipelineInv, LastRunOK
<1>4. ~HoldsLock(s)' BY <1>1 DEF HoldsLock
<1> QED BY <1>1, <1>2, <1>3, <1>4, HoldingNothing, QuietStep DEF SchedulerDies

-----------------------------------------------------------------------------
(* The steps of the clock and of the replicator.                           *)

LEMMA TickStep ==
  ASSUME PipelineInv, Tick
  PROVE  PipelineInv'
<1>1. created' = created /\ UNCHANGED <<files, run, lastRun>> BY DEF Tick, files
<1>2. FilesOK' /\ LastRunOK' /\ RunOK' /\ OneHolder' /\ \A s \in Schedulers : Holding(s)'
  BY <1>1, ReplicatorFrame
<1>3. CountersOK' BY DEF Tick, PipelineInv, CountersOK
<1>4. StoreOK' /\ RepOK' /\ Replicating' BY <1>1 DEF Tick, PipelineInv, StoreOK, RepOK, Replicating
<1>5. ReceiptsAreTrue' BY DEF Tick, PipelineInv, ReceiptsAreTrue, Replicated
<1> QED BY <1>2, <1>3, <1>4, <1>5 DEF PipelineInv

(* The replicator's steps but for the receipt: objects are only added.      *)
LEMMA StoreStep ==
  ASSUME PipelineInv, UNCHANGED <<clock, files, receipts, lastRun, run>>, faults' \in 0 .. MaxFaults,
         objects \subseteq objects', objects' \subseteq (DOMAIN created) \X {"db", "meta"},
         RepOK', Replicating'
  PROVE  PipelineInv'
<1>1. FilesOK' /\ LastRunOK' /\ RunOK' /\ OneHolder' /\ \A s \in Schedulers : Holding(s)'
  BY ReplicatorFrame
<1>2. CountersOK' BY DEF PipelineInv, CountersOK
<1>3. created' = created BY DEF files
<1>4. StoreOK' BY <1>3 DEF PipelineInv, StoreOK
<1>5. ReceiptsAreTrue' BY DEF PipelineInv, ReceiptsAreTrue, Replicated
<1> QED BY <1>1, <1>2, <1>4, <1>5 DEF PipelineInv

(* The backup in hand is the oldest of those left.                          *)
LEMMA InHandFacts ==
  ASSUME PipelineInv, rep.phase # "idle"
  PROVE  /\ Oldest(rep.todo) = Last(created, rep.todo)
         /\ Oldest(rep.todo) \in rep.todo /\ Oldest(rep.todo) \in DOMAIN created
         /\ rep.todo \subseteq DOMAIN created /\ rep.todo \subseteq Ids
<1>1. FilesOK /\ rep.todo \subseteq DOMAIN created /\ rep.todo # {} BY DEF PipelineInv, Replicating
<1> QED BY <1>1, NewestFacts, NewestIsFirst, FilesFacts

LEMMA IdleReplicator ==
  /\ RepIdle.phase = "idle" /\ RepIdle.todo = {}
  /\ rep' = RepIdle => RepOK' /\ Replicating'
<1>1. RepIdle.phase = "idle" /\ RepIdle.todo = {} BY DEF RepIdle
<1>2. RepIdle \in [phase : {"idle", "db", "meta", "receipt"}, todo : SUBSET Ids] BY DEF RepIdle
<1>3. ASSUME rep' = RepIdle PROVE RepOK' /\ Replicating'
  <2>1. RepOK' BY <1>2, <1>3 DEF RepOK
  <2>2. rep'.phase = "idle" /\ rep'.todo = {} BY <1>1, <1>3
  <2>3. Replicating' BY <2>2 DEF Replicating
  <2> QED BY <2>1, <2>3
<1> QED BY <1>1, <1>3

LEMMA ListBackupsStep ==
  ASSUME PipelineInv, ListBackups
  PROVE  PipelineInv'
<1>1. FilesOK /\ Pairs # {} /\ Pairs \subseteq DOMAIN created BY DEF PipelineInv, ListBackups, FilesOK, Pairs
<1>2. Pairs \subseteq Ids BY <1>1, FilesFacts
<1>3. rep' = [phase |-> "db", todo |-> Pairs] /\ created' = created BY DEF ListBackups, files
<1>4. RepOK' BY <1>2, <1>3 DEF RepOK
<1>5. rep'.phase = "db" /\ rep'.todo = Pairs BY <1>3
<1>6. Replicating' BY <1>1, <1>3, <1>5 DEF Replicating
<1>7. faults' \in 0 .. MaxFaults /\ objects \subseteq (DOMAIN created) \X {"db", "meta"}
  BY DEF ListBackups, PipelineInv, CountersOK, StoreOK
<1> QED BY <1>4, <1>6, <1>7, StoreStep DEF ListBackups

LEMMA PutStep ==
  ASSUME PipelineInv, NEW part, NEW next, Put(part, next),
         (part = "db" /\ next = "meta") \/ (part = "meta" /\ next = "receipt")
  PROVE  PipelineInv'
<1> DEFINE i == Oldest(rep.todo)
<1>1. /\ rep.phase = part /\ objects' = objects \cup {<<i, part>>}
      /\ rep' = [rep EXCEPT !.phase = next]
      /\ UNCHANGED <<clock, faults, files, receipts, lastRun, run>>
  BY DEF Put
<1>3. /\ i = Last(created, rep.todo) /\ i \in rep.todo /\ i \in DOMAIN created
      /\ rep.todo \subseteq DOMAIN created
  BY <1>1, InHandFacts
<1> HIDE DEF i
<1>4. RepOK' /\ rep'.phase = next /\ rep'.todo = rep.todo
  BY <1>1 DEF PipelineInv, RepOK
<1>5. created' = created BY <1>1 DEF files
<1>6. part = "meta" => <<i, "db">> \in objects BY <1>1, <1>3 DEF PipelineInv, Replicating
<1>7. Replicating' BY <1>1, <1>3, <1>4, <1>5, <1>6 DEF Replicating
<1>8. faults' \in 0 .. MaxFaults /\ objects' \subseteq (DOMAIN created) \X {"db", "meta"}
  BY <1>1, <1>3 DEF PipelineInv, CountersOK, StoreOK
<1> QED BY <1>1, <1>4, <1>7, <1>8, StoreStep

LEMMA PutFailsStep ==
  ASSUME PipelineInv, PutFails
  PROVE  PipelineInv'
<1> DEFINE i == Oldest(rep.todo)
<1>1. rep.phase \in {"db", "meta"} /\ objects' \in {objects, objects \cup {<<i, rep.phase>>}}
  BY DEF PutFails
<1>2. i \in DOMAIN created BY <1>1, InHandFacts
<1> HIDE DEF i
<1>3. faults' \in 0 .. MaxFaults /\ objects' \subseteq (DOMAIN created) \X {"db", "meta"}
  BY <1>1, <1>2 DEF PutFails, PipelineInv, CountersOK, StoreOK
<1>4. objects \subseteq objects' BY <1>1
<1>5. RepOK' /\ Replicating' BY IdleReplicator DEF PutFails
<1> QED BY <1>3, <1>4, <1>5, StoreStep DEF PutFails

LEMMA BackupGoneStep ==
  ASSUME PipelineInv, BackupGone
  PROVE  PipelineInv'
<1>1. faults' \in 0 .. MaxFaults /\ objects' \subseteq (DOMAIN created) \X {"db", "meta"}
  BY DEF BackupGone, PipelineInv, CountersOK, StoreOK
<1>2. RepOK' /\ Replicating' BY IdleReplicator DEF BackupGone
<1> QED BY <1>1, <1>2, StoreStep DEF BackupGone

LEMMA ReplicatorDiesStep ==
  ASSUME PipelineInv, ReplicatorDies
  PROVE  PipelineInv'
<1>1. faults' \in 0 .. MaxFaults
  <2>1. MaxFaults \in Nat /\ faults \in 0 .. MaxFaults BY LimitsAssumption DEF PipelineInv, CountersOK
  <2> QED BY <2>1 DEF ReplicatorDies
<1>2. objects' \subseteq (DOMAIN created) \X {"db", "meta"} BY DEF ReplicatorDies, PipelineInv, StoreOK
<1>3. RepOK' /\ Replicating' BY IdleReplicator DEF ReplicatorDies
<1> QED BY <1>1, <1>2, <1>3, StoreStep DEF ReplicatorDies

LEMMA WriteReceiptStep ==
  ASSUME PipelineInv, WriteReceipt
  PROVE  PipelineInv'
<1> DEFINE i == Oldest(rep.todo)
<1>1. /\ rep.phase = "receipt" /\ Receive(i)
      /\ rep' = IF rep.todo = {i} THEN RepIdle ELSE [phase |-> "db", todo |-> rep.todo \ {i}]
      /\ UNCHANGED <<clock, faults, files, objects, lastRun, run>>
  BY DEF WriteReceipt
<1>2. /\ i = Last(created, rep.todo) /\ i \in rep.todo /\ i \in DOMAIN created /\ i \in Ids
      /\ rep.todo \subseteq DOMAIN created /\ rep.todo \subseteq Ids
  BY <1>1, InHandFacts
<1> HIDE DEF i
<1>3. FilesOK' /\ LastRunOK' /\ RunOK' /\ OneHolder' /\ \A s \in Schedulers : Holding(s)'
  BY <1>1, ReplicatorFrame
<1>4. CountersOK' BY <1>1 DEF PipelineInv, CountersOK
<1>5. created' = created /\ objects' = objects BY <1>1 DEF files
<1>6. <<i, "db">> \in objects /\ <<i, "meta">> \in objects BY <1>1, <1>2 DEF PipelineInv, Replicating
<1>7. i \in Replicated BY <1>2, <1>6 DEF Replicated
<1>8. DOMAIN receipts' = DOMAIN receipts \cup {i} BY <1>1 DEF Receive
<1>9. ReceiptsAreTrue' BY <1>5, <1>7, <1>8 DEF PipelineInv, ReceiptsAreTrue, Replicated
<1>10. StoreOK'
  <2>1. \A j \in DOMAIN receipts' : receipts'[j] = IF j = i THEN clock ELSE receipts[j]
    BY <1>1, <1>8 DEF Receive
  <2>2. \A j \in DOMAIN receipts' : receipts'[j] \in 0 .. MaxClock
    BY <1>8, <2>1 DEF PipelineInv, StoreOK, CountersOK
  <2> QED BY <1>2, <1>5, <1>8, <2>2 DEF PipelineInv, StoreOK
<1>11. CASE rep' = RepIdle BY <1>3, <1>4, <1>9, <1>10, <1>11, IdleReplicator DEF PipelineInv
<1>12. CASE rep' = [phase |-> "db", todo |-> rep.todo \ {i}] /\ rep.todo # {i}
  <2>1. RepOK' BY <1>2, <1>12 DEF RepOK
  <2>2. rep'.phase = "db" /\ rep'.todo = rep.todo \ {i} BY <1>12
  <2>3. Replicating' BY <1>2, <1>5, <1>12, <2>2 DEF Replicating
  <2> QED BY <1>3, <1>4, <1>9, <1>10, <2>1, <2>3 DEF PipelineInv
<1> QED BY <1>1, <1>11, <1>12

-----------------------------------------------------------------------------
LEMMA PipelineInit ==
  ASSUME Init
  PROVE  PipelineInv
<1>1. MaxBackups \in Nat /\ MaxClock \in Nat /\ MaxFaults \in Nat BY LimitsAssumption
<1>2. CountersOK /\ LastRunOK BY <1>1 DEF Init, CountersOK, LastRunOK
<1>3. created = <<>> /\ <<>> \in Seq(0 .. MaxClock) /\ Len(<<>>) = 0 BY DEF Init
<1>4. FilesOK BY <1>1, <1>3 DEF Init, FilesOK
<1>5. DOMAIN receipts = {} BY DEF Init
<1>6. StoreOK /\ ReceiptsAreTrue BY <1>5 DEF Init, StoreOK, ReceiptsAreTrue
<1>7. RunOK BY QuietIsTyped DEF Init, RunOK
<1>8. \A s \in Schedulers : run[s].phase = "idle" BY QuietIsTyped DEF Init
<1>9. OneHolder /\ \A s \in Schedulers : Holding(s) BY <1>8 DEF OneHolder, HoldsLock, Holding, Prunes
<1>10. rep = RepIdle BY DEF Init
<1>11. RepOK BY <1>10 DEF RepOK, RepIdle
<1>12. rep.phase = "idle" /\ rep.todo = {} BY <1>10, IdleReplicator
<1>13. Replicating BY <1>12 DEF Replicating
<1> QED BY <1>2, <1>4, <1>6, <1>7, <1>9, <1>11, <1>13 DEF PipelineInv

LEMMA PipelineNext ==
  ASSUME PipelineInv, [Next]_vars
  PROVE  PipelineInv'
<1>1. ASSUME NEW s \in Schedulers, SchedulerStep(s) PROVE PipelineInv'
  BY <1>1, LockStep, PublishDatabaseStep, PublishMetadataStep, SelectForPruningStep, PruneNextStep,
     UnlinkMetadataStep, EndPruningStep, WriteStateStep DEF SchedulerStep
<1>2. ASSUME NEW s \in Schedulers, StepFails(s) \/ SchedulerDies(s) PROVE PipelineInv'
  BY <1>2, StepFailsStep, SchedulerDiesStep
<1>3. ASSUME UNCHANGED vars PROVE PipelineInv'
  <2>1. /\ created' = created /\ UNCHANGED <<clock, faults, files, objects, receipts, lastRun, run, rep>>
    BY <1>3 DEF vars, files
  <2>2. RepOK' /\ Replicating' BY <2>1 DEF PipelineInv, RepOK, Replicating
  <2>3. faults' \in 0 .. MaxFaults /\ objects' \subseteq (DOMAIN created) \X {"db", "meta"}
    BY <2>1 DEF PipelineInv, CountersOK, StoreOK
  <2> QED BY <2>1, <2>2, <2>3, StoreStep
<1>4. ASSUME PutDatabase \/ PutMetadata PROVE PipelineInv'
  <2>1. CASE PutDatabase BY <2>1, PutStep DEF PutDatabase
  <2>2. CASE PutMetadata BY <2>2, PutStep DEF PutMetadata
  <2> QED BY <1>4, <2>1, <2>2
<1> QED BY <1>1, <1>2, <1>3, <1>4, TickStep, ListBackupsStep, PutFailsStep, BackupGoneStep,
           WriteReceiptStep, ReplicatorDiesStep DEF Next

THEOREM PipelineInvariant == Spec => []PipelineInv
<1>1. Init => PipelineInv BY PipelineInit
<1>2. PipelineInv /\ [Next]_vars => PipelineInv' BY PipelineNext
<1> QED BY <1>1, <1>2, PTL DEF Spec

-----------------------------------------------------------------------------
(* What the invariant gives.                                               *)

(* Every variable keeps its type.                                          *)
THEOREM PipelineTypeCorrect == Spec => []TypeOK
<1>1. PipelineInv => TypeOK
  BY DEF PipelineInv, TypeOK, CountersOK, FilesOK, StoreOK, LastRunOK, RunOK, RepOK, RunType, Phases
<1> QED BY <1>1, PipelineInvariant, PTL

(* A receipt, also one written again, means that both objects of its        *)
(* backup are in the store, whatever failed before it was written.          *)
THEOREM ReceiptsStayTrue == Spec => []ReceiptsAreTrue
<1>1. PipelineInv => ReceiptsAreTrue BY DEF PipelineInv
<1> QED BY <1>1, PipelineInvariant, PTL

(* A whole pair ceases to be one by one step only.  In particular, a        *)
(* publication that is taken back, and the removal of a sidecar, concern    *)
(* backups that are no pair.                                                *)
LEMMA PairsShrink ==
  ASSUME PipelineInv, [Next]_vars, NEW i \in Pairs, i \notin Pairs'
  PROVE  \E s \in Schedulers : /\ PruneNext(s) /\ i = Newest(run[s].todo)
                               /\ ReceiptVerified(i) /\ created' = created /\ objects' = objects
<1>1. i \in db /\ i \in meta /\ (i \notin db' \/ i \notin meta') BY DEF Pairs
<1>2. ~(db \subseteq db' /\ meta \subseteq meta') BY <1>1
<1>3. ~(UNCHANGED files) BY <1>1 DEF files
<1>4. ASSUME NEW s \in Schedulers, UnlinkMetadata(s) PROVE FALSE
  <2>1. Prunes(s) /\ run[s].phase = "unlinking" BY <1>4 DEF UnlinkMetadata, Prunes
  <2>2. First(created, run[s].todo) \notin db BY <2>1 DEF PipelineInv, Holding
  <2>3. Newest(run[s].todo) \notin db BY <2>2, NewestIsFirst
  <2> QED BY <1>1, <1>4, <2>3 DEF UnlinkMetadata
<1>5. ASSUME NEW s \in Schedulers, StepFails(s) PROVE FALSE
  <2>1. run[s].phase = "published" /\ i = run[s].id BY <1>1, <1>5 DEF StepFails
  <2>2. i \notin meta BY <2>1 DEF PipelineInv, Holding
  <2> QED BY <1>1, <2>2
<1>6. ASSUME NEW s \in Schedulers, PublishDatabase(s) \/ PublishMetadata(s) PROVE FALSE
  BY <1>2, <1>6 DEF PublishDatabase, PublishMetadata
<1>7. ASSUME NEW s \in Schedulers,
             scheduled_backup_lock(s) \/ SelectForPruning(s) \/ EndPruning(s) \/ WriteState(s) \/ SchedulerDies(s)
      PROVE FALSE
  BY <1>3, <1>7 DEF scheduled_backup_lock, SelectForPruning, EndPruning, WriteState, SchedulerDies
<1>8. ASSUME NEW s \in Schedulers, PruneNext(s)
      PROVE /\ i = Newest(run[s].todo) /\ ReceiptVerified(i) /\ created' = created /\ objects' = objects
  BY <1>1, <1>8 DEF PruneNext
<1>9. ASSUME \/ Tick \/ ListBackups \/ PutFails \/ BackupGone \/ WriteReceipt \/ ReplicatorDies \/ UNCHANGED vars
      PROVE FALSE
  BY <1>3, <1>9 DEF Tick, ListBackups, PutFails, BackupGone, WriteReceipt, ReplicatorDies, vars
<1>10. ASSUME PutDatabase \/ PutMetadata PROVE FALSE
  BY <1>3, <1>10 DEF PutDatabase, PutMetadata, Put
<1>11. PICK s \in Schedulers : SchedulerStep(s) \/ StepFails(s) \/ SchedulerDies(s)
  BY <1>9, <1>10 DEF Next
<1> QED BY <1>4, <1>5, <1>6, <1>7, <1>8, <1>11 DEF SchedulerStep

(* Only pruning takes a backup away, crashes and overlapping runs included, *)
(* and only one whose two objects are in the store.                         *)
THEOREM PruningIsSafe == Spec => OnlyReplicatedIsPruned
<1>1. PipelineInv /\ [Next]_vars => [Pairs \ Pairs' \subseteq Replicated']_vars
  <2> SUFFICES ASSUME PipelineInv, [Next]_vars, NEW i \in Pairs, i \notin Pairs'
               PROVE  i \in Replicated'
    OBVIOUS
  <2>1. i \in DOMAIN receipts /\ objects' = objects BY PairsShrink DEF ReceiptVerified
  <2>2. i \in Replicated BY <2>1 DEF PipelineInv, ReceiptsAreTrue
  <2> QED BY <2>1, <2>2 DEF Replicated
<1> QED BY <1>1, PipelineInvariant, PTL DEF Spec, OnlyReplicatedIsPruned

(* The newest pair is never the candidate of a run, not even when another   *)
(* run made it, so pruning always leaves it.                                *)
THEOREM NewestIsNeverPruned == Spec => NewestSurvives
<1>1. PipelineInv /\ [Next]_vars => [Pairs # {} => Newest(Pairs) \in Pairs']_vars
  <2> DEFINE n == Newest(Pairs)
  <2> SUFFICES ASSUME PipelineInv, [Next]_vars, Pairs # {}, n \notin Pairs'
               PROVE  FALSE
    OBVIOUS
  <2>1. FilesOK /\ Pairs \subseteq DOMAIN created BY DEF PipelineInv, FilesOK, Pairs
  <2>2. n \in Pairs /\ \A j \in Pairs \ {n} : Later(created, n, j) BY <2>1, NewestIsKept
  <2> HIDE DEF n
  <2>3. PICK s \in Schedulers : PruneNext(s) /\ n = Newest(run[s].todo) BY <2>2, PairsShrink
  <2>4. Prunes(s) /\ run[s].todo # {} BY <2>3 DEF PruneNext, Prunes
  <2>5. n \in run[s].todo /\ \E m \in Pairs \ run[s].todo : Later(created, m, n)
    BY <2>3, <2>4, CandidateFacts
  <2> QED BY <2>1, <2>2, <2>5, LaterIsStrict, FilesFacts
<1> QED BY <1>1, PipelineInvariant, PTL DEF Spec, NewestSurvives

-----------------------------------------------------------------------------
(* Half pairs.                                                             *)

(* A step is a scheduler's, which changes no other scheduler and no file    *)
(* without the lock, or changes neither schedulers nor files.               *)
LEMMA StepCases ==
  ASSUME PipelineInv, [Next]_vars
  PROVE  \/ UNCHANGED <<files, run, lastRun>> /\ faults' >= faults
         \/ \E s \in Schedulers :
              /\ Moves(s) /\ (HoldsLock(s) \/ UNCHANGED files) /\ faults' >= faults
              /\ SchedulerStep(s) \/ ((StepFails(s) \/ SchedulerDies(s)) /\ faults' = faults + 1)
<1>0. faults \in Nat /\ RunOK /\ \A s \in Schedulers : run[s] \in RunType
  BY LimitsAssumption DEF PipelineInv, CountersOK, RunOK
<1>1. ASSUME \/ Tick \/ ListBackups \/ PutFails \/ BackupGone \/ WriteReceipt \/ ReplicatorDies \/ UNCHANGED vars
      PROVE UNCHANGED <<files, run, lastRun>> /\ faults' >= faults
  BY <1>0, <1>1 DEF Tick, ListBackups, PutFails, BackupGone, WriteReceipt, ReplicatorDies, vars
<1>2. ASSUME PutDatabase \/ PutMetadata PROVE UNCHANGED <<files, run, lastRun>> /\ faults' >= faults
  BY <1>0, <1>2 DEF PutDatabase, PutMetadata, Put
<1>3. ASSUME NEW s \in Schedulers, SchedulerStep(s) \/ StepFails(s) \/ SchedulerDies(s) PROVE Moves(s)
  <2>1. \/ \E x \in Phases : Goes(s, x)
        \/ \E r : Becomes(s, r)
    BY <1>3 DEF SchedulerStep, scheduled_backup_lock, PublishDatabase, PublishMetadata, SelectForPruning,
                PruneNext, UnlinkMetadata, EndPruning, WriteState, StepFails, SchedulerDies, Phases
  <2>2. run'[s] \in RunType
    <3>1. PipelineInv'  BY PipelineNext
    <3> QED BY <3>1 DEF PipelineInv, RunOK
  <2>3. ASSUME NEW r, Becomes(s, r) PROVE run' = [run EXCEPT ![s] = run'[s]]
    <3>1. run'[s] = r BY <1>0, <2>3 DEF Becomes, RunOK
    <3> QED BY <2>3, <3>1 DEF Becomes
  <2> QED BY <1>0, <2>1, <2>2, <2>3, GoesMoves DEF Moves
<1>4. ASSUME NEW s \in Schedulers, SchedulerStep(s) PROVE (HoldsLock(s) \/ UNCHANGED files) /\ faults' = faults
  BY <1>4 DEF SchedulerStep, scheduled_backup_lock, PublishDatabase, PublishMetadata, SelectForPruning,
              PruneNext, UnlinkMetadata, EndPruning, WriteState, HoldsLock
<1>5. ASSUME NEW s \in Schedulers, StepFails(s) \/ SchedulerDies(s)
      PROVE (HoldsLock(s) \/ UNCHANGED files) /\ faults' = faults + 1
  BY <1>5 DEF StepFails, SchedulerDies
<1>6. CASE \E s \in Schedulers : SchedulerStep(s) \/ StepFails(s) \/ SchedulerDies(s)
  <2>1. PICK s \in Schedulers : SchedulerStep(s) \/ StepFails(s) \/ SchedulerDies(s) BY <1>6
  <2>2. Moves(s) BY <1>3, <2>1
  <2>3. CASE SchedulerStep(s) BY <1>0, <1>4, <2>2, <2>3
  <2>4. CASE StepFails(s) \/ SchedulerDies(s) BY <1>0, <1>5, <2>2, <2>4
  <2> QED BY <2>1, <2>3, <2>4
<1> QED BY <1>1, <1>2, <1>6 DEF Next

(* Without a fault every half pair is one a scheduler is just making, or    *)
(* just removing.                                                           *)
InWork(i, s) ==
  \/ run[s].phase = "published" /\ i = run[s].id
  \/ run[s].phase = "unlinking" /\ i = First(created, run[s].todo)
HalvesInWork == faults = 0 => \A i \in Lone : \E s \in Schedulers : InWork(i, s)

LEMMA HalvesInWorkNext ==
  ASSUME PipelineInv, HalvesInWork, [Next]_vars
  PROVE  HalvesInWork'
<1> SUFFICES ASSUME faults' = 0, NEW i \in Lone'
             PROVE  \E s \in Schedulers : InWork(i, s)'
  BY DEF HalvesInWork
<1>0. faults \in Nat BY LimitsAssumption DEF PipelineInv, CountersOK
<1>1. CASE UNCHANGED <<files, run>> /\ faults' >= faults
  <2>1. faults = 0 BY <1>0, <1>1
  <2>2. created' = created /\ Lone' = Lone /\ run' = run BY <1>1 DEF files, Lone, Pairs
  <2> QED BY <2>1, <2>2 DEF HalvesInWork, InWork
<1>2. ASSUME NEW s \in Schedulers, Moves(s), HoldsLock(s) \/ UNCHANGED files, faults' >= faults,
             SchedulerStep(s)
      PROVE  \E q \in Schedulers : InWork(i, q)'
  <2>0. faults = 0 BY <1>0, <1>2
  <2>1. RunOK /\ OneHolder BY DEF PipelineInv
  <2>2. \A q \in Schedulers \ {s} : run'[q] = run[q] BY <1>2, <2>1 DEF Moves, RunOK
  <2>3. ASSUME i \in Lone, ~InWork(i, s) PROVE \E q \in Schedulers : InWork(i, q)'
    <3>1. PICK q \in Schedulers : InWork(i, q) BY <2>0, <2>3 DEF HalvesInWork
    <3>2. q # s /\ run'[q] = run[q] /\ HoldsLock(q) BY <2>2, <2>3, <3>1 DEF InWork, HoldsLock
    <3>3. ~HoldsLock(s) BY <2>1, <3>2 DEF OneHolder
    <3>4. created' = created BY <1>2, <3>3 DEF files
    <3> QED BY <3>1, <3>2, <3>4 DEF InWork
  <2>4. CASE /\ UNCHANGED files /\ run[s].phase \notin {"published", "unlinking"}
    BY <2>3, <2>4 DEF Lone, Pairs, files, InWork
  <2>5. CASE PublishDatabase(s) /\ ~UNCHANGED files
    <3>1. /\ Len(created) < MaxBackups /\ created' = Append(created, clock) /\ meta' = meta
          /\ db' = db \cup {Len(created')} /\ Becomes(s, Run("published", Len(created'), {}, {}))
          /\ run[s].phase = "locked"
      BY <2>5 DEF PublishDatabase, files
    <3> DEFINE n == Len(created')
               r == Run("published", n, {}, {})
    <3>2. Becomes(s, r) /\ r.phase = "published" /\ r.id = n /\ n \in 0 .. MaxBackups
      BY <3>1, PublishedFacts DEF Run
    <3>3. r \in RunType BY <3>2 DEF Run, RunType, Phases
    <3>4. i = n \/ i \in Lone BY <3>1 DEF Lone, Pairs
    <3> HIDE DEF n, r
    <3>5. run'[s] = r BY <2>1, <3>2, <3>3, BecomesMoves
    <3> QED BY <2>3, <3>1, <3>2, <3>4, <3>5 DEF InWork
  <2>6. CASE PublishMetadata(s)
    <3>1. run[s].phase = "published" /\ meta' = meta \cup {run[s].id} /\ db' = db
      BY <2>6 DEF PublishMetadata
    <3>2. run[s].id \in db BY <3>1 DEF PipelineInv, Holding
    <3>3. i \in Lone /\ i # run[s].id BY <3>1, <3>2 DEF Lone, Pairs
    <3> QED BY <2>3, <3>1, <3>3 DEF InWork
  <2>7. CASE PruneNext(s) /\ ~UNCHANGED files
    <3>1. run[s].phase = "pruning" /\ created' = created /\ meta' = meta
          /\ db' = db \ {Newest(run[s].todo)} /\ Goes(s, "unlinking")
      BY <2>7 DEF PruneNext, files
    <3>2. run'[s].phase = "unlinking" /\ run'[s].todo = run[s].todo BY <2>1, <3>1, GoesMoves DEF Phases
    <3>3. i \in Lone \/ i = First(created, run[s].todo) BY <3>1, NewestIsFirst DEF Lone, Pairs
    <3> QED BY <2>3, <3>1, <3>2, <3>3 DEF InWork
  <2>8. CASE UnlinkMetadata(s)
    <3>1. run[s].phase = "unlinking" /\ db' = db /\ meta' = meta \ {First(created, run[s].todo)}
      BY <2>8, NewestIsFirst DEF UnlinkMetadata
    <3>2. First(created, run[s].todo) \notin db BY <3>1 DEF PipelineInv, Holding
    <3>3. i \in Lone /\ i # First(created, run[s].todo) BY <3>1, <3>2 DEF Lone, Pairs
    <3> QED BY <2>3, <3>1, <3>3 DEF InWork
  <2> QED
    <3>1. CASE scheduled_backup_lock(s) \/ SelectForPruning(s) \/ EndPruning(s) \/ WriteState(s)
      BY <2>4, <3>1 DEF scheduled_backup_lock, SelectForPruning, EndPruning, WriteState
    <3>2. CASE PublishDatabase(s) BY <2>4, <2>5, <3>2 DEF PublishDatabase
    <3>3. CASE PruneNext(s) BY <2>4, <2>7, <3>3 DEF PruneNext
    <3> QED BY <1>2, <2>6, <2>8, <3>1, <3>2, <3>3 DEF SchedulerStep
<1>3. ASSUME faults' = faults + 1 PROVE FALSE BY <1>0, <1>3
<1> QED BY <1>1, <1>2, <1>3, StepCases

(* No half pair lies in a directory nobody works in, unless something       *)
(* crashed or failed.                                                       *)
THEOREM HalvesComeFromFaults == Spec => []HalvesNeedAFault
<1>1. Init => HalvesInWork BY DEF Init, HalvesInWork, Lone
<1>2. PipelineInv /\ HalvesInWork /\ [Next]_vars => HalvesInWork' BY HalvesInWorkNext
<1>3. HalvesInWork => HalvesNeedAFault
  BY DEF HalvesInWork, HalvesNeedAFault, InWork, LockFree, HoldsLock
<1> QED BY <1>1, <1>2, <1>3, PipelineInvariant, PTL DEF Spec

-----------------------------------------------------------------------------
(* Retention.                                                              *)

(* What is told apart by numbers below n is no more than n.                 *)
LEMMA CountBound ==
  ASSUME NEW S, NEW n \in Nat, NEW f \in [S -> 0 .. n - 1],
         \A x, y \in S : f[x] = f[y] => x = y
  PROVE  IsFiniteSet(S) /\ Cardinality(S) <= n
<1>1. IsFiniteSet(0 .. n - 1) /\ Cardinality(0 .. n - 1) = n
  <2>1. 0 \in Int /\ n - 1 \in Int OBVIOUS
  <2>2. IsFiniteSet(0 .. n - 1) /\ Cardinality(0 .. n - 1) = IF 0 > n - 1 THEN 0 ELSE n - 1 - 0 + 1
    BY <2>1, FS_Interval
  <2> QED BY <2>2
<1>2. f \in Injection(S, 0 .. n - 1) BY Zenon DEF Injection, IsInjective
<1> QED BY <1>1, <1>2, FS_Injection

LEMMA SmallerCount ==
  ASSUME NEW S, NEW T, S \subseteq T, IsFiniteSet(T), NEW x \in T, x \notin S
  PROVE  Cardinality(S) < Cardinality(T) /\ Cardinality(S) \in Nat
<1>1. S \in SUBSET T OBVIOUS
<1>2. IsFiniteSet(S) /\ Cardinality(S) <= Cardinality(T) /\ (Cardinality(T) = Cardinality(S) => T = S)
  BY <1>1, FS_Subset
<1>3. Cardinality(S) \in Nat /\ Cardinality(T) \in Nat BY <1>2, FS_CardinalityType
<1> QED BY <1>2, <1>3

WeeksBefore(i) == {WeekOf(j) : j \in NewerThan(i)}

LEMMA NewerFinite ==
  ASSUME FilesOK, NEW i
  PROVE  IsFiniteSet(WeeksBefore(i)) /\ IsFiniteSet(NewerThan(i))
<1>1. Pairs \subseteq DOMAIN created /\ DOMAIN created = 1 .. Len(created) /\ Len(created) \in Nat
  BY FilesFacts DEF FilesOK, Pairs
<1>2. IsFiniteSet(DOMAIN created) BY <1>1, FS_Interval
<1>3. NewerThan(i) \in SUBSET DOMAIN created BY <1>1 DEF NewerThan
<1>4. IsFiniteSet(NewerThan(i)) BY <1>2, <1>3, FS_Subset
<1> DEFINE f == [j \in NewerThan(i) |-> WeekOf(j)]
<1>5. f \in Surjection(NewerThan(i), WeeksBefore(i)) BY DEF Surjection, WeeksBefore
<1>6. IsFiniteSet(WeeksBefore(i)) BY <1>4, <1>5, FS_Surjection
<1> QED BY <1>4, <1>6

(* The newer of two pairs has fewer newer ones.                             *)
LEMMA NewerThanGrows ==
  ASSUME FilesOK, NEW i \in Pairs, NEW j \in Pairs, i # j
  PROVE  \/ i \in NewerThan(j) /\ i \notin NewerThan(i) /\ NewerThan(i) \subseteq NewerThan(j)
         \/ j \in NewerThan(i) /\ j \notin NewerThan(j) /\ NewerThan(j) \subseteq NewerThan(i)
<1>1. /\ created \in Seq(Nat) /\ Pairs \subseteq DOMAIN created /\ DOMAIN created = 1 .. Len(created)
      /\ Len(created) \in Nat /\ \A k \in DOMAIN created : created[k] \in Nat
  BY FilesFacts DEF FilesOK, Pairs
<1>2. \A k \in Pairs : k \in Nat /\ created[k] \in Nat BY <1>1
<1>3. \A k : NewerThan(k) = {m \in Pairs : Later(created, m, k)} BY NewestIsFirst DEF NewerThan
<1>4. Later(created, i, j) \/ Later(created, j, i) BY <1>2 DEF Later
<1>5. \A k \in Pairs : ~Later(created, k, k) BY <1>2 DEF Later
<1>6. \A k, l, m \in Pairs : Later(created, k, l) /\ Later(created, l, m) => Later(created, k, m)
  BY <1>2 DEF Later
<1> QED BY <1>3, <1>4, <1>5, <1>6

LEMMA DailyBound ==
  ASSUME FilesOK
  PROVE  LET S == {i \in Pairs : KeptDaily(i)} IN IsFiniteSet(S) /\ Cardinality(S) <= Daily
<1> DEFINE S == {i \in Pairs : KeptDaily(i)}
           f == [i \in S |-> Cardinality(NewerThan(i))]
<1>1. Daily \in Nat BY RetentionAssumption
<1>2. ASSUME NEW i \in S, NEW j \in S, i \in NewerThan(j), i \notin NewerThan(i),
             NewerThan(i) \subseteq NewerThan(j)
      PROVE  Cardinality(NewerThan(i)) # Cardinality(NewerThan(j))
  <2>1. Cardinality(NewerThan(i)) < Cardinality(NewerThan(j)) BY <1>2, NewerFinite, SmallerCount
  <2>2. Cardinality(NewerThan(i)) \in Nat /\ Cardinality(NewerThan(j)) \in Nat
    BY NewerFinite, FS_CardinalityType
  <2> QED BY <2>1, <2>2
<1>3. ASSUME NEW i \in S PROVE Cardinality(NewerThan(i)) \in 0 .. Daily - 1
  <2>1. Cardinality(NewerThan(i)) \in Nat BY NewerFinite, FS_CardinalityType
  <2>2. Cardinality(NewerThan(i)) < Daily BY DEF KeptDaily
  <2> QED BY <1>1, <2>1, <2>2
<1>4. f \in [S -> 0 .. Daily - 1] BY <1>3
<1>5. ASSUME NEW x \in S, NEW y \in S, f[x] = f[y] PROVE x = y
  BY <1>2, <1>5, NewerThanGrows
<1> HIDE DEF f, S
<1>6. IsFiniteSet(S) /\ Cardinality(S) <= Daily BY <1>1, <1>4, <1>5, CountBound
<1> QED BY <1>6 DEF S

LEMMA WeeklyBound ==
  ASSUME FilesOK
  PROVE  LET S == {i \in Pairs : KeptWeekly(i)} IN IsFiniteSet(S) /\ Cardinality(S) <= Weekly
<1> DEFINE S == {i \in Pairs : KeptWeekly(i)}
           f == [i \in S |-> Cardinality(WeeksBefore(i))]
<1>1. Weekly \in Nat BY RetentionAssumption
<1>2. ASSUME NEW i \in S, NEW j \in S, i \in NewerThan(j), NewerThan(i) \subseteq NewerThan(j)
      PROVE  Cardinality(WeeksBefore(i)) # Cardinality(WeeksBefore(j))
  <2>1. WeeksBefore(i) \subseteq WeeksBefore(j) /\ WeekOf(i) \in WeeksBefore(j) BY <1>2 DEF WeeksBefore
  <2>2. WeekOf(i) \notin WeeksBefore(i) BY DEF KeptWeekly, WeeksBefore
  <2>3. IsFiniteSet(WeeksBefore(i)) /\ IsFiniteSet(WeeksBefore(j)) BY NewerFinite
  <2>4. Cardinality(WeeksBefore(i)) < Cardinality(WeeksBefore(j)) BY <2>1, <2>2, <2>3, SmallerCount
  <2>5. Cardinality(WeeksBefore(i)) \in Nat /\ Cardinality(WeeksBefore(j)) \in Nat
    BY <2>3, FS_CardinalityType
  <2> QED BY <2>4, <2>5
<1>3. ASSUME NEW i \in S PROVE Cardinality(WeeksBefore(i)) \in 0 .. Weekly - 1
  <2>1. Cardinality(WeeksBefore(i)) \in Nat BY NewerFinite, FS_CardinalityType
  <2>2. Cardinality(WeeksBefore(i)) < Weekly BY DEF KeptWeekly, WeeksBefore
  <2> QED BY <1>1, <2>1, <2>2
<1>4. f \in [S -> 0 .. Weekly - 1] BY <1>3
<1>5. ASSUME NEW x \in S, NEW y \in S, f[x] = f[y] PROVE x = y
  BY <1>2, <1>5, NewerThanGrows
<1> HIDE DEF f, S
<1>6. IsFiniteSet(S) /\ Cardinality(S) <= Weekly BY <1>1, <1>4, <1>5, CountBound
<1> QED BY <1>6 DEF S

(* What a run leaves: its own backup, the daily and the weekly ones.  If    *)
(* its own is the newest, it is both daily and weekly.                      *)
KeepBound == Daily + (IF Weekly = 0 THEN 0 ELSE Weekly - 1)

LEMMA KeptIsBounded ==
  ASSUME FilesOK, NEW k \in Pairs, \A j \in Pairs \ {k} : Later(created, k, j)
  PROVE  LET K == Pairs \ PruneCandidates(k) IN IsFiniteSet(K) /\ Cardinality(K) <= KeepBound
<1> DEFINE K == Pairs \ PruneCandidates(k)
           D == {i \in Pairs : KeptDaily(i)}
           W == {i \in Pairs : KeptWeekly(i)}
<1>0. Daily \in Nat /\ Weekly \in Nat BY RetentionAssumption
<1>1. IsFiniteSet(D) /\ Cardinality(D) <= Daily BY DailyBound
<1>2. IsFiniteSet(W) /\ Cardinality(W) <= Weekly BY WeeklyBound
<1>3. Pairs # {} /\ Pairs \subseteq DOMAIN created BY DEF FilesOK, Pairs
<1>4. k = Newest(Pairs)
  <2>1. \A i \in Pairs : created[i] <= MaxClock BY <1>3, FilesFacts
  <2> QED BY <1>3, <2>1, FirstIsOnly, FilesFacts, NewestIsFirst
<1>5. NewerThan(k) = {} /\ KeptDaily(k) BY <1>3, <1>4, NewestIsKept
<1>6. K = D \cup W BY <1>5 DEF PruneCandidates
<1>7. k \in D BY <1>5
<1>8. Weekly > 0 => k \in W
  <2>1. WeeksBefore(k) = {} BY <1>5 DEF WeeksBefore
  <2>2. Cardinality(WeeksBefore(k)) = 0 BY <2>1, FS_EmptySet
  <2> QED BY <1>5, <2>2 DEF KeptWeekly, WeeksBefore
<1> HIDE DEF K, D, W
<1>9. /\ IsFiniteSet(D \cup W)
      /\ Cardinality(D \cup W) = Cardinality(D) + Cardinality(W) - Cardinality(D \cap W)
  BY <1>1, <1>2, FS_Union
<1>10. IsFiniteSet(D \cap W) BY <1>1, <1>2, FS_Intersection
<1>11. Cardinality(D) \in Nat /\ Cardinality(W) \in Nat /\ Cardinality(D \cap W) \in Nat
  BY <1>1, <1>2, <1>10, FS_CardinalityType
<1>12. Weekly > 0 => Cardinality(D \cap W) # 0
  <2>1. Weekly > 0 => D \cap W # {} BY <1>7, <1>8
  <2> QED BY <1>10, <2>1, FS_EmptySet
<1>13. Cardinality(D \cup W) <= KeepBound BY <1>0, <1>1, <1>2, <1>9, <1>11, <1>12 DEF KeepBound
<1> QED BY <1>6, <1>9, <1>13 DEF K

(* While a run prunes, what is neither a candidate any more nor held back   *)
(* stays what it was when the run began.                                    *)
Left(s) == Pairs \ (run[s].todo \cup run[s].held)
LeavesEnough(s) ==
  Prunes(s) /\ (\A j \in Left(s) \ {run[s].id} : Later(created, run[s].id, j)) =>
    Cardinality(Left(s)) <= KeepBound

LEMMA LeavesEnoughNext ==
  ASSUME PipelineInv, \A s \in Schedulers : LeavesEnough(s), [Next]_vars, NEW q \in Schedulers
  PROVE  LeavesEnough(q)'
<1>1. ASSUME UNCHANGED files, run'[q] = run[q] PROVE LeavesEnough(q)'
  BY <1>1 DEF LeavesEnough, Left, Prunes, Pairs, files
<1>2. CASE UNCHANGED <<files, run>> BY <1>1, <1>2
<1>3. ASSUME NEW s \in Schedulers, Moves(s), HoldsLock(s) \/ UNCHANGED files, s # q
      PROVE  LeavesEnough(q)'
  <2>1. run'[q] = run[q] BY <1>3 DEF Moves, PipelineInv, RunOK
  <2>2. CASE HoldsLock(s)
    <3>1. ~HoldsLock(q) BY <1>3, <2>2 DEF PipelineInv, OneHolder
    <3> QED BY <2>1, <3>1 DEF LeavesEnough, Prunes, HoldsLock
  <2> QED BY <1>1, <1>3, <2>1, <2>2
<1>4. ASSUME ~Prunes(q)' PROVE LeavesEnough(q)' BY <1>4 DEF LeavesEnough
<1>5. ASSUME Left(q)' = Left(q), created' = created, run'[q].id = run[q].id, Prunes(q)
      PROVE  LeavesEnough(q)'
  BY <1>5 DEF LeavesEnough
<1>6. ASSUME SelectForPruning(q) PROVE LeavesEnough(q)'
  <2> DEFINE k == run[q].id
             T == PruneCandidates(k)
             r == Run("pruning", k, T, {})
  <2>1. FilesOK /\ RunOK /\ k \in Pairs BY <1>6 DEF PipelineInv, Holding, SelectForPruning
  <2>2. CASE Goes(q, "failed") BY <1>4, <2>1, <2>2, GoesMoves DEF Prunes, Phases
  <2>3. CASE Becomes(q, r)
    <3>1. run'[q] = r BY <2>1, <2>3 DEF Becomes, RunOK
    <3>2. r.id = k /\ r.todo = T /\ r.held = {} BY DEF Run
    <3>3. created' = created /\ Pairs' = Pairs BY <1>6 DEF SelectForPruning, files, Pairs
    <3>4. Left(q)' = Pairs \ T BY <3>1, <3>2, <3>3 DEF Left
    <3>5. run'[q].id = k BY <3>1, <3>2
    <3>6. Pairs # {} /\ Newest(Pairs) \in Pairs \ T BY <2>1, NewestIsKept DEF PruneCandidates
    <3>7. \A j \in Pairs \ {Newest(Pairs)} : Later(created, Newest(Pairs), j) BY <2>1, <3>6, NewestIsKept
    <3> HIDE DEF T, k
    <3>8. ASSUME \A j \in (Pairs \ T) \ {k} : Later(created, k, j) PROVE k = Newest(Pairs)
      <4>1. Pairs \subseteq DOMAIN created BY <2>1 DEF FilesOK, Pairs
      <4> QED BY <2>1, <3>6, <3>7, <3>8, <4>1, LaterIsStrict, FilesFacts
    <3>9. ASSUME \A j \in (Pairs \ T) \ {k} : Later(created, k, j) PROVE Cardinality(Pairs \ T) <= KeepBound
      BY <2>1, <3>7, <3>8, <3>9, KeptIsBounded DEF T
    <3>10. Left(q)' \ {run'[q].id} = (Pairs \ T) \ {k} BY <3>4, <3>5
    <3> QED BY <3>3, <3>4, <3>5, <3>9, <3>10 DEF LeavesEnough
  <2> QED BY <1>6, <2>2, <2>3 DEF SelectForPruning
<1>7. ASSUME PruneNext(q) PROVE LeavesEnough(q)'
  <2> DEFINE i == Newest(run[q].todo)
             T == run[q].todo
             r == [run[q] EXCEPT !.todo = @ \ {i}, !.held = @ \cup {i}]
  <2>1. RunOK /\ Prunes(q) /\ T # {} BY <1>7 DEF PipelineInv, PruneNext, Prunes
  <2>2. run[q] \in RunType /\ i \in T BY <2>1, CandidateFacts
  <2>3. created' = created /\ meta' = meta BY <1>7 DEF PruneNext
  <2>4. CASE db' = db \ {i} /\ Goes(q, "unlinking")
    <3>1. run'[q].id = run[q].id /\ run'[q].todo = T /\ run'[q].held = run[q].held
      BY <2>1, <2>4, GoesMoves DEF Phases
    <3> HIDE DEF i
    <3>2. Left(q)' = Left(q) BY <2>2, <2>3, <2>4, <3>1 DEF Left, Pairs
    <3> QED BY <1>5, <2>1, <2>3, <3>1, <3>2
  <2>5. CASE Becomes(q, r) /\ UNCHANGED db
    <3>1. run'[q] = r BY <2>1, <2>5 DEF Becomes, RunOK
    <3> HIDE DEF i
    <3>2. r.id = run[q].id /\ r.todo = T \ {i} /\ r.held = run[q].held \cup {i} BY <2>2 DEF RunType
    <3> HIDE DEF r
    <3>3. Left(q)' = Left(q) BY <2>2, <2>3, <2>5, <3>1, <3>2 DEF Left, Pairs
    <3> QED BY <1>5, <2>1, <2>3, <3>1, <3>2, <3>3
  <2> QED BY <1>7, <2>4, <2>5 DEF PruneNext
<1>8. ASSUME UnlinkMetadata(q) PROVE LeavesEnough(q)'
  <2> DEFINE i == Newest(run[q].todo)
             T == run[q].todo
             r == [run[q] EXCEPT !.phase = "pruning", !.todo = @ \ {i}]
  <2>1. RunOK /\ Prunes(q) /\ T # {} /\ i \notin db
    BY <1>8, NewestIsFirst DEF PipelineInv, Holding, UnlinkMetadata, Prunes
  <2>2. run[q] \in RunType /\ i \in T BY <2>1, CandidateFacts
  <2>3. created' = created /\ db' = db /\ meta' = meta \ {i} /\ Becomes(q, r) BY <1>8 DEF UnlinkMetadata
  <2>4. run'[q] = r BY <2>1, <2>3 DEF Becomes, RunOK
  <2> HIDE DEF i
  <2>5. r.id = run[q].id /\ r.todo = T \ {i} /\ r.held = run[q].held BY <2>2 DEF RunType
  <2> HIDE DEF r
  <2>6. Left(q)' = Left(q) BY <2>1, <2>2, <2>3, <2>4, <2>5 DEF Left, Pairs
  <2> QED BY <1>5, <2>1, <2>3, <2>4, <2>5, <2>6
<1>9. ASSUME \/ scheduled_backup_lock(q) \/ PublishDatabase(q) \/ PublishMetadata(q) \/ EndPruning(q)
             \/ WriteState(q) \/ StepFails(q) \/ SchedulerDies(q)
      PROVE  ~Prunes(q)'
  <2>1. run \in [Schedulers -> RunType] BY DEF PipelineInv, RunOK
  <2>2. \/ \E x \in Phases \ {"pruning", "unlinking"} : Goes(q, x)
        \/ \E i, x : Becomes(q, Run(x, i, {}, {})) /\ x \notin {"pruning", "unlinking"}
    BY <1>9 DEF scheduled_backup_lock, PublishDatabase, PublishMetadata, EndPruning, WriteState,
                StepFails, SchedulerDies, Phases, Quiet
  <2>3. ASSUME NEW x \in Phases, Goes(q, x) PROVE run'[q].phase = x
    BY <2>1, <2>3, GoesMoves DEF RunOK
  <2>4. ASSUME NEW i, NEW x, Becomes(q, Run(x, i, {}, {})) PROVE run'[q].phase = x
    <3>1. run'[q] = Run(x, i, {}, {}) BY <2>1, <2>4 DEF Becomes
    <3> QED BY <3>1 DEF Run
  <2> QED BY <2>2, <2>3, <2>4 DEF Prunes
<1>10. ASSUME SchedulerStep(q) \/ StepFails(q) \/ SchedulerDies(q) PROVE LeavesEnough(q)'
  BY <1>4, <1>6, <1>7, <1>8, <1>9, <1>10 DEF SchedulerStep
<1> QED BY <1>2, <1>3, <1>10, StepCases

(* A run that made the newest backup ends with no more pairs than the       *)
(* policy keeps and the ones it held back for want of a receipt.            *)
THEOREM RetentionHolds == Spec => []RetentionBound
<1> DEFINE I == \A s \in Schedulers : LeavesEnough(s)
<1>1. Init => I BY QuietIsTyped DEF Init, LeavesEnough, Prunes
<1>2. PipelineInv /\ I /\ [Next]_vars => I' BY LeavesEnoughNext
<1>3. PipelineInv /\ I => RetentionBound
  <2> SUFFICES ASSUME PipelineInv, I, NEW s \in Schedulers,
                      run[s].phase = "pruning", run[s].todo = {}, Newest(Pairs) = run[s].id
               PROVE  Cardinality(Pairs \ run[s].held) <= KeepBound
    BY DEF RetentionBound, KeepBound
  <2>1. FilesOK /\ run[s].id \in Pairs /\ Prunes(s) BY DEF PipelineInv, Holding, Prunes
  <2>2. \A j \in Pairs \ {run[s].id} : Later(created, run[s].id, j) BY <2>1, NewestIsKept
  <2>3. Left(s) = Pairs \ run[s].held BY DEF Left
  <2> QED BY <2>1, <2>2, <2>3 DEF LeavesEnough
<1> HIDE DEF I
<1> QED BY <1>1, <1>2, <1>3, PipelineInvariant, PTL DEF Spec

-----------------------------------------------------------------------------
(* The state file.                                                         *)

(* One backup run at a time, and a clock that is never set back.            *)
LoneTimer == (\A s, q \in Schedulers : s = q) /\ ~ClockMayStepBack

InOrderOfTime ==
  /\ \A i \in DOMAIN created : created[i] <= clock
  /\ \A i, j \in DOMAIN created : i < j => created[i] <= created[j]

(* From its publication to its end a run's backup is the last one, and so   *)
(* is the one of the state file between two runs.                           *)
LastIsCurrent ==
  faults = 0 =>
    /\ \A s \in Schedulers :
         /\ run[s].phase \in {"published", "paired", "pruning", "unlinking", "passed"} =>
              run[s].id = Len(created)
         /\ run[s].phase = "passed" => run[s].id \in Pairs
    /\ (\A s \in Schedulers : run[s].phase = "idle") /\ lastRun.status = "PASS" =>
         lastRun.id = Len(created) /\ lastRun.id \in Pairs

LEMMA ClockAdvances ==
  ASSUME PipelineInv, ~ClockMayStepBack, [Next]_vars
  PROVE  clock' \in Nat /\ clock \in Nat /\ clock <= clock'
<1>1. clock \in Nat BY LimitsAssumption DEF PipelineInv, CountersOK
<1>2. CASE Tick
  <2>1. clock' \in {clock + 1} \cup {} BY <1>2 DEF Tick
  <2> QED BY <1>1, <2>1
<1>3. ASSUME NEW s \in Schedulers, SchedulerStep(s) \/ StepFails(s) \/ SchedulerDies(s) PROVE clock' = clock
  BY <1>3 DEF SchedulerStep, scheduled_backup_lock, PublishDatabase, PublishMetadata, SelectForPruning,
              PruneNext, UnlinkMetadata, EndPruning, WriteState, StepFails, SchedulerDies
<1>4. ASSUME \/ ListBackups \/ PutFails \/ BackupGone \/ WriteReceipt \/ ReplicatorDies \/ UNCHANGED vars
      PROVE clock' = clock
  BY <1>4 DEF ListBackups, PutFails, BackupGone, WriteReceipt, ReplicatorDies, vars
<1>5. ASSUME PutDatabase \/ PutMetadata PROVE clock' = clock BY <1>5 DEF PutDatabase, PutMetadata, Put
<1> QED BY <1>1, <1>2, <1>3, <1>4, <1>5 DEF Next

(* Only a publication adds to created.                                      *)
LEMMA CreatedCases ==
  ASSUME PipelineInv, [Next]_vars
  PROVE  \/ created' = created
         \/ \E s \in Schedulers :
              /\ PublishDatabase(s) /\ Len(created) < MaxBackups /\ created' = Append(created, clock)
              /\ db' = db \cup {Len(created')} /\ meta' = meta
              /\ Becomes(s, Run("published", Len(created'), {}, {}))
<1>1. CASE UNCHANGED files BY <1>1 DEF files
<1>2. ASSUME NEW s \in Schedulers, SchedulerStep(s) \/ StepFails(s) \/ SchedulerDies(s), created' # created
      PROVE  /\ PublishDatabase(s) /\ Len(created) < MaxBackups /\ created' = Append(created, clock)
             /\ db' = db \cup {Len(created')} /\ meta' = meta
             /\ Becomes(s, Run("published", Len(created'), {}, {}))
  <2>1. PublishDatabase(s)
    BY <1>2 DEF SchedulerStep, scheduled_backup_lock, PublishMetadata, SelectForPruning,
                PruneNext, UnlinkMetadata, EndPruning, WriteState, StepFails, SchedulerDies, files
  <2> QED BY <1>2, <2>1 DEF PublishDatabase
<1> QED BY <1>1, <1>2, StepCases

LEMMA InOrderOfTimeNext ==
  ASSUME PipelineInv, InOrderOfTime, ~ClockMayStepBack, [Next]_vars
  PROVE  InOrderOfTime'
<1>1. FilesOK BY DEF PipelineInv
<1>2. \A i \in DOMAIN created : i \in Nat /\ created[i] \in Nat BY <1>1, FilesFacts
<1>3. CASE created' = created BY <1>2, <1>3, ClockAdvances DEF InOrderOfTime
<1>4. CASE /\ Len(created) < MaxBackups /\ created' = Append(created, clock)
           /\ db' = db \cup {Len(created')} /\ meta' = meta
  <2> DEFINE n == Len(created')
  <2>1. /\ Grown /\ DOMAIN created' = DOMAIN created \cup {n} /\ n \notin DOMAIN created
        /\ created'[n] = clock /\ n = Len(created) + 1
    BY <1>4, PublishedFacts
  <2>2. \A i \in DOMAIN created : i < n BY <1>1, <2>1, FilesFacts
  <2>3. clock \in Nat /\ clock <= clock' /\ clock' \in Nat BY ClockAdvances
  <2>4. n \in Nat BY <1>1, <2>1, FilesFacts
  <2> HIDE DEF n
  <2>5. ASSUME NEW i \in DOMAIN created' PROVE created'[i] <= clock /\ created'[i] \in Nat
    BY <1>2, <2>1, <2>3 DEF InOrderOfTime, Grown
  <2>6. ASSUME NEW i \in DOMAIN created', NEW j \in DOMAIN created', i < j PROVE created'[i] <= created'[j]
    <3>1. CASE j = n BY <2>1, <2>5, <3>1
    <3>2. CASE j \in DOMAIN created
      <4>1. i \in DOMAIN created BY <1>2, <2>1, <2>2, <2>4, <2>6, <3>2
      <4> QED BY <2>1, <2>6, <3>2, <4>1 DEF InOrderOfTime, Grown
    <3> QED BY <2>1, <3>1, <3>2
  <2> QED BY <2>3, <2>5, <2>6 DEF InOrderOfTime
<1> QED BY <1>3, <1>4, CreatedCases

LEMMA LastIsCurrentNext ==
  ASSUME PipelineInv, LastIsCurrent, LoneTimer, [Next]_vars
  PROVE  LastIsCurrent'
<1> SUFFICES ASSUME faults' = 0 PROVE LastIsCurrent' BY DEF LastIsCurrent
<1>0. faults \in Nat /\ RunOK /\ PipelineInv' BY LimitsAssumption, PipelineNext DEF PipelineInv, CountersOK
<1>1. CASE UNCHANGED <<files, run, lastRun>> /\ faults' >= faults
  <2>1. faults = 0 BY <1>0, <1>1
  <2>2. created' = created /\ Pairs' = Pairs BY <1>1 DEF files, Pairs
  <2> QED BY <1>1, <2>1, <2>2 DEF LastIsCurrent
<1>2. ASSUME NEW s \in Schedulers, Moves(s), faults' >= faults, SchedulerStep(s)
      PROVE  LastIsCurrent'
  <2>0. faults = 0 /\ \A q \in Schedulers : q = s BY <1>0, <1>2 DEF LoneTimer
  <2>1. ASSUME run'[s].phase # "idle",
               run'[s].phase \in {"published", "paired", "pruning", "unlinking", "passed"} =>
                 run'[s].id = Len(created'),
               run'[s].phase = "passed" => run'[s].id \in Pairs'
        PROVE  LastIsCurrent'
    BY <2>0, <2>1 DEF LastIsCurrent
  <2>2. ASSUME run'[s].phase = "failed" \/ run'[s].phase = "locked" PROVE LastIsCurrent'
    BY <2>1, <2>2
  <2>3. CASE scheduled_backup_lock(s)
    <3> DEFINE x == IF LockFree THEN "locked" ELSE "failed"
    <3>1. x \in Phases /\ Goes(s, x) /\ (x = "locked" \/ x = "failed") BY <2>3 DEF Phases, scheduled_backup_lock
    <3> HIDE DEF x
    <3>2. run'[s].phase = x BY <1>0, <3>1, GoesMoves
    <3> QED BY <2>2, <3>1, <3>2
  <2>4. CASE PublishDatabase(s)
    <3>1. CASE Goes(s, "failed") BY <1>0, <2>2, <3>1, GoesMoves DEF Phases
    <3>2. CASE Becomes(s, Run("published", Len(created'), {}, {}))
      <4>1. run'[s] = Run("published", Len(created'), {}, {}) BY <1>0, <3>2 DEF Becomes, RunOK
      <4>2. run'[s].phase = "published" /\ run'[s].id = Len(created') BY <4>1 DEF Run
      <4> QED BY <2>1, <4>2
    <3> QED BY <2>4, <3>1, <3>2 DEF PublishDatabase
  <2>5. CASE PublishMetadata(s)
    <3>1. run[s].id = Len(created) /\ created' = created BY <2>0, <2>5 DEF LastIsCurrent, PublishMetadata
    <3>2. run'[s].phase = "paired" /\ run'[s].id = run[s].id BY <1>0, <2>5, GoesMoves DEF PublishMetadata, Phases
    <3> QED BY <2>1, <3>1, <3>2
  <2>6. CASE SelectForPruning(s)
    <3>1. run[s].id = Len(created) /\ created' = created BY <2>0, <2>6 DEF LastIsCurrent, SelectForPruning, files
    <3>2. CASE Goes(s, "failed") BY <1>0, <2>2, <3>2, GoesMoves DEF Phases
    <3>3. CASE Becomes(s, Run("pruning", run[s].id, PruneCandidates(run[s].id), {}))
      <4>1. run'[s] = Run("pruning", run[s].id, PruneCandidates(run[s].id), {})
        BY <1>0, <3>3 DEF Becomes, RunOK
      <4>2. run'[s].phase = "pruning" /\ run'[s].id = run[s].id BY <4>1 DEF Run
      <4> QED BY <2>1, <3>1, <4>2
    <3> QED BY <2>6, <3>2, <3>3 DEF SelectForPruning
  <2>7. CASE PruneNext(s) \/ UnlinkMetadata(s)
    <3> DEFINE i == Newest(run[s].todo)
               r == [run[s] EXCEPT !.todo = @ \ {i}, !.held = @ \cup {i}]
               u == [run[s] EXCEPT !.phase = "pruning", !.todo = @ \ {i}]
    <3>1. run[s].id = Len(created) /\ created' = created /\ run[s].phase \in {"pruning", "unlinking"}
      BY <2>0, <2>7 DEF LastIsCurrent, PruneNext, UnlinkMetadata
    <3>2. Goes(s, "unlinking") \/ Becomes(s, r) \/ Becomes(s, u) BY <2>7 DEF PruneNext, UnlinkMetadata
    <3>3. run[s] \in RunType BY <1>0 DEF RunOK
    <3> HIDE DEF i
    <3>4. r.phase = run[s].phase /\ r.id = run[s].id /\ u.phase = "pruning" /\ u.id = run[s].id
      BY <3>3 DEF RunType
    <3> HIDE DEF r, u
    <3>5. \A v : Becomes(s, v) => run'[s] = v BY <1>0 DEF Becomes, RunOK
    <3>6. run'[s].phase \in {"pruning", "unlinking"} /\ run'[s].id = run[s].id
      BY <1>0, <3>1, <3>2, <3>4, <3>5, GoesMoves DEF Phases
    <3> QED BY <2>1, <3>1, <3>6
  <2>8. CASE EndPruning(s)
    <3>1. /\ run[s].id = Len(created) /\ created' = created /\ run[s].id \in Pairs /\ Pairs' = Pairs
      BY <2>0, <2>8 DEF LastIsCurrent, EndPruning, files, Pairs, PipelineInv, Holding, Prunes
    <3>2. run'[s].phase = "passed" /\ run'[s].id = run[s].id BY <1>0, <2>8, GoesMoves DEF EndPruning, Phases
    <3> QED BY <2>1, <3>1, <3>2
  <2>9. CASE WriteState(s)
    <3>1. run'[s].phase = "idle" BY <1>0, <2>9, BecomesMoves, QuietIsTyped DEF WriteState
    <3>2. created' = created /\ Pairs' = Pairs BY <2>9 DEF WriteState, files, Pairs
    <3>3. lastRun'.status = "PASS" => run[s].phase = "passed" /\ lastRun'.id = run[s].id
      BY <2>9 DEF WriteState
    <3>4. lastRun'.status = "PASS" => lastRun'.id = Len(created) /\ lastRun'.id \in Pairs
      BY <2>0, <3>3 DEF LastIsCurrent
    <3> QED BY <2>0, <3>1, <3>2, <3>4 DEF LastIsCurrent
  <2> QED BY <1>2, <2>3, <2>4, <2>5, <2>6, <2>7, <2>8, <2>9 DEF SchedulerStep
<1>3. ASSUME faults' = faults + 1 PROVE FALSE BY <1>0, <1>3
<1> QED BY <1>1, <1>2, <1>3, StepCases

(* With one timer and a clock that goes forward, a state file that reports  *)
(* success names the newest backup, and that backup is whole, as long as    *)
(* nothing has failed.                                                      *)
THEOREM StateIsCurrent ==
  ASSUME LoneTimer
  PROVE  Spec => []StateNamesNewest
<1>1. Init => InOrderOfTime /\ LastIsCurrent
  BY QuietIsTyped DEF Init, InOrderOfTime, LastIsCurrent
<1>2. PipelineInv /\ InOrderOfTime /\ LastIsCurrent /\ [Next]_vars => InOrderOfTime' /\ LastIsCurrent'
  BY InOrderOfTimeNext, LastIsCurrentNext DEF LoneTimer
<1>3. PipelineInv /\ InOrderOfTime /\ LastIsCurrent => StateNamesNewest
  <2> DEFINE n == Len(created)
  <2> SUFFICES ASSUME PipelineInv, InOrderOfTime, LastIsCurrent,
                      faults = 0, \A s \in Schedulers : run[s] = Quiet, lastRun.status = "PASS"
               PROVE  Pairs # {} /\ lastRun.id = Newest(Pairs)
    BY DEF StateNamesNewest
  <2>1. lastRun.id = n /\ n \in Pairs BY QuietIsTyped DEF LastIsCurrent
  <2>2. FilesOK /\ Pairs \subseteq DOMAIN created BY DEF PipelineInv, FilesOK, Pairs
  <2>3. \A j \in DOMAIN created : j \in Nat /\ j <= n /\ n \in Nat /\ created[j] \in Nat /\ created[j] <= MaxClock
    BY <2>2, FilesFacts
  <2> HIDE DEF n
  <2>4. \A j \in Pairs \ {n} : Later(created, n, j) BY <2>1, <2>2, <2>3 DEF InOrderOfTime, Later
  <2>5. n = First(created, Pairs) BY <2>1, <2>2, <2>3, <2>4, FirstIsOnly, FilesFacts
  <2> QED BY <2>1, <2>5, NewestIsFirst
<1> QED BY <1>1, <1>2, <1>3, PipelineInvariant, PTL DEF Spec

-----------------------------------------------------------------------------
(* The evidence: the check, the drill and the alert beside the pipeline.    *)

LEMMA RecoveryIsPipeline == RecoverySpec => []PipelineInv /\ [][Next]_vars
<1>1. RecoveryInit => Init BY DEF RecoveryInit, HealthInit
<1>2. [RecoveryNext]_recoveryVars => [Next]_vars
  <2>1. ASSUME CheckHealth PROVE UNCHANGED vars BY <2>1 DEF CheckHealth, LookForBackup, JudgeBackup
  <2>2. ASSUME Drill PROVE UNCHANGED vars
    BY <2>2 DEF Drill, StartDrill, CheckFiles, CopyBackup, ValidateCopy, ValidatorTimeout, DrillDies
  <2>3. ASSUME UNCHANGED recoveryVars PROVE UNCHANGED vars BY <2>3 DEF recoveryVars
  <2> QED BY <2>1, <2>2, <2>3 DEF RecoveryNext
<1> QED BY <1>1, <1>2, PipelineInvariant, PTL DEF RecoverySpec, Spec

(* Backups are not forgotten and objects are not removed.                   *)
LEMMA PipelineGrows ==
  ASSUME PipelineInv, [Next]_vars
  PROVE  Grown /\ objects \subseteq objects'
<1>1. Grown
  <2>1. FilesOK /\ FilesOK' BY PipelineNext DEF PipelineInv
  <2>2. CASE created' = created BY <2>1, <2>2 DEF Grown
  <2>3. CASE /\ Len(created) < MaxBackups /\ created' = Append(created, clock)
             /\ db' = db \cup {Len(created')} /\ meta' = meta
    BY <2>3, PublishedFacts
  <2> QED BY <2>2, <2>3, CreatedCases
<1>2. ASSUME NEW s \in Schedulers, SchedulerStep(s) \/ StepFails(s) \/ SchedulerDies(s)
      PROVE objects' = objects
  BY <1>2 DEF SchedulerStep, scheduled_backup_lock, PublishDatabase, PublishMetadata, SelectForPruning,
              PruneNext, UnlinkMetadata, EndPruning, WriteState, StepFails, SchedulerDies
<1>3. ASSUME \/ Tick \/ ListBackups \/ BackupGone \/ WriteReceipt \/ ReplicatorDies \/ UNCHANGED vars
      PROVE objects' = objects
  BY <1>3 DEF Tick, ListBackups, BackupGone, WriteReceipt, ReplicatorDies, vars
<1>4. ASSUME PutDatabase \/ PutMetadata PROVE objects \subseteq objects'
  BY <1>4 DEF PutDatabase, PutMetadata, Put
<1>5. ASSUME PutFails PROVE objects \subseteq objects' BY <1>5 DEF PutFails
<1> QED BY <1>1, <1>2, <1>3, <1>4, <1>5 DEF Next

(* What the artifact of the check stands for: while it looked, the backup   *)
(* it found was within the age; and when it passed, the backup was in the   *)
(* store.                                                                   *)
InTimeAt(i, at) == i \in DOMAIN created /\ at <= created[i] + MaxAge /\ at \in Nat
Checked ==
  /\ health.status \in {"none", "PASS", "DEGRADED", "FAIL"}
  /\ looking # NotLooking => InTimeAt(looking.id, looking.at)
  /\ health.status = "PASS" => InTimeAt(health.id, health.at) /\ health.id \in Replicated

LEMMA CheckedStep ==
  ASSUME PipelineInv, Checked, CheckHealth
  PROVE  Checked'
<1>0. FilesOK /\ clock \in Nat BY LimitsAssumption DEF PipelineInv, CountersOK
<1>1. created' = created /\ Replicated' = Replicated
  BY DEF CheckHealth, LookForBackup, JudgeBackup, vars, files, Replicated
<1>2. CASE LookForBackup
  <2> DEFINE i == Newest(Pairs)
  <2>1. CASE Verdict("FAIL", 0, 0)
    <3>1. looking' = NotLooking /\ health'.status = "FAIL" BY <2>1 DEF Verdict, NoHealth
    <3> QED BY <3>1 DEF Checked
  <2>2. CASE Pairs # {} /\ InTime(i) /\ looking' = [id |-> i, at |-> clock] /\ UNCHANGED health
    <3>1. i \in DOMAIN created BY <1>0, <2>2, NewestIsKept DEF FilesOK, Pairs
    <3> HIDE DEF i
    <3>2. InTimeAt(i, clock) BY <1>0, <2>2, <3>1 DEF InTime, InTimeAt
    <3>3. looking'.id = i /\ looking'.at = clock BY <2>2
    <3> QED BY <1>1, <2>2, <3>2, <3>3 DEF Checked, InTimeAt
  <2> QED BY <1>2, <2>1, <2>2 DEF LookForBackup
<1>3. CASE JudgeBackup
  <2>1. looking' = NotLooking BY <1>3 DEF JudgeBackup, Verdict
  <2>2. ASSUME health'.status = "PASS"
        PROVE  /\ ReceiptInTime(looking.id, looking.at)
               /\ health'.id = looking.id /\ health'.at = looking.at
    BY <1>3, <2>2 DEF JudgeBackup, Verdict, NoHealth
  <2>4. health'.status \in {"none", "PASS", "DEGRADED", "FAIL"} BY <1>3 DEF JudgeBackup, Verdict, NoHealth
  <2>3. ASSUME health'.status = "PASS" PROVE InTimeAt(looking.id, looking.at) /\ looking.id \in Replicated
    BY <1>3, <2>2, <2>3 DEF JudgeBackup, Checked, ReceiptInTime, PipelineInv, ReceiptsAreTrue
  <2> QED BY <1>1, <2>1, <2>2, <2>3, <2>4 DEF Checked, InTimeAt
<1> QED BY <1>2, <1>3 DEF CheckHealth

LEMMA CheckedNext ==
  ASSUME PipelineInv, Checked, [Next]_vars, [RecoveryNext]_recoveryVars
  PROVE  Checked'
<1>1. ASSUME UNCHANGED <<looking, health>> PROVE Checked'
  <2>1. Grown /\ objects \subseteq objects' BY PipelineGrows
  <2>2. Replicated \subseteq Replicated' BY <2>1 DEF Replicated
  <2> QED BY <1>1, <2>1, <2>2 DEF Checked, InTimeAt, Grown
<1>2. ASSUME Drill PROVE UNCHANGED <<looking, health>>
  BY <1>2 DEF Drill, StartDrill, CheckFiles, CopyBackup, ValidateCopy, ValidatorTimeout, DrillDies
<1>3. ASSUME UNCHANGED recoveryVars PROVE UNCHANGED <<looking, health>> BY <1>3 DEF recoveryVars
<1> QED BY <1>1, <1>2, <1>3, CheckedStep DEF RecoveryNext

(* A healthy alert means that the store has a backup that is recent enough, *)
(* whatever ran between the reads of the check and the evaluation.          *)
THEOREM HealthyMeansBacked == RecoverySpec => []HealthyAlertIsBacked
<1>1. RecoveryInit => Checked
  BY DEF RecoveryInit, HealthInit, Checked, NoHealth
<1>2. PipelineInv /\ Checked /\ [Next]_vars /\ [RecoveryNext]_recoveryVars => Checked' BY CheckedNext
<1>3. PipelineInv /\ Checked => HealthyAlertIsBacked
  <2> SUFFICES ASSUME PipelineInv, Checked, evaluate_recovery_alert = "healthy"
               PROVE  \E i \in Replicated : clock <= created[i] + MaxAge + HealthFresh
    BY DEF HealthyAlertIsBacked
  <2>1. ~Failing(health) /\ InTimeFor(health, HealthFresh) /\ health.status # "DEGRADED"
    BY DEF evaluate_recovery_alert
  <2>2. InTimeAt(health.id, health.at) /\ health.id \in Replicated BY <2>1 DEF Checked, Failing
  <2>3. clock <= health.at + HealthFresh /\ health.at <= created[health.id] + MaxAge
    BY <2>1, <2>2 DEF InTimeFor, InTimeAt
  <2>4. clock \in Nat /\ health.at \in Nat /\ created[health.id] \in Nat /\ {MaxAge, HealthFresh} \subseteq Nat
    BY <2>2, FilesFacts, AgesAssumption, DrillAssumption, LimitsAssumption
       DEF InTimeAt, PipelineInv, CountersOK
  <2>5. clock <= created[health.id] + MaxAge + HealthFresh BY <2>3, <2>4
  <2> QED BY <2>2, <2>5
<1> QED BY <1>1, <1>2, <1>3, RecoveryIsPipeline, PTL DEF RecoverySpec

(* What the drill knows of the backup it tries: it was a pair once, and so  *)
(* is being written no more.                                                *)
Written(i) == i \in DOMAIN created /\ \A s \in Schedulers : run[s].phase = "published" => run[s].id # i
Drilled ==
  /\ drilling.step # "idle" => Written(drilling.id)
  /\ drill.status \in {"none", "PASS", "FAIL"}
  /\ drill.status = "PASS" => drill.id \in DOMAIN created \ Unsound
  /\ drill.code = "validator_process_failed" =>
       drill.id \in Unsound \/ (Written(drill.id) /\ drill.id \notin Pairs)

(* A backup that is written stays so, and if it is gone it does not return. *)
LEMMA WrittenStays ==
  ASSUME PipelineInv, [Next]_vars, NEW i, Written(i)
  PROVE  Written(i)' /\ (i \notin Pairs => i \notin Pairs')
<1>0. FilesOK /\ RunOK /\ Grown BY PipelineGrows DEF PipelineInv
<1>1. CASE UNCHANGED <<files, run>> BY <1>1 DEF files, Written, Pairs
<1>2. ASSUME NEW s \in Schedulers, Moves(s), HoldsLock(s) \/ UNCHANGED files,
             SchedulerStep(s) \/ StepFails(s) \/ SchedulerDies(s)
      PROVE  Written(i)' /\ (i \notin Pairs => i \notin Pairs')
  <2>1. \A q \in Schedulers \ {s} : run'[q] = run[q] BY <1>0, <1>2 DEF Moves, RunOK
  <2>2. ASSUME run'[s].phase = "published" => run'[s].id # i PROVE Written(i)'
    BY <1>0, <2>1, <2>2 DEF Written, Grown
  <2>3. CASE PublishDatabase(s) /\ ~Goes(s, "failed")
    <3>1. /\ Len(created) < MaxBackups /\ created' = Append(created, clock) /\ meta' = meta
          /\ db' = db \cup {Len(created')} /\ Becomes(s, Run("published", Len(created'), {}, {}))
      BY <2>3 DEF PublishDatabase
    <3>2. Len(created') \notin DOMAIN created BY <3>1, PublishedFacts
    <3>3. run'[s] = Run("published", Len(created'), {}, {}) BY <1>0, <3>1 DEF Becomes, RunOK
    <3>4. run'[s].id = Len(created') BY <3>3 DEF Run
    <3> QED BY <2>2, <3>1, <3>2, <3>4 DEF Written, Pairs
  <2>4. CASE PublishMetadata(s)
    <3>1. run'[s].phase = "paired" BY <1>0, <2>4, GoesMoves DEF PublishMetadata, Phases
    <3>2. run[s].id # i BY <2>4 DEF PublishMetadata, Written
    <3> QED BY <2>2, <2>4, <3>1, <3>2 DEF PublishMetadata, Pairs
  <2>5. ASSUME run'[s].phase # "published", db' \subseteq db, meta' \subseteq meta
        PROVE  Written(i)' /\ (i \notin Pairs => i \notin Pairs')
    BY <2>2, <2>5 DEF Pairs
  <2>6. CASE PublishDatabase(s) /\ Goes(s, "failed")
    <3>1. run'[s].phase = "failed" BY <1>0, <2>6, GoesMoves DEF Phases
    <3>2. meta' = meta BY <2>6 DEF PublishDatabase
    <3>3. i \notin Pairs => i \notin Pairs'
      <4>1. CASE db' = db BY <3>2, <4>1 DEF Pairs
      <4>2. CASE Len(created) < MaxBackups /\ created' = Append(created, clock) /\ db' = db \cup {Len(created')}
        <5>1. Len(created') \notin DOMAIN created BY <3>2, <4>2, PublishedFacts
        <5> QED BY <3>2, <4>2, <5>1 DEF Written, Pairs
      <4> QED BY <2>6, <4>1, <4>2 DEF PublishDatabase
    <3> QED BY <2>2, <3>1, <3>3
  <2>7. CASE ~PublishDatabase(s) /\ ~PublishMetadata(s)
    <3>1. db' \subseteq db /\ meta' \subseteq meta
      BY <1>2, <2>7 DEF SchedulerStep, scheduled_backup_lock, SelectForPruning, PruneNext, UnlinkMetadata,
                        EndPruning, WriteState, StepFails, SchedulerDies, files
    <3>2. \/ \E x \in Phases \ {"published"} : Goes(s, x)
          \/ \E x, k, T : Becomes(s, Run(x, k, T, {})) /\ x # "published"
          \/ PruneNext(s) \/ UnlinkMetadata(s)
      BY <1>2, <2>7 DEF SchedulerStep, scheduled_backup_lock, SelectForPruning, EndPruning, WriteState,
                        StepFails, SchedulerDies, Phases, Quiet
    <3>3. ASSUME NEW x \in Phases, Goes(s, x) PROVE run'[s].phase = x BY <1>0, <3>3, GoesMoves
    <3>4. ASSUME NEW x, NEW k, NEW T, Becomes(s, Run(x, k, T, {})) PROVE run'[s].phase = x
      <4>1. run'[s] = Run(x, k, T, {}) BY <1>0, <3>4 DEF Becomes, RunOK
      <4> QED BY <4>1 DEF Run
    <3>5. ASSUME PruneNext(s) \/ UnlinkMetadata(s) PROVE run'[s].phase # "published"
      <4> DEFINE j == Newest(run[s].todo)
                 r == [run[s] EXCEPT !.todo = @ \ {j}, !.held = @ \cup {j}]
                 u == [run[s] EXCEPT !.phase = "pruning", !.todo = @ \ {j}]
      <4>1. run[s].phase \in {"pruning", "unlinking"} BY <3>5 DEF PruneNext, UnlinkMetadata
      <4>2. Goes(s, "unlinking") \/ Becomes(s, r) \/ Becomes(s, u) BY <3>5 DEF PruneNext, UnlinkMetadata
      <4>3. run[s] \in RunType BY <1>0 DEF RunOK
      <4> HIDE DEF j
      <4>4. r.phase = run[s].phase /\ u.phase = "pruning" BY <4>3 DEF RunType
      <4> HIDE DEF r, u
      <4>5. \A v : Becomes(s, v) => run'[s] = v BY <1>0 DEF Becomes, RunOK
      <4> QED BY <1>0, <4>1, <4>2, <4>4, <4>5, GoesMoves DEF Phases
    <3> QED BY <2>5, <3>1, <3>2, <3>3, <3>4, <3>5
  <2> QED BY <2>3, <2>4, <2>6, <2>7
<1> QED BY <1>1, <1>2, StepCases

LEMMA DrilledStep ==
  ASSUME PipelineInv, Drilled, Drill
  PROVE  Drilled'
<1>1. created' = created /\ Pairs' = Pairs /\ run' = run
  BY DEF Drill, StartDrill, CheckFiles, CopyBackup, ValidateCopy, ValidatorTimeout, DrillDies, vars, files, Pairs
<1>2. \A i : Written(i)' <=> Written(i) BY <1>1 DEF Written
<1>3. NotDrilling.step = "idle" BY DEF NotDrilling
<1>4. ASSUME NEW i, NEW code, Finish("FAIL", i, code),
             code = "validator_process_failed" => i \in Unsound \/ (Written(i) /\ i \notin Pairs)
      PROVE  Drilled'
  <2>1. drill'.status = "FAIL" /\ drill'.id = i /\ drill'.code = code /\ drilling' = NotDrilling
    BY <1>4 DEF Finish, Artifact
  <2> QED BY <1>1, <1>2, <1>3, <1>4, <2>1 DEF Drilled
<1>5. ASSUME drill' = drill, drilling'.step # "idle" => Written(drilling'.id) PROVE Drilled'
  BY <1>1, <1>2, <1>5 DEF Drilled
<1>6. CASE StartDrill
  <2>1. CASE Finish("FAIL", 0, "backup_inventory_invalid") \/ Finish("FAIL", 0, "backup_missing")
    BY <1>4, <2>1
  <2>2. CASE Pairs # {} /\ drilling' = [step |-> "check", id |-> Newest(Pairs)] /\ UNCHANGED drill
    <3>1. Newest(Pairs) \in Pairs BY <2>2, NewestIsKept DEF PipelineInv
    <3>2. Written(Newest(Pairs)) BY <3>1 DEF Written, PipelineInv, FilesOK, Holding, Pairs
    <3>3. drilling'.id = Newest(Pairs) BY <2>2
    <3> QED BY <1>5, <2>2, <3>2, <3>3
  <2> QED BY <1>6, <2>1, <2>2 DEF StartDrill
<1>7. CASE CheckFiles \/ CopyBackup
  <2>1. drilling.step # "idle" BY <1>7 DEF CheckFiles, CopyBackup, At
  <2>2. Written(drilling.id) BY <2>1 DEF Drilled
  <2>3. CASE ValidatorFails /\ drilling.id \notin Pairs BY <1>4, <2>2, <2>3 DEF ValidatorFails
  <2>4. ASSUME NEW x, Proceed(x) PROVE Drilled'
    <3>1. drill' = drill /\ drilling' = [drilling EXCEPT !.step = x] BY <2>4 DEF Proceed
    <3>2. drilling'.id = drilling.id BY <3>1
    <3> QED BY <1>5, <2>2, <3>1, <3>2
  <2> QED BY <1>7, <2>3, <2>4 DEF CheckFiles, CopyBackup, Pairs
<1>8. CASE ValidateCopy
  <2>1. drilling.step # "idle" BY <1>8 DEF ValidateCopy, At
  <2>2. Written(drilling.id) BY <2>1 DEF Drilled
  <2>3. CASE drilling.id \notin Unsound /\ Finish("PASS", drilling.id, "none")
    <3>1. drill'.status = "PASS" /\ drill'.id = drilling.id /\ drill'.code = "none" /\ drilling' = NotDrilling
      BY <2>3 DEF Finish, Artifact
    <3> QED BY <1>1, <1>3, <2>2, <2>3, <3>1 DEF Drilled, Written
  <2>4. CASE drilling.id \in Unsound /\ ValidatorFails BY <1>4, <2>4 DEF ValidatorFails
  <2> QED BY <1>8, <2>3, <2>4 DEF ValidateCopy, PassesDrill
<1>9. CASE ValidatorTimeout BY <1>4, <1>9 DEF ValidatorTimeout
<1>10. CASE DrillDies BY <1>3, <1>5, <1>10 DEF DrillDies
<1> QED BY <1>6, <1>7, <1>8, <1>9, <1>10 DEF Drill

LEMMA DrilledNext ==
  ASSUME PipelineInv, Drilled, [Next]_vars, [RecoveryNext]_recoveryVars
  PROVE  Drilled'
<1>1. ASSUME UNCHANGED <<drilling, drill>> PROVE Drilled'
  <2>1. \A i : Written(i) => Written(i)' /\ (i \notin Pairs => i \notin Pairs') BY WrittenStays
  <2>2. DOMAIN created \subseteq DOMAIN created' BY PipelineGrows DEF Grown
  <2> QED BY <1>1, <2>1, <2>2 DEF Drilled
<1>2. ASSUME UNCHANGED recoveryVars PROVE UNCHANGED <<drilling, drill>> BY <1>2 DEF recoveryVars
<1> QED BY <1>1, <1>2, DrilledStep DEF RecoveryNext

LEMMA DrilledInvariant == RecoverySpec => []Drilled
<1>1. RecoveryInit => Drilled BY DEF RecoveryInit, Drilled, NotDrilling, NoDrill
<1>2. PipelineInv /\ Drilled /\ [Next]_vars /\ [RecoveryNext]_recoveryVars => Drilled' BY DrilledNext
<1> QED BY <1>1, <1>2, RecoveryIsPipeline, PTL DEF RecoverySpec

(* Nor is it healthy unless a backup that would restore has been restored.  *)
THEOREM HealthyMeansDrilled == RecoverySpec => []HealthyAlertIsDrilled
<1>1. Drilled => HealthyAlertIsDrilled
  BY DEF Drilled, HealthyAlertIsDrilled, evaluate_recovery_alert, Failing, InTimeFor
<1> QED BY <1>1, DrilledInvariant, PTL

(* A failing validator is never to be blamed on a backup being written.     *)
THEOREM FailureIsTheBackups == RecoverySpec => []DrillBlamesTheBackup
<1>1. Drilled => DrillBlamesTheBackup BY DEF Drilled, DrillBlamesTheBackup
<1> QED BY <1>1, DrilledInvariant, PTL

-----------------------------------------------------------------------------
(* The types of the evidence.                                              *)
EvidenceOK ==
  /\ looking \in [id : 0 .. MaxBackups, at : 0 .. MaxClock]
  /\ health \in [status : {"none", "PASS", "DEGRADED", "FAIL"}, id : 0 .. MaxBackups, at : 0 .. MaxClock]
  /\ drilling \in [step : {"idle", "check", "copy", "validate"}, id : 0 .. MaxBackups]
  /\ drill \in [status : {"none", "PASS", "FAIL"}, id : 0 .. MaxBackups, at : 0 .. MaxClock,
                code : {"none", "backup_inventory_invalid", "backup_missing",
                        "validator_timeout", "validator_process_failed"}]

LEMMA NewestIsTyped ==
  ASSUME TypeOK, PipelineInv
  PROVE  0 \in 0 .. MaxBackups /\ 0 \in 0 .. MaxClock /\ clock \in 0 .. MaxClock
         /\ (Pairs # {} => Newest(Pairs) \in 0 .. MaxBackups)
<1>1. MaxBackups \in Nat /\ MaxClock \in Nat BY LimitsAssumption
<1>2. clock \in 0 .. MaxClock BY DEF PipelineInv, CountersOK
<1>3. ASSUME Pairs # {} PROVE Newest(Pairs) \in 0 .. MaxBackups
  <2>1. FilesOK /\ Newest(Pairs) \in DOMAIN created BY <1>3, NewestIsKept DEF PipelineInv, FilesOK, Pairs
  <2>2. Len(created) \in Nat /\ Len(created) <= MaxBackups /\ DOMAIN created = 1 .. Len(created)
    BY <2>1, LenProperties DEF FilesOK
  <2> QED BY <1>1, <2>1, <2>2
<1> QED BY <1>1, <1>2, <1>3

LEMMA EvidenceStep ==
  ASSUME TypeOK, PipelineInv, EvidenceOK, [RecoveryNext]_recoveryVars
  PROVE  EvidenceOK'
<1>0. 0 \in 0 .. MaxBackups /\ 0 \in 0 .. MaxClock /\ clock \in 0 .. MaxClock
  BY NewestIsTyped
<1>1. CASE UNCHANGED <<looking, health, drilling, drill>>
  BY <1>1 DEF EvidenceOK
<1>2. CASE CheckHealth /\ UNCHANGED <<drilling, drill>>
  <2>1. ASSUME NEW status \in {"none", "PASS", "DEGRADED", "FAIL"}, NEW i \in 0 .. MaxBackups,
               NEW at \in 0 .. MaxClock, Verdict(status, i, at)
        PROVE  EvidenceOK'
    BY <1>0, <1>2, <2>1 DEF EvidenceOK, Verdict, NoHealth, NotLooking
  <2>2. CASE LookForBackup
    <3>1. CASE Verdict("FAIL", 0, 0) BY <1>0, <2>1, <3>1
    <3>2. CASE Pairs # {} /\ looking' = [id |-> Newest(Pairs), at |-> clock] /\ UNCHANGED health
      <4>1. Newest(Pairs) \in 0 .. MaxBackups BY <3>2, NewestIsTyped
      <4> QED BY <1>0, <1>2, <3>2, <4>1 DEF EvidenceOK
    <3> QED BY <2>2, <3>1, <3>2 DEF LookForBackup
  <2>3. CASE JudgeBackup
    <3>1. looking.id \in 0 .. MaxBackups /\ looking.at \in 0 .. MaxClock BY DEF EvidenceOK
    <3>2. PICK status \in {"PASS", "DEGRADED", "FAIL"} : Verdict(status, looking.id, looking.at)
      BY <2>3 DEF JudgeBackup
    <3> QED BY <2>1, <3>1, <3>2
  <2> QED BY <1>2, <2>2, <2>3 DEF CheckHealth
<1>3. CASE Drill
  <2>1. UNCHANGED <<looking, health>>
    BY <1>3 DEF Drill, StartDrill, CheckFiles, CopyBackup, ValidateCopy, ValidatorTimeout, DrillDies
  <2>2. ASSUME NEW status \in {"PASS", "FAIL"}, NEW i \in 0 .. MaxBackups,
               NEW code \in {"none", "backup_inventory_invalid", "backup_missing",
                             "validator_timeout", "validator_process_failed"},
               Finish(status, i, code)
        PROVE  EvidenceOK'
    BY <1>0, <2>1, <2>2 DEF EvidenceOK, Finish, Artifact, NotDrilling
  <2>3. drilling.id \in 0 .. MaxBackups BY DEF EvidenceOK
  <2>4. ASSUME NEW step \in {"copy", "validate"}, Proceed(step) PROVE EvidenceOK'
    BY <2>1, <2>4 DEF EvidenceOK, Proceed
  <2>5. CASE StartDrill
    <3>1. CASE Finish("FAIL", 0, "backup_inventory_invalid") \/ Finish("FAIL", 0, "backup_missing")
      BY <1>0, <2>2, <3>1
    <3>2. CASE Pairs # {} /\ drilling' = [step |-> "check", id |-> Newest(Pairs)] /\ UNCHANGED drill
      <4>1. Newest(Pairs) \in 0 .. MaxBackups BY <3>2, NewestIsTyped
      <4> QED BY <2>1, <3>2, <4>1 DEF EvidenceOK
    <3> QED BY <2>5, <3>1, <3>2 DEF StartDrill
  <2>6. CASE CheckFiles \/ CopyBackup
    BY <2>2, <2>3, <2>4, <2>6 DEF CheckFiles, CopyBackup, ValidatorFails
  <2>7. CASE ValidateCopy \/ ValidatorTimeout
    BY <2>2, <2>3, <2>7 DEF ValidateCopy, ValidatorTimeout, ValidatorFails
  <2>8. CASE DrillDies
    BY <1>0, <2>1, <2>8 DEF DrillDies, EvidenceOK, NotDrilling
  <2> QED BY <1>3, <2>5, <2>6, <2>7, <2>8 DEF Drill
<1> QED BY <1>1, <1>2, <1>3 DEF RecoveryNext, recoveryVars

(* The artifacts of the check and of the drill keep their types, beside any *)
(* number of backup runs (evaluate_recovery_health,                         *)
(* run_scheduled_restore_drill).                                            *)
THEOREM EvidenceTypeCorrect == RecoverySpec => []RecoveryTypeOK
<1>1. RecoveryInit => EvidenceOK
  <2>1. MaxBackups \in Nat /\ MaxClock \in Nat BY LimitsAssumption
  <2> QED BY <2>1 DEF RecoveryInit, HealthInit, EvidenceOK, NotLooking, NoHealth, NotDrilling, NoDrill
<1>2. TypeOK /\ PipelineInv /\ EvidenceOK /\ [RecoveryNext]_recoveryVars => EvidenceOK' BY EvidenceStep
<1>3. PipelineInv => TypeOK
  BY DEF PipelineInv, TypeOK, CountersOK, FilesOK, StoreOK, LastRunOK, RunOK, RepOK, RunType, Phases
<1>4. TypeOK /\ EvidenceOK => RecoveryTypeOK BY DEF EvidenceOK, RecoveryTypeOK, HealthTypeOK
<1> QED BY <1>1, <1>2, <1>3, <1>4, RecoveryIsPipeline, PTL DEF RecoverySpec
=============================================================================
