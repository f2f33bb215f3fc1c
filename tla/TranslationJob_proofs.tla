------------------------ MODULE TranslationJob_proofs ------------------------
(***************************************************************************)
(* What the translation job guarantees for every number of jobs, markets,  *)
(* fields and versions of a text, every size of the batches and every      *)
(* number of retries.                                                      *)
(***************************************************************************)
EXTENDS TranslationJob, FiniteSetTheorems, SequenceTheorems, TLAPS

-----------------------------------------------------------------------------
(* InOrder lists a finite set of numbers: every element once, in their      *)
(* order.  The place of an element is the number of those up to it.         *)

LEMMA RankFacts ==
  ASSUME NEW S, S \subseteq Nat, IsFiniteSet(S), NEW x \in S, NEW y \in S, x < y
  PROVE  LET rank(z) == Cardinality({w \in S : w <= z})
         IN rank(x) \in 1 .. Cardinality(S) /\ rank(y) \in 1 .. Cardinality(S) /\ rank(x) < rank(y)
<1> DEFINE U(z) == {w \in S : w <= z}
<1>1. ASSUME NEW z \in S PROVE IsFiniteSet(U(z)) /\ Cardinality(U(z)) \in 1 .. Cardinality(S)
  <2>1. U(z) \in SUBSET S /\ z \in U(z) OBVIOUS
  <2> HIDE DEF U
  <2>2. IsFiniteSet(U(z)) /\ Cardinality(U(z)) <= Cardinality(S) BY <2>1, FS_Subset
  <2>3. Cardinality(U(z)) \in Nat /\ Cardinality(S) \in Nat BY <2>2, FS_CardinalityType
  <2>4. Cardinality(U(z)) # 0 BY <2>1, <2>2, FS_EmptySet
  <2> QED BY <2>2, <2>3, <2>4
<1>2. U(x) \in SUBSET U(y) /\ U(x) # U(y)
  <2>1. y \in U(y) /\ y \notin U(x) OBVIOUS
  <2>2. \A w \in S : w <= x => w <= y OBVIOUS
  <2> QED BY <2>1, <2>2
<1> HIDE DEF U
<1>3. Cardinality(U(x)) <= Cardinality(U(y)) /\ Cardinality(U(x)) # Cardinality(U(y))
  BY <1>1, <1>2, FS_Subset
<1>4. Cardinality(U(x)) \in Nat /\ Cardinality(U(y)) \in Nat BY <1>1, FS_CardinalityType
<1>5. Cardinality(U(x)) < Cardinality(U(y)) BY <1>3, <1>4
<1> QED BY <1>1, <1>5 DEF U

LEMMA IncreasingExists ==
  ASSUME NEW S, S \subseteq Nat, IsFiniteSet(S)
  PROVE  \E s \in [1 .. Cardinality(S) -> S] : \A i, j \in DOMAIN s : i < j => s[i] < s[j]
<1> DEFINE n == Cardinality(S)
           f == [x \in S |-> Cardinality({w \in S : w <= x})]
<1>1. n \in Nat BY FS_CardinalityType
<1>2. IsFiniteSet(1 .. n) /\ Cardinality(1 .. n) = n
  <2>1. IsFiniteSet(1 .. n) /\ Cardinality(1 .. n) = IF 1 > n THEN 0 ELSE n - 1 + 1 BY <1>1, FS_Interval
  <2> QED BY <1>1, <2>1
<1>3. ASSUME NEW x \in S, NEW y \in S, x < y PROVE f[x] < f[y] BY <1>3, RankFacts
<1>4. ASSUME NEW x \in S PROVE f[x] \in 1 .. n
  <2> DEFINE U == {w \in S : w <= x}
  <2>1. U \in SUBSET S /\ x \in U OBVIOUS
  <2>2. f[x] = Cardinality(U) OBVIOUS
  <2> HIDE DEF U, f
  <2>3. IsFiniteSet(U) /\ Cardinality(U) <= n BY <2>1, FS_Subset
  <2>4. Cardinality(U) \in Nat /\ Cardinality(U) # 0 BY <2>1, <2>3, FS_CardinalityType, FS_EmptySet
  <2> QED BY <1>1, <2>2, <2>3, <2>4
<1>5. f \in [S -> 1 .. n]
  <2>1. f = [x \in S |-> f[x]] OBVIOUS
  <2> HIDE DEF f
  <2> QED BY <1>4, <2>1
<1> HIDE DEF f
<1>6. \A x, y \in S : f[x] = f[y] => x = y
  <2> SUFFICES ASSUME NEW x \in S, NEW y \in S, f[x] = f[y], x # y PROVE FALSE OBVIOUS
  <2>1. x \in Nat /\ y \in Nat OBVIOUS
  <2>2. (x < y \/ y < x) /\ f[x] \in 1 .. n BY <1>4, <2>1
  <2> QED BY <1>3, <2>2
<1>7. f \in Injection(S, 1 .. n) BY <1>5, <1>6, Zenon DEF Injection, IsInjective
<1>8. f \in Surjection(S, 1 .. n) BY <1>2, <1>7, FS_Injection
<1>9. \A k \in 1 .. n : \E x \in S : f[x] = k BY <1>8, Zenon DEF Surjection
<1> DEFINE s == [k \in 1 .. n |-> CHOOSE x \in S : f[x] = k]
<1>10. \A k \in 1 .. n : s[k] \in S /\ f[s[k]] = k BY <1>9
<1>11. s \in [1 .. n -> S] /\ DOMAIN s = 1 .. n BY <1>10
<1> HIDE DEF s
<1>12. ASSUME NEW i \in 1 .. n, NEW j \in 1 .. n, i < j PROVE s[i] < s[j]
  <2>1. s[i] \in S /\ s[j] \in S /\ f[s[i]] = i /\ f[s[j]] = j BY <1>10
  <2>2. s[i] \in Nat /\ s[j] \in Nat BY <2>1
  <2>3. s[i] # s[j] BY <1>12, <2>1
  <2>4. ASSUME s[j] < s[i] PROVE FALSE
    <3>1. f[s[j]] < f[s[i]] BY <1>3, <2>1, <2>4
    <3> QED BY <1>12, <2>1, <3>1
  <2> QED BY <2>2, <2>3, <2>4
<1> QED BY <1>11, <1>12 DEF n

LEMMA InOrderFacts ==
  ASSUME NEW S, S \subseteq Nat, IsFiniteSet(S)
  PROVE  /\ Cardinality(S) \in Nat
         /\ InOrder(S) \in [1 .. Cardinality(S) -> S] /\ DOMAIN InOrder(S) = 1 .. Cardinality(S)
         /\ Len(InOrder(S)) = Cardinality(S)
         /\ \A x \in S : \E k \in DOMAIN InOrder(S) : InOrder(S)[k] = x
<1> DEFINE n == Cardinality(S)
           s == InOrder(S)
<1>1. n \in Nat BY FS_CardinalityType
<1>2. s \in [1 .. n -> S] /\ \A i, j \in DOMAIN s : i < j => s[i] < s[j]
  BY IncreasingExists, Zenon DEF InOrder
<1> HIDE DEF s
<1>3. DOMAIN s = 1 .. n BY <1>2
<1>4. IsFiniteSet(1 .. n) /\ Cardinality(1 .. n) = n
  <2>1. IsFiniteSet(1 .. n) /\ Cardinality(1 .. n) = IF 1 > n THEN 0 ELSE n - 1 + 1 BY <1>1, FS_Interval
  <2> QED BY <1>1, <2>1
<1>5. \A i, j \in 1 .. n : s[i] = s[j] => i = j
  <2> SUFFICES ASSUME NEW i \in 1 .. n, NEW j \in 1 .. n, s[i] = s[j], i # j PROVE FALSE OBVIOUS
  <2>1. s[i] \in S /\ s[j] \in S BY <1>2
  <2>2. s[i] \in Nat /\ s[j] \in Nat BY <2>1
  <2>3. i < j \/ j < i BY <1>1
  <2> QED BY <1>2, <1>3, <2>2, <2>3
<1>6. s \in Injection(1 .. n, S) BY <1>2, <1>3, <1>5, Zenon DEF Injection, IsInjective
<1>7. s \in Surjection(1 .. n, S) BY <1>4, <1>6, FS_Injection
<1>8. \A x \in S : \E k \in 1 .. n : s[k] = x BY <1>7, Zenon DEF Surjection
<1>9. s \in Seq(S) /\ Len(s) = n
  BY <1>1, <1>2, <1>3, SeqDef, LenProperties
<1> QED BY <1>1, <1>2, <1>3, <1>8, <1>9 DEF s

-----------------------------------------------------------------------------
(* The inductive invariant.                                                *)

Steps == {"calling", "recording"}
JobType ==
  [step : Steps, selected : Seq(Request), results : Seq([FieldSet -> Translations]),
   field : 1 .. Len(Fields) + 1, start : Nat, retries : 0 .. MaxRetries, failed : BOOLEAN]

(* What a text of a request is to become.                                   *)
Right(r, f) ==
  IF r.fields[f] = 0 THEN Nothing
  ELSE [market |-> r.market, field |-> f, version |-> r.fields[f]]

(* Of a job: the requests with a text in field number k, and their places   *)
(* in the order they are sent.                                              *)
WithText(j, k) == {i \in DOMAIN j.selected : j.selected[i].fields[Fields[k]] # 0}
Places(j) == InOrder(WithText(j, j.field))

Filled(j, i, f) == j.results[i][f] = Right(j.selected[i], f)

(* No result is wrong, those of the fields and of the batches that are      *)
(* through are there, and when the call is over they all are.               *)
JobOK(j) ==
  /\ j \in JobType /\ Len(j.results) = Len(j.selected) /\ j.selected # <<>>
  /\ \A i \in DOMAIN j.selected, f \in FieldSet : j.results[i][f] = Nothing \/ Filled(j, i, f)
  /\ j.step = "calling" =>
       /\ ~j.failed
       /\ \A k \in 1 .. j.field - 1 : \A i \in DOMAIN j.selected : Filled(j, i, Fields[k])
       /\ j.field <= Len(Fields) =>
            \A k \in DOMAIN Places(j) : k <= j.start => Filled(j, Places(j)[k], Fields[j.field])
  /\ j.step = "recording" /\ ~j.failed =>
       \A i \in DOMAIN j.selected, f \in FieldSet : Filled(j, i, f)

(* A row holds the translations of the texts whose hashes it keeps.         *)
RowOK(m) ==
  cache[m] # NoRow =>
    /\ \A f \in FieldSet : cache[m].text[f] = Right([market |-> m, fields |-> cache[m].hashes], f)
    /\ cache[m].bad = {}

JobsInv ==
  /\ source \in [Markets -> Texts]
  /\ cache \in [Markets -> Rows]
  /\ job \in [Jobs -> JobType \cup {Idle}]
  /\ \A p \in Jobs : job[p] = Idle \/ JobOK(job[p])
  /\ \A m \in Markets : RowOK(m)

LEMMA FieldFacts ==
  /\ Len(Fields) \in Nat /\ DOMAIN Fields = 1 .. Len(Fields)
  /\ \A k \in 1 .. Len(Fields) : Fields[k] \in FieldSet
  /\ \A f \in FieldSet : \E k \in 1 .. Len(Fields) : Fields[k] = f
<1>1. Fields \in Seq(STRING) BY TranslationAssumption
<1>2. Len(Fields) \in Nat /\ DOMAIN Fields = 1 .. Len(Fields) BY <1>1, LenProperties
<1> QED BY <1>2 DEF FieldSet

LEMMA JobFacts ==
  ASSUME NEW j \in JobType
  PROVE  /\ j.step \in Steps /\ j # Idle
         /\ Len(j.selected) \in Nat /\ DOMAIN j.selected = 1 .. Len(j.selected)
         /\ \A i \in DOMAIN j.selected :
              j.selected[i] \in Request /\ j.selected[i].fields \in Texts /\ j.selected[i].market \in Markets
         /\ Len(j.results) \in Nat /\ DOMAIN j.results = 1 .. Len(j.results)
         /\ \A i \in DOMAIN j.results : j.results[i] \in [FieldSet -> Translations]
         /\ j.field \in 1 .. Len(Fields) + 1 /\ j.start \in Nat /\ j.failed \in BOOLEAN
         /\ j.retries \in 0 .. MaxRetries
<1> DEFINE s == j.selected
           t == j.results
<1>1. /\ j.step \in Steps /\ s \in Seq(Request) /\ t \in Seq([FieldSet -> Translations])
      /\ j.field \in 1 .. Len(Fields) + 1 /\ j.start \in Nat /\ j.failed \in BOOLEAN
      /\ j.retries \in 0 .. MaxRetries
  BY DEF JobType
<1>2. j # Idle
  <2>1. Idle.step = "idle" BY DEF Idle
  <2> QED BY <1>1, <2>1 DEF Steps
<1> HIDE DEF s, t
<1>3. Len(s) \in Nat /\ DOMAIN s = 1 .. Len(s) BY <1>1, LenProperties
<1>4. Len(t) \in Nat /\ DOMAIN t = 1 .. Len(t) BY <1>1, LenProperties
<1>5. \A i \in 1 .. Len(s) : s[i] \in Request BY <1>1, ElementOfSeq
<1>6. \A i \in 1 .. Len(t) : t[i] \in [FieldSet -> Translations] BY <1>1, ElementOfSeq
<1>7. \A r \in Request : r.fields \in Texts /\ r.market \in Markets BY DEF Request
<1> QED BY <1>1, <1>2, <1>3, <1>4, <1>5, <1>6, <1>7 DEF s, t

LEMMA RightIsTyped ==
  ASSUME NEW r \in Request, NEW f \in FieldSet
  PROVE  Right(r, f) \in Translations
<1>1. r.market \in Markets /\ r.fields \in [FieldSet -> Versions] BY DEF Request, Texts
<1>2. r.fields[f] \in Versions BY <1>1
<1> QED BY <1>1, <1>2 DEF Right, Translations

(* The places of the texts of a field: each once.                           *)
LEMMA PlacesFacts ==
  ASSUME NEW j \in JobType
  PROVE  /\ WithText(j, j.field) \subseteq DOMAIN j.selected
         /\ Places(j) \in [1 .. Len(Places(j)) -> WithText(j, j.field)]
         /\ DOMAIN Places(j) = 1 .. Len(Places(j)) /\ Len(Places(j)) \in Nat
         /\ \A i \in WithText(j, j.field) : \E k \in DOMAIN Places(j) : Places(j)[k] = i
         /\ IsFiniteSet(WithText(j, j.field)) /\ WithText(j, j.field) \subseteq Nat
<1> DEFINE S == WithText(j, j.field)
<1>1. Len(j.selected) \in Nat /\ DOMAIN j.selected = 1 .. Len(j.selected) BY JobFacts
<1>2. S \in SUBSET (1 .. Len(j.selected)) BY <1>1 DEF WithText
<1>3. IsFiniteSet(1 .. Len(j.selected)) BY <1>1, FS_Interval
<1>4. IsFiniteSet(S) /\ S \subseteq Nat BY <1>1, <1>2, <1>3, FS_Subset
<1> HIDE DEF S
<1>5. /\ Cardinality(S) \in Nat /\ InOrder(S) \in [1 .. Cardinality(S) -> S]
      /\ DOMAIN InOrder(S) = 1 .. Cardinality(S) /\ Len(InOrder(S)) = Cardinality(S)
      /\ \A x \in S : \E k \in DOMAIN InOrder(S) : InOrder(S)[k] = x
  BY <1>4, InOrderFacts
<1> QED BY <1>1, <1>2, <1>4, <1>5 DEF S, Places

LEMMA RunningJob ==
  ASSUME JobsInv, NEW p \in Jobs, job[p] # Idle
  PROVE  JobOK(job[p]) /\ job[p] \in JobType
BY DEF JobsInv, JobOK

LEMMA StepOfIdle == Idle.step = "idle" BY DEF Idle

(* A step of one job, to a state that is all right.                         *)
LEMMA OneJobStep ==
  ASSUME JobsInv, NEW p \in Jobs, NEW r, r = Idle \/ JobOK(r), job' = [job EXCEPT ![p] = r],
         UNCHANGED <<source, cache>>
  PROVE  JobsInv'
<1>1. job \in [Jobs -> JobType \cup {Idle}] BY DEF JobsInv
<1>2. r \in JobType \cup {Idle} BY DEF JobOK
<1>3. job' \in [Jobs -> JobType \cup {Idle}] BY <1>1, <1>2
<1>4. \A q \in Jobs : job'[q] = IF q = p THEN r ELSE job[q] BY <1>1
<1>5. \A q \in Jobs : job'[q] = Idle \/ JobOK(job'[q]) BY <1>4 DEF JobsInv
<1>6. \A m \in Markets : RowOK(m)' BY DEF JobsInv, RowOK
<1> QED BY <1>3, <1>5, <1>6 DEF JobsInv

(* The places of the batch, as the model of the provider has them.          *)
LEMMA PositionsArePlaces ==
  ASSUME NEW p \in Jobs
  PROVE  Positions(p) = Places(job[p])
BY DEF Positions, Places, WithText, CurrentField

LEMMA ChangeTextStep ==
  ASSUME JobsInv, NEW m \in Markets, NEW f \in FieldSet, NEW v \in Versions, ChangeText(m, f, v)
  PROVE  JobsInv'
<1>1. source' = [source EXCEPT ![m][f] = v] /\ UNCHANGED <<cache, job>> BY DEF ChangeText
<1>2. source \in [Markets -> [FieldSet -> Versions]] BY DEF JobsInv, Texts
<1>3. source' \in [Markets -> [FieldSet -> Versions]] BY <1>1, <1>2
<1>4. \A n \in Markets : RowOK(n)' BY <1>1 DEF JobsInv, RowOK
<1> QED BY <1>1, <1>3, <1>4 DEF JobsInv, Texts

LEMMA StopJobStep ==
  ASSUME JobsInv, NEW p \in Jobs, StopJob(p)
  PROVE  JobsInv'
BY OneJobStep DEF StopJob

LEMMA RetryStep ==
  ASSUME JobsInv, NEW p \in Jobs, Retry(p)
  PROVE  JobsInv'
<1> DEFINE j == job[p]
           r == [j EXCEPT !.retries = @ - 1]
<1>1. j # Idle BY StepOfIdle DEF Retry, Waiting, AtField, Calling
<1>2. JobOK(j) /\ j \in JobType BY <1>1, RunningJob
<1>3. job' = [job EXCEPT ![p] = r] /\ UNCHANGED <<source, cache>> /\ j.retries > 0
  BY DEF Retry
<1> HIDE DEF j
<1>4. MaxRetries \in Nat BY TranslationAssumption
<1>5. r \in JobType BY <1>2, <1>3, <1>4 DEF JobType
<1>6. /\ r.step = j.step /\ r.selected = j.selected /\ r.results = j.results /\ r.field = j.field
      /\ r.start = j.start /\ r.failed = j.failed
  BY <1>2 DEF JobType
<1> HIDE DEF r
<1>7. Places(r) = Places(j) BY <1>6 DEF Places, WithText
<1>8. \A i, f : Filled(r, i, f) = Filled(j, i, f) BY <1>6 DEF Filled
<1>9. JobOK(r) BY <1>2, <1>5, <1>6, <1>7, <1>8 DEF JobOK
<1> QED BY <1>3, <1>9, OneJobStep

(* A job whose call is over, with some results.                             *)
LEMMA OverIsTyped ==
  ASSUME NEW j \in JobType, NEW t \in Seq([FieldSet -> Translations]), NEW b \in BOOLEAN
  PROVE  Recording(j.selected, t, b) \in JobType
<1>1. 1 \in 1 .. Len(Fields) + 1 /\ 0 \in 0 .. MaxRetries BY FieldFacts, TranslationAssumption
<1>2. j.selected \in Seq(Request) BY DEF JobType
<1> QED BY <1>1, <1>2, Zenon DEF JobType, Recording, Steps

LEMMA EndCallStep ==
  ASSUME JobsInv, NEW p \in Jobs, EndCall(p)
  PROVE  JobsInv'
<1> DEFINE j == job[p]
           r == Recording(j.selected, j.results, j.failed)
<1>1. j # Idle BY StepOfIdle DEF EndCall, Calling
<1>2. JobOK(j) /\ j \in JobType BY <1>1, RunningJob
<1>3. job' = [job EXCEPT ![p] = r] /\ UNCHANGED <<source, cache>> /\ j.field > Len(Fields) /\ j.step = "calling"
  BY DEF EndCall, Calling
<1> HIDE DEF j
<1>4. Len(Fields) \in Nat BY FieldFacts
<1>5. j.results \in Seq([FieldSet -> Translations]) /\ j.failed \in BOOLEAN BY <1>2 DEF JobType
<1>6. r \in JobType BY <1>2, <1>5, OverIsTyped
<1>7. r.step = "recording" /\ r.selected = j.selected /\ r.results = j.results /\ r.failed = j.failed
  BY DEF Recording
<1> HIDE DEF r
<1>8. ASSUME NEW i \in DOMAIN j.selected, NEW f \in FieldSet PROVE Filled(j, i, f)
  <2>1. PICK k \in 1 .. Len(Fields) : Fields[k] = f BY FieldFacts
  <2>2. k \in 1 .. j.field - 1 BY <1>2, <1>3, <1>4, JobFacts
  <2> QED BY <1>2, <1>3, <2>1, <2>2 DEF JobOK
<1>9. JobOK(r) BY <1>2, <1>6, <1>7, <1>8 DEF JobOK, Filled
<1> QED BY <1>3, <1>9, OneJobStep

LEMMA CallFailsStep ==
  ASSUME JobsInv, NEW p \in Jobs, CallFails(p)
  PROVE  JobsInv'
<1> DEFINE j == job[p]
           none == [i \in DOMAIN j.results |-> [f \in FieldSet |-> Nothing]]
           r == Recording(j.selected, none, TRUE)
<1>1. j # Idle BY StepOfIdle DEF CallFails, Waiting, AtField, Calling
<1>2. JobOK(j) /\ j \in JobType BY <1>1, RunningJob
<1>3. job' = [job EXCEPT ![p] = r] /\ UNCHANGED <<source, cache>> BY DEF CallFails
<1> HIDE DEF j
<1>4. none \in Seq([FieldSet -> Translations]) /\ Len(none) = Len(j.results) /\ DOMAIN none = DOMAIN j.results
  <2>1. DOMAIN j.results = 1 .. Len(j.results) /\ Len(j.results) \in Nat BY <1>2, JobFacts
  <2>2. none \in [1 .. Len(j.results) -> [FieldSet -> Translations]] BY <2>1 DEF Translations
  <2> HIDE DEF none
  <2> QED BY <2>1, <2>2, SeqDef, LenProperties
<1>5. \A i \in DOMAIN none, f \in FieldSet : none[i][f] = Nothing OBVIOUS
<1> HIDE DEF none
<1>6. r \in JobType BY <1>2, <1>4, OverIsTyped
<1>7. r.step = "recording" /\ r.selected = j.selected /\ r.results = none /\ r.failed = TRUE
  BY DEF Recording
<1> HIDE DEF r
<1>8. DOMAIN j.selected = DOMAIN j.results BY <1>2, JobFacts DEF JobOK
<1>9. JobOK(r) BY <1>2, <1>4, <1>5, <1>6, <1>7, <1>8 DEF JobOK
<1> QED BY <1>3, <1>9, OneJobStep

(* A job that has gone to the next field, or has results and goes on.       *)
LEMMA MovedRecord ==
  ASSUME NEW S, NEW A, NEW B, NEW F, NEW N, NEW R, NEW L,
         NEW j \in [step : S, selected : A, results : B, field : F, start : N, retries : R, failed : L],
         NEW f \in F, NEW n \in N, NEW t \in B, NEW k \in R
  PROVE  /\ [j EXCEPT !.field = f, !.start = n] \in
              [step : S, selected : A, results : B, field : F, start : N, retries : R, failed : L]
         /\ [j EXCEPT !.results = t, !.start = n, !.retries = k] \in
              [step : S, selected : A, results : B, field : F, start : N, retries : R, failed : L]
OBVIOUS

LEMMA MovedIsTyped ==
  ASSUME NEW j \in JobType, NEW f \in 1 .. Len(Fields) + 1, NEW n \in Nat, NEW k \in 0 .. MaxRetries,
         NEW t \in Seq([FieldSet -> Translations])
  PROVE  /\ [j EXCEPT !.field = f, !.start = n] \in JobType
         /\ [j EXCEPT !.results = t, !.start = n, !.retries = k] \in JobType
<1>1. j \in [step : Steps, selected : Seq(Request), results : Seq([FieldSet -> Translations]),
             field : 1 .. Len(Fields) + 1, start : Nat, retries : 0 .. MaxRetries, failed : BOOLEAN]
  BY DEF JobType
<1> QED BY <1>1, MovedRecord, Zenon DEF JobType

(* A job that has recorded its first market.                                *)
LEMMA ShorterRecord ==
  ASSUME NEW S, NEW A, NEW B, NEW F, NEW N, NEW R, NEW L,
         NEW j \in [step : S, selected : A, results : B, field : F, start : N, retries : R, failed : L],
         NEW a \in A, NEW b \in B
  PROVE  [j EXCEPT !.selected = a, !.results = b] \in
              [step : S, selected : A, results : B, field : F, start : N, retries : R, failed : L]
OBVIOUS

LEMMA ShorterIsTyped ==
  ASSUME NEW j \in JobType, NEW a \in Seq(Request), NEW b \in Seq([FieldSet -> Translations])
  PROVE  [j EXCEPT !.selected = a, !.results = b] \in JobType
<1>1. j \in [step : Steps, selected : Seq(Request), results : Seq([FieldSet -> Translations]),
             field : 1 .. Len(Fields) + 1, start : Nat, retries : 0 .. MaxRetries, failed : BOOLEAN]
  BY DEF JobType
<1> QED BY <1>1, ShorterRecord, Zenon DEF JobType

LEMMA NextFieldStep ==
  ASSUME JobsInv, NEW p \in Jobs, NextField(p)
  PROVE  JobsInv'
<1> DEFINE j == job[p]
           r == [j EXCEPT !.field = @ + 1, !.start = 0]
<1>1. j # Idle BY StepOfIdle DEF NextField, AtField, Calling
<1>2. JobOK(j) /\ j \in JobType BY <1>1, RunningJob
<1>3. /\ job' = [job EXCEPT ![p] = r] /\ UNCHANGED <<source, cache>>
      /\ j.step = "calling" /\ j.field <= Len(Fields)
  <2>1. job \in [Jobs -> JobType \cup {Idle}] BY DEF JobsInv
  <2>2. job' = [job EXCEPT ![p].field = @ + 1, ![p].start = 0] BY DEF NextField
  <2>3. job' = [job EXCEPT ![p] = r] BY <2>1, <2>2
  <2> QED BY <2>3 DEF NextField, AtField, Calling
<1>4. j.start >= Len(Places(j)) BY PositionsArePlaces DEF NextField
<1> HIDE DEF j
<1>5. Len(Fields) \in Nat BY FieldFacts
<1>6. j.field \in 1 .. Len(Fields) BY <1>2, <1>3, <1>5, JobFacts
<1>7. r \in JobType
  <2>1. j.field + 1 \in 1 .. Len(Fields) + 1 BY <1>5, <1>6
  <2>2. j.results \in Seq([FieldSet -> Translations]) /\ j.retries \in 0 .. MaxRetries BY <1>2 DEF JobType
  <2> QED BY <1>2, <2>1, <2>2, MovedIsTyped
<1>8. /\ r.step = j.step /\ r.selected = j.selected /\ r.results = j.results /\ r.field = j.field + 1
      /\ r.start = 0 /\ r.failed = j.failed
  BY <1>2 DEF JobType
<1> HIDE DEF r
(* Every text of the field had its place among those sent.                  *)
<1>9. ASSUME NEW i \in DOMAIN j.selected PROVE Filled(j, i, Fields[j.field])
  <2>1. Fields[j.field] \in FieldSet BY <1>6, FieldFacts
  <2>2. CASE i \in WithText(j, j.field)
    <3>1. PICK k \in DOMAIN Places(j) : Places(j)[k] = i BY <1>2, <2>2, PlacesFacts
    <3>2. k <= j.start BY <1>2, <1>4, <3>1, PlacesFacts, JobFacts
    <3> QED BY <1>2, <1>3, <3>1, <3>2 DEF JobOK
  <2>3. CASE i \notin WithText(j, j.field)
    <3>1. Right(j.selected[i], Fields[j.field]) = Nothing BY <2>3 DEF WithText, Right
    <3> QED BY <1>2, <2>1, <3>1 DEF JobOK, Filled
  <2> QED BY <2>2, <2>3
<1>10. ASSUME NEW k \in 1 .. r.field - 1, NEW i \in DOMAIN r.selected PROVE Filled(r, i, Fields[k])
  <2>1. k = j.field \/ k \in 1 .. j.field - 1 BY <1>6, <1>8
  <2>2. Filled(j, i, Fields[k]) BY <1>2, <1>3, <1>8, <1>9, <2>1 DEF JobOK
  <2> QED BY <1>8, <2>2 DEF Filled
<1>11. ASSUME NEW k \in DOMAIN Places(r) PROVE ~(k <= r.start)
  BY <1>7, <1>8, PlacesFacts
<1>12. JobOK(r) BY <1>2, <1>3, <1>7, <1>8, <1>10, <1>11 DEF JobOK, Filled
<1> QED BY <1>3, <1>12, OneJobStep

LEMMA TranslateStep ==
  ASSUME JobsInv, NEW p \in Jobs, Translate(p)
  PROVE  JobsInv'
<1> DEFINE j == job[p]
           t == Answered(p)
           left == RetriesLeft(p)
           r == [j EXCEPT !.results = t, !.start = @ + BatchSize, !.retries = left]
<1>1. j # Idle BY StepOfIdle DEF Translate, Waiting, AtField, Calling
<1>2. JobOK(j) /\ j \in JobType BY <1>1, RunningJob
<1>3. /\ job' = [job EXCEPT ![p] = r] /\ UNCHANGED <<source, cache>>
      /\ j.step = "calling" /\ j.field <= Len(Fields)
  <2>1. job \in [Jobs -> JobType \cup {Idle}] BY DEF JobsInv
  <2>2. job' = [job EXCEPT ![p].results = t, ![p].start = @ + BatchSize, ![p].retries = left] BY DEF Translate
  <2> HIDE DEF t, left
  <2>3. job' = [job EXCEPT ![p] = r] BY <2>1, <2>2
  <2> QED BY <2>3 DEF Translate, Waiting, AtField, Calling
<1>4. Len(Fields) \in Nat /\ BatchSize \in Nat /\ MaxRetries \in Nat BY FieldFacts, TranslationAssumption
<1>5. j.field \in 1 .. Len(Fields) /\ j.start \in Nat BY <1>2, <1>3, <1>4, JobFacts
<1> DEFINE f == Fields[j.field]
           B == Batch(p)
<1>6. f \in FieldSet /\ f = CurrentField(p) BY <1>5, FieldFacts DEF CurrentField
<1>7. /\ B = {Places(j)[k] : k \in {n \in DOMAIN Places(j) : n > j.start /\ n <= j.start + BatchSize}}
      /\ Sent(p) = B
  BY PositionsArePlaces DEF Batch, Sent
(* The batch is a part of the texts, and the answers come in its order.      *)
<1>8. B \subseteq WithText(j, j.field) /\ IsFiniteSet(B) /\ B \subseteq Nat /\ B \subseteq DOMAIN j.selected
  <2>1. B \in SUBSET WithText(j, j.field) BY <1>2, <1>7, PlacesFacts
  <2> HIDE DEF B, j
  <2> QED BY <1>2, <2>1, PlacesFacts, FS_Subset
<1> DEFINE of(i) == Answer(p, InOrder(B)[CHOOSE n \in DOMAIN InOrder(B) : InOrder(B)[n] = i])
<1>9. ASSUME NEW i \in B PROVE of(i) = Right(j.selected[i], f)
  <2> DEFINE s == InOrder(B)
  <2>1. \E n \in DOMAIN s : s[n] = i BY <1>8, InOrderFacts
  <2>2. s[CHOOSE n \in DOMAIN s : s[n] = i] = i BY <2>1, Zenon
  <2>3. of(i) = Answer(p, i) BY <2>2, Zenon
  <2>4. j.selected[i].fields[f] # 0 BY <1>8 DEF WithText
  <2> QED BY <1>6, <2>3, <2>4 DEF Answer, Right
<1>10. t = [i \in DOMAIN j.results |->
              IF i \in B THEN [j.results[i] EXCEPT ![f] = of(i)] ELSE j.results[i]]
  <2>1. Answered(p) =
          [i \in DOMAIN job[p].results |->
             IF i \in Batch(p)
             THEN [job[p].results[i] EXCEPT ![CurrentField(p)] =
                     Answer(p, InOrder(Sent(p))[CHOOSE n \in DOMAIN InOrder(Batch(p)) : InOrder(Batch(p))[n] = i])]
             ELSE job[p].results[i]]
    BY Zenon DEF Answered
  <2>2. f = CurrentField(p) /\ Sent(p) = Batch(p) BY <1>6, <1>7
  <2> HIDE DEF f
  <2> QED BY <2>1, <2>2
<1> HIDE DEF of, B, t, left, f, j
<1>11. DOMAIN j.results = 1 .. Len(j.results) /\ Len(j.results) \in Nat /\ DOMAIN j.selected = DOMAIN j.results
       /\ \A i \in DOMAIN j.results : j.results[i] \in [FieldSet -> Translations]
  BY <1>2, JobFacts DEF JobOK
<1>12. ASSUME NEW i \in DOMAIN j.results
       PROVE  /\ t[i] \in [FieldSet -> Translations]
              /\ \A g \in FieldSet : t[i][g] = IF i \in B /\ g = f THEN Right(j.selected[i], f) ELSE j.results[i][g]
  <2>1. CASE i \in B
    <3>1. t[i] = [j.results[i] EXCEPT ![f] = of(i)] BY <1>10, <2>1
    <3>2. of(i) = Right(j.selected[i], f) BY <1>9, <2>1
    <3>3. Right(j.selected[i], f) \in Translations BY <1>2, <1>6, <1>11, JobFacts, RightIsTyped
    <3>4. j.results[i] \in [FieldSet -> Translations] BY <1>11
    <3> QED BY <1>6, <2>1, <3>1, <3>2, <3>3, <3>4
  <2>2. CASE i \notin B BY <1>10, <1>11, <2>2
  <2> QED BY <2>1, <2>2
<1>13. t \in Seq([FieldSet -> Translations]) /\ Len(t) = Len(j.results) /\ DOMAIN t = DOMAIN j.results
  <2>1. DOMAIN t = 1 .. Len(j.results) BY <1>10, <1>11
  <2>2. t \in [1 .. Len(j.results) -> [FieldSet -> Translations]] BY <1>10, <1>11, <1>12, <2>1
  <2> QED BY <1>11, <2>1, <2>2, SeqDef, LenProperties
<1>14. left \in 0 .. MaxRetries BY <1>2, <1>4, JobFacts DEF left, RetriesLeft, j
<1>15. r \in JobType
  <2>1. j.start + BatchSize \in Nat /\ j.field \in 1 .. Len(Fields) + 1 BY <1>2, <1>4, <1>5, JobFacts
  <2> QED BY <1>2, <1>13, <1>14, <2>1, MovedIsTyped
<1>16. /\ r.step = j.step /\ r.selected = j.selected /\ r.results = t /\ r.field = j.field
       /\ r.start = j.start + BatchSize /\ r.failed = j.failed
  BY <1>2 DEF JobType
<1> HIDE DEF r
<1>17. ASSUME NEW i \in DOMAIN j.selected, NEW g \in FieldSet
       PROVE  /\ r.results[i][g] = Nothing \/ Filled(r, i, g)
              /\ Filled(j, i, g) => Filled(r, i, g)
              /\ i \in B => Filled(r, i, f)
  <2>1. j.results[i][g] = Nothing \/ Filled(j, i, g) BY <1>2 DEF JobOK
  <2>2. t[i][g] = IF i \in B /\ g = f THEN Right(j.selected[i], f) ELSE j.results[i][g] BY <1>11, <1>12
  <2>3. i \in B => t[i][f] = Right(j.selected[i], f) BY <1>6, <1>11, <1>12
  <2> QED BY <1>16, <2>1, <2>2, <2>3 DEF Filled
<1>18. Places(r) = Places(j) BY <1>16 DEF Places, WithText
<1>19. ASSUME NEW k \in 1 .. r.field - 1, NEW i \in DOMAIN r.selected PROVE Filled(r, i, Fields[k])
  <2>1. Fields[k] \in FieldSet /\ k \in 1 .. j.field - 1 BY <1>4, <1>5, <1>16, FieldFacts
  <2>2. Filled(j, i, Fields[k]) BY <1>2, <1>3, <1>16, <2>1 DEF JobOK
  <2> QED BY <1>16, <1>17, <2>1, <2>2
<1>20. ASSUME NEW k \in DOMAIN Places(r), k <= r.start PROVE Filled(r, Places(r)[k], Fields[r.field])
  <2> DEFINE i == Places(j)[k]
  <2>1. k \in DOMAIN Places(j) /\ k \in Nat BY <1>2, <1>18, PlacesFacts
  <2>2. i \in DOMAIN j.selected BY <1>2, <2>1, PlacesFacts
  <2>3. CASE k <= j.start
    <3>1. Filled(j, i, f) BY <1>2, <1>3, <2>1, <2>3 DEF JobOK, f
    <3> QED BY <1>6, <1>16, <1>17, <1>18, <2>2, <3>1 DEF f
  <2>4. CASE ~(k <= j.start)
    <3>1. k > j.start /\ k <= j.start + BatchSize BY <1>4, <1>5, <1>16, <1>20, <2>1, <2>4
    <3>2. i \in B BY <1>7, <2>1, <3>1
    <3> QED BY <1>6, <1>16, <1>17, <1>18, <2>2, <3>2 DEF f
  <2> QED BY <2>3, <2>4
<1>21. JobOK(r) BY <1>2, <1>3, <1>13, <1>15, <1>16, <1>17, <1>19, <1>20 DEF JobOK
<1> QED BY <1>3, <1>21, OneJobStep

LEMMA StartJobStep ==
  ASSUME JobsInv, NEW p \in Jobs, NEW S \in SUBSET Markets, NEW force \in BOOLEAN, StartJob(p, S, force)
  PROVE  JobsInv'
<1> DEFINE wanted == {m \in S : HasText(m) /\ (force \/ ~IsTranslated(m))}
           list == InOrder(wanted)
           n == Cardinality(wanted)
           chosen == [i \in 1 .. n |-> [market |-> list[i], fields |-> source[list[i]]]]
           none == [i \in 1 .. n |-> [f \in FieldSet |-> Nothing]]
           r == [step |-> "calling", selected |-> chosen, results |-> none,
                 field |-> 1, start |-> 0, retries |-> MaxRetries, failed |-> FALSE]
<1>1. wanted # {} /\ job' = [job EXCEPT ![p] = r] /\ UNCHANGED <<source, cache>> BY DEF StartJob
<1>2. wanted \in SUBSET Markets OBVIOUS
<1> HIDE DEF wanted
<1>3. IsFiniteSet(wanted) /\ wanted \subseteq Nat BY <1>2, TranslationAssumption, FS_Subset
<1>4. n \in Nat /\ list \in [1 .. n -> wanted] BY <1>3, InOrderFacts
<1>5. n # 0 BY <1>1, <1>3, FS_EmptySet
<1> HIDE DEF list, n
<1>6. ASSUME NEW i \in 1 .. n PROVE chosen[i] \in Request
  <2>1. list[i] \in Markets BY <1>2, <1>4
  <2>2. source[list[i]] \in Texts BY <2>1 DEF JobsInv
  <2> QED BY <2>1, <2>2 DEF Request
<1>7. chosen \in [1 .. n -> Request] BY <1>6
<1>8. none \in [1 .. n -> [FieldSet -> Translations]] BY DEF Translations
<1>9. \A i \in 1 .. n, f \in FieldSet : none[i][f] = Nothing OBVIOUS
<1> HIDE DEF chosen, none
<1>10. /\ chosen \in Seq(Request) /\ Len(chosen) = n /\ DOMAIN chosen = 1 .. n
       /\ none \in Seq([FieldSet -> Translations]) /\ Len(none) = n
  BY <1>4, <1>7, <1>8, SeqDef, LenProperties
<1>11. 1 \in 1 .. Len(Fields) + 1 /\ MaxRetries \in 0 .. MaxRetries BY FieldFacts, TranslationAssumption
<1>12. r \in JobType BY <1>10, <1>11, Zenon DEF JobType, Steps
<1>13. /\ r.step = "calling" /\ r.selected = chosen /\ r.results = none /\ r.field = 1 /\ r.start = 0
       /\ r.failed = FALSE
  OBVIOUS
<1> HIDE DEF r
<1>14. chosen # <<>> BY <1>5, <1>10
<1>15. \A k \in DOMAIN Places(r) : ~(k <= r.start) BY <1>12, <1>13, PlacesFacts
<1>16. ~\E k \in 1 .. r.field - 1 : TRUE BY <1>13
<1>17. JobOK(r) BY <1>9, <1>10, <1>12, <1>13, <1>14, <1>15, <1>16 DEF JobOK
<1> QED BY <1>1, <1>17, OneJobStep

LEMMA RecordStep ==
  ASSUME JobsInv, NEW p \in Jobs, NEW bad \in SUBSET FieldSet, Record(p, bad)
  PROVE  JobsInv'
<1> DEFINE j == job[p]
           s == j.selected
           t == j.results
           q == Head(s)
           result == Head(t)
           rest == [j EXCEPT !.selected = Tail(@), !.results = Tail(@)]
           r == IF rest.selected = <<>> THEN Idle ELSE rest
<1>1. /\ j.step = "recording" /\ bad \in Objections(q) /\ job' = [job EXCEPT ![p] = r] /\ source' = source
      /\ cache' = IF ~j.failed /\ PassesGate(q, bad)
                  THEN [cache EXCEPT ![q.market] = [hashes |-> q.fields, text |-> result, bad |-> bad]]
                  ELSE cache
  BY DEF Record, Hashes
<1>2. j # Idle BY <1>1, StepOfIdle
<1>3. JobOK(j) /\ j \in JobType BY <1>2, RunningJob
<1> HIDE DEF j
<1>4. /\ s \in Seq(Request) /\ t \in Seq([FieldSet -> Translations]) /\ s # <<>> /\ Len(t) = Len(s)
  BY <1>3 DEF JobOK, JobType
<1>5. \A i \in DOMAIN s, f \in FieldSet : t[i][f] = Nothing \/ t[i][f] = Right(s[i], f)
  BY <1>3 DEF JobOK, Filled
<1>6. ~j.failed => \A i \in DOMAIN s, f \in FieldSet : t[i][f] = Right(s[i], f)
  BY <1>1, <1>3 DEF JobOK, Filled
<1> DEFINE s2 == Tail(s)
           t2 == Tail(t)
<1>7. /\ rest.step = "recording" /\ rest.selected = s2 /\ rest.results = t2 /\ rest.failed = j.failed
  BY <1>1, <1>3 DEF JobType
<1>8. rest \in JobType
  <2>1. s2 \in Seq(Request) /\ t2 \in Seq([FieldSet -> Translations]) BY <1>4, HeadTailProperties
  <2> QED BY <1>3, <2>1, ShorterIsTyped, Zenon
<1> HIDE DEF s, t, rest
<1>9. /\ 1 \in DOMAIN s /\ q = s[1] /\ result = t[1]
      /\ Len(s2) = Len(s) - 1 /\ Len(t2) = Len(s2) /\ Len(s) \in Nat
      /\ \A i \in DOMAIN s2 : i + 1 \in DOMAIN s /\ s2[i] = s[i + 1] /\ t2[i] = t[i + 1]
  <2>1. Len(s) \in Nat /\ DOMAIN s = 1 .. Len(s) /\ Len(s) # 0 BY <1>4, LenProperties, EmptySeq
  <2>2. t # <<>> BY <1>4, <2>1
  <2>3. /\ q = s[1] /\ Len(s2) = Len(s) - 1 /\ s2 \in Seq(Request)
        /\ \A i \in 1 .. Len(s2) : s2[i] = s[i + 1]
    BY <1>4, <2>1, HeadTailProperties
  <2>4. /\ result = t[1] /\ Len(t2) = Len(t) - 1 /\ \A i \in 1 .. Len(t2) : t2[i] = t[i + 1]
    BY <1>4, <2>2, HeadTailProperties
  <2>5. DOMAIN s2 = 1 .. Len(s2) BY <2>3, LenProperties
  <2> HIDE DEF s2, t2, q, result
  <2> QED BY <1>4, <2>1, <2>3, <2>4, <2>5
<1>10. q \in Request /\ q.market \in Markets /\ q.fields \in Texts
  BY <1>3, <1>9, JobFacts DEF s
<1>11. result \in [FieldSet -> Translations]
  <2>1. DOMAIN t = 1 .. Len(t) /\ DOMAIN s = 1 .. Len(s) BY <1>4, LenProperties
  <2> QED BY <1>3, <1>4, <1>9, <2>1, JobFacts DEF t
(* What is left of the job.                                                 *)
<1>12. r = Idle \/ JobOK(r)
  <2> SUFFICES ASSUME s2 # <<>> PROVE JobOK(rest) BY <1>7
  <2>1. \A i \in DOMAIN s2, f \in FieldSet : t2[i][f] = Nothing \/ t2[i][f] = Right(s2[i], f) BY <1>5, <1>9
  <2>2. ~j.failed => \A i \in DOMAIN s2, f \in FieldSet : t2[i][f] = Right(s2[i], f) BY <1>6, <1>9
  <2>3. Len(t2) = Len(s2) BY <1>9
  <2> HIDE DEF s2, t2
  <2> QED BY <1>7, <1>8, <2>1, <2>2, <2>3 DEF JobOK, Filled
<1> HIDE DEF s2, t2, r
<1>13. job \in [Jobs -> JobType \cup {Idle}] /\ cache \in [Markets -> Rows] BY DEF JobsInv
<1>14. job' \in [Jobs -> JobType \cup {Idle}] /\ \A u \in Jobs : job'[u] = Idle \/ JobOK(job'[u])
  <2>1. r \in JobType \cup {Idle} BY <1>12 DEF JobOK
  <2>2. \A u \in Jobs : job'[u] = IF u = p THEN r ELSE job[u] BY <1>1, <1>13
  <2>3. \A u \in Jobs : job'[u] = Idle \/ JobOK(job'[u]) BY <1>12, <2>2 DEF JobsInv
  <2> QED BY <1>1, <1>13, <2>1, <2>3
(* The row.                                                                 *)
<1> DEFINE row == [hashes |-> q.fields, text |-> result, bad |-> bad]
<1>15. cache' \in [Markets -> Rows] /\ \A m \in Markets : RowOK(m)'
  <2>1. CASE ~j.failed /\ PassesGate(q, bad)
    <3>1. bad = {} BY <1>1, <2>1 DEF PassesGate, Objections
    <3>2. \A f \in FieldSet : result[f] = Right(q, f) BY <1>6, <1>9, <2>1
    <3>3. \A f \in FieldSet : Right(q, f) = Right([market |-> q.market, fields |-> q.fields], f)
      BY DEF Right
    <3>4. row \in Rows BY <1>10, <1>11, <3>1 DEF Rows
    <3>5. row.hashes = q.fields /\ row.text = result /\ row.bad = {} BY <3>1
    <3>6. cache' = [cache EXCEPT ![q.market] = row] BY <1>1, <2>1
    <3> HIDE DEF row, q, result
    <3>7. \A m \in Markets : cache'[m] = IF m = q.market THEN row ELSE cache[m] BY <1>10, <1>13, <3>6
    <3>8. cache' \in [Markets -> Rows] BY <1>10, <1>13, <3>4, <3>6
    <3>9. ASSUME NEW m \in Markets PROVE RowOK(m)'
      <4>1. CASE m = q.market BY <3>2, <3>3, <3>5, <3>7, <4>1 DEF RowOK
      <4>2. CASE m # q.market BY <3>7, <4>2 DEF RowOK, JobsInv
      <4> QED BY <4>1, <4>2
    <3> QED BY <3>8, <3>9
  <2>2. CASE ~(~j.failed /\ PassesGate(q, bad))
    <3>1. cache' = cache BY <1>1, <2>2
    <3> QED BY <1>13, <3>1 DEF RowOK, JobsInv
  <2> QED BY <2>1, <2>2
<1>16. source' \in [Markets -> Texts] BY <1>1 DEF JobsInv
<1> QED BY <1>14, <1>15, <1>16 DEF JobsInv

-----------------------------------------------------------------------------
(* The results.                                                            *)

LEMMA JobsInit == Init => JobsInv
<1> SUFFICES ASSUME Init PROVE JobsInv OBVIOUS
<1>1. /\ source \in [Markets -> Texts] /\ cache = [m \in Markets |-> NoRow]
      /\ job = [p \in Jobs |-> Idle]
  BY DEF Init
<1>2. NoRow \in Rows BY DEF NoRow, Rows, Translations
<1> QED BY <1>1, <1>2 DEF JobsInv, RowOK

LEMMA JobsNext == JobsInv /\ [Next]_vars => JobsInv'
<1> SUFFICES ASSUME JobsInv, [Next]_vars PROVE JobsInv' OBVIOUS
<1>1. CASE \E m \in Markets, f \in FieldSet, v \in Versions : ChangeText(m, f, v)
  BY <1>1, ChangeTextStep
<1>2. ASSUME NEW p \in Jobs, NEW S \in SUBSET Markets, NEW force \in BOOLEAN, StartJob(p, S, force)
      PROVE  JobsInv'
  BY <1>2, StartJobStep
<1>3. ASSUME NEW p \in Jobs, NextField(p) \/ Retry(p) \/ CallFails(p) \/ EndCall(p) \/ Translate(p) \/ StopJob(p)
      PROVE  JobsInv'
  BY <1>3, NextFieldStep, RetryStep, CallFailsStep, EndCallStep, TranslateStep, StopJobStep
<1>4. ASSUME NEW p \in Jobs, NEW bad \in SUBSET FieldSet, Record(p, bad) PROVE JobsInv'
  BY <1>4, RecordStep
<1>5. CASE UNCHANGED vars
  <2>1. source' = source /\ cache' = cache /\ job' = job BY <1>5 DEF vars
  <2>2. \A m \in Markets : RowOK(m)' BY <2>1 DEF JobsInv, RowOK
  <2> QED BY <2>1, <2>2 DEF JobsInv
<1> QED BY <1>1, <1>2, <1>3, <1>4, <1>5 DEF Next

(* Jobs, rows and texts have the types they are read with, and a job's      *)
(* results are right as far as it has come.                                 *)
THEOREM TranslationInvariant == Spec => []JobsInv
BY JobsInit, JobsNext, PTL DEF Spec

(* Every variable keeps its type (translate_markets.run), and there is a    *)
(* result for each request of a job.                                        *)
THEOREM TypeCorrect == Spec => []TypeOK
<1>1. ASSUME JobsInv PROVE TypeOK
  <2>1. ASSUME NEW p \in Jobs, job[p] # Idle
        PROVE  /\ job[p] \in JobType /\ Len(job[p].results) = Len(job[p].selected)
    BY <1>1, <2>1 DEF JobsInv, JobOK
  <2>2. ASSUME NEW p \in Jobs, job[p] # Idle
        PROVE  job[p].results \in Results(Len(job[p].selected))
    <3>1. PICK r : r = job[p].results OBVIOUS
    <3>2. r \in Seq([FieldSet -> Translations]) /\ Len(r) = Len(job[p].selected)
      BY <2>1, <2>2, <3>1 DEF JobType
    <3> QED BY <3>1, <3>2, LenProperties DEF Results
  <2> QED BY <1>1, <2>1, <2>2 DEF TypeOK, JobsInv, JobType, Steps
<1> QED BY <1>1, TranslationInvariant, PTL

(* Whatever the batches, every text has the answer to it at its place.      *)
THEOREM BatchesAreTransparent == Spec => []BatchingIsTransparent
<1>1. ASSUME JobsInv PROVE BatchingIsTransparent
  <2> SUFFICES ASSUME NEW p \in Jobs, job[p] # Idle, job[p].step = "recording", ~job[p].failed,
                      NEW i \in DOMAIN job[p].selected, NEW f \in FieldSet
               PROVE  IF job[p].selected[i].fields[f] = 0 THEN job[p].results[i][f] = Nothing
                      ELSE <<job[p].results[i][f].market, job[p].results[i][f].field, job[p].results[i][f].version>>
                           = <<job[p].selected[i].market, f, job[p].selected[i].fields[f]>>
    BY DEF BatchingIsTransparent
  <2>1. JobOK(job[p]) BY <1>1, RunningJob
  <2>2. job[p].results[i][f] = Right(job[p].selected[i], f) BY <2>1 DEF JobOK, Filled
  <2> QED BY <2>2 DEF Right
<1> QED BY <1>1, TranslationInvariant, PTL

(* A page that shows a translation shows that of the text the market has.   *)
THEOREM PagesAreFaithful == Spec => []DisplayIsFaithful
<1>1. ASSUME JobsInv PROVE DisplayIsFaithful
  <2> SUFFICES ASSUME NEW m \in Markets, IsTranslated(m), NEW f \in FieldSet
               PROVE  /\ Shown(m, f) = IF source[m][f] = 0 THEN Nothing
                                       ELSE [market |-> m, field |-> f, version |-> source[m][f]]
                      /\ f \notin cache[m].bad
    BY DEF DisplayIsFaithful
  <2>1. cache[m] # NoRow /\ cache[m].hashes = source[m] BY DEF IsTranslated, translation_source_matches
  <2>2. RowOK(m) BY <1>1 DEF JobsInv
  <2>3. cache[m].text[f] = Right([market |-> m, fields |-> source[m]], f) /\ cache[m].bad = {}
    BY <2>1, <2>2 DEF RowOK
  <2> QED BY <2>3 DEF Shown, Right
<1> QED BY <1>1, TranslationInvariant, PTL
=============================================================================
