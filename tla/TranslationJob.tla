--------------------------- MODULE TranslationJob ---------------------------
(***************************************************************************)
(* The translation of market texts (scripts/translate_markets.py,          *)
(* app/translation.py): a job reads markets, has a provider translate      *)
(* their fields batch by batch, judges the answers and stores those that   *)
(* pass, while the markets' texts go on changing and other jobs run.       *)
(*                                                                         *)
(* A text is known by its market, field and version, which is also what a  *)
(* hash of it tells.  What masking, markers and wording come to is the     *)
(* provider's choice: a translation is good, or the quality gate objects   *)
(* to it, which is chosen where the gate is, or it cannot be restored and  *)
(* the call fails.  The provider and its model are configured once; dry    *)
(* runs and the counters are left out.                                     *)
(***************************************************************************)
EXTENDS Integers, Sequences, FiniteSets

CONSTANTS
  Jobs,
  Markets,      \* numbers; markets are listed in their order
  Fields,       \* the translated fields, in the order they are sent
  Versions,     \* versions of a field's text; version 0 is an empty text
  BatchSize,
  MaxRetries,   \* of Azure; 1 for the local model on a GPU, 0 on the CPU
  EachBatch     \* Azure repeats every batch so often, the local model
                \* gives up the GPU for the CPU once in a job

ASSUME TranslationAssumption ==
  /\ Markets \subseteq Nat /\ IsFiniteSet(Markets)
  /\ Fields \in Seq(STRING) /\ Fields # <<>>
  /\ Versions \subseteq Nat /\ IsFiniteSet(Versions)
  /\ BatchSize \in Nat \ {0} /\ MaxRetries \in Nat /\ EachBatch \in BOOLEAN

VARIABLES
  source,   \* the texts of table markets: a version per field
  cache,    \* market_translations of the target language
  job

vars == <<source, cache, job>>

FieldSet == {Fields[i] : i \in DOMAIN Fields}
Texts == [FieldSet -> Versions]          \* and market_source_hashes

(* A translation names the text it translates.                              *)
Nothing == [market |-> 0, field |-> "", version |-> 0]
Translations ==
  {Nothing} \cup [market : Markets, field : FieldSet, version : Versions]

(* A row keeps the hashes, the translations and the fields that are bad.    *)
NoRow == [hashes |-> [f \in FieldSet |-> 0], text |-> [f \in FieldSet |-> Nothing], bad |-> {}]
Rows == [hashes : Texts \cup {NoRow.hashes}, text : [FieldSet -> Translations], bad : SUBSET FieldSet]

(* A job's list, what the provider returned for it so far, the field and    *)
(* the batch it is at, and what the provider may still repeat.              *)
Idle == [step |-> "idle"]
Request == [market : Markets, fields : Texts]
Results(n) == [1 .. n -> [FieldSet -> Translations]]

TypeOK ==
  /\ source \in [Markets -> Texts]
  /\ cache \in [Markets -> Rows]
  /\ \A p \in Jobs : job[p] # Idle =>
       /\ job[p].step \in {"calling", "recording"}
       /\ job[p].selected \in Seq(Request)
       /\ job[p].results \in Results(Len(job[p].selected))
       /\ job[p].field \in 1 .. Len(Fields) + 1 /\ job[p].start \in Nat
       /\ job[p].retries \in 0 .. MaxRetries
       /\ job[p].failed \in BOOLEAN

Init ==
  /\ source \in [Markets -> Texts]
  /\ cache = [m \in Markets |-> NoRow]
  /\ job = [p \in Jobs |-> Idle]

-----------------------------------------------------------------------------
(* Definitions whose name ends in _slip are the next one with a plausible   *)
(* mistake; nothing uses them.                                              *)

(* A sync or a refresh changes a text.                                      *)
ChangeText(m, f, v) ==
  /\ source' = [source EXCEPT ![m][f] = v]
  /\ UNCHANGED <<cache, job>>

translation_source_matches(m) == cache[m].hashes = source[m]

IsTranslated(m) == cache[m] # NoRow /\ translation_source_matches(m)

HasText(m) == \E f \in FieldSet : source[m][f] # 0

InOrder(S) == CHOOSE s \in [1 .. Cardinality(S) -> S] :
                \A i, j \in DOMAIN s : i < j => s[i] < s[j]

(* run, up to the call: the limit leaves some markets out, an empty or a    *)
(* translated one is skipped, unless the job is told to force it.           *)
StartJob(p, S, force) ==
  LET wanted == {m \in S : HasText(m) /\ (force \/ ~IsTranslated(m))}
      list   == InOrder(wanted)
      n      == Cardinality(wanted)
  IN /\ job[p] = Idle
     /\ wanted # {}
     /\ job' = [job EXCEPT ![p] =
          [step |-> "calling", selected |-> [i \in 1 .. n |-> [market |-> list[i], fields |-> source[list[i]]]],
           results |-> [i \in 1 .. n |-> [f \in FieldSet |-> Nothing]],
           field |-> 1, start |-> 0, retries |-> MaxRetries, failed |-> FALSE]]
     /\ UNCHANGED <<source, cache>>

-----------------------------------------------------------------------------
(* translate_batch: one field after the other, and of each the texts that   *)
(* are not empty, BatchSize at a time.                                      *)
Calling(p) == job[p].step = "calling"
CurrentField(p) == Fields[job[p].field]
Positions(p) ==
  LET s == job[p].selected
  IN InOrder({i \in DOMAIN s : s[i].fields[CurrentField(p)] # 0})

AtField(p) == Calling(p) /\ job[p].field <= Len(Fields)

(* The places in the results of the texts of this batch.                    *)
Batch_slip(p) == {i \in 1 .. Len(Positions(p)) : i > job[p].start /\ i <= job[p].start + BatchSize}

Batch(p) ==
  {Positions(p)[i] : i \in {j \in DOMAIN Positions(p) :
                              j > job[p].start /\ j <= job[p].start + BatchSize}}

NextField(p) ==
  /\ AtField(p) /\ job[p].start >= Len(Positions(p))
  /\ job' = [job EXCEPT ![p].field = @ + 1, ![p].start = 0]
  /\ UNCHANGED <<source, cache>>

(* The texts that are sent: those of the batch, with the dates, amounts and  *)
(* outcomes in them masked by markers.                                      *)
Sent(p) ==
  {Positions(p)[i] : i \in {j \in DOMAIN Positions(p) :
                              j > job[p].start /\ j <= job[p].start + BatchSize}}

(* What the i-th text becomes, once every marker is found in it exactly     *)
(* once and has been replaced.                                              *)
Answer(p, i) ==
  LET r == job[p].selected[i]
  IN [market |-> r.market, field |-> CurrentField(p), version |-> r.fields[CurrentField(p)]]

Waiting(p) == AtField(p) /\ job[p].start < Len(Positions(p))

(* The local model has one fallback in a job, from the GPU to the CPU, on   *)
(* which it stays; Azure may be asked as often again for the next batch.    *)
RetriesLeft(p) == IF EachBatch THEN MaxRetries ELSE job[p].retries

(* The results with this batch answered, the n-th answer for the n-th text  *)
(* sent, and put at the places the texts came from.                         *)
Answered(p) ==
  LET answer == InOrder(Sent(p))
      place  == InOrder(Batch(p))
      of(i)  == Answer(p, answer[CHOOSE n \in DOMAIN place : place[n] = i])
  IN [i \in DOMAIN job[p].results |->
        IF i \in Batch(p) THEN [job[p].results[i] EXCEPT ![CurrentField(p)] = of(i)]
        ELSE job[p].results[i]]

Translate(p) ==
  /\ Waiting(p)
  /\ job' = [job EXCEPT ![p].results = Answered(p),
                        ![p].start = @ + BatchSize,
                        ![p].retries = RetriesLeft(p)]
  /\ UNCHANGED <<source, cache>>

(* A timeout, a lost connection or a status of _retry_statuses is tried     *)
(* again; a GPU that fails is given up.                                     *)
Retry(p) ==
  /\ Waiting(p)
  /\ job[p].retries > 0
  /\ job' = [job EXCEPT ![p].retries = @ - 1]
  /\ UNCHANGED <<source, cache>>

(* The provider's own state is of no more use.                              *)
Recording(selected, results, failed) ==
  [step |-> "recording", selected |-> selected, results |-> results,
   field |-> 1, start |-> 0, retries |-> 0, failed |-> failed]

(* Out of retries, any other error, or an answer that is no list of so many *)
(* texts with all their markers: the call of the whole job has failed.      *)
CallFails(p) ==
  /\ Waiting(p)
  /\ job' = [job EXCEPT ![p] =
       Recording(@.selected, [i \in DOMAIN @.results |-> [f \in FieldSet |-> Nothing]], TRUE)]
  /\ UNCHANGED <<source, cache>>

EndCall(p) ==
  /\ Calling(p) /\ job[p].field > Len(Fields)
  /\ job' = [job EXCEPT ![p] = Recording(@.selected, @.results, @.failed)]
  /\ UNCHANGED <<source, cache>>

-----------------------------------------------------------------------------
(* Each market is recorded in a transaction of its own.                     *)
(* _quality_result: no field with a text has an issue.                      *)
PassesGate(r, bad) == \A f \in FieldSet : r.fields[f] # 0 => f \notin bad

(* translation_quality_issues, of each text that is not empty: any of them  *)
(* may have lost a number, a negation, a date or its language.              *)
Objections(r) == SUBSET {f \in FieldSet : r.fields[f] # 0}

Hashes_slip(r) == source[r.market]

Hashes(r) == r.fields     \* of the market as it was read

(* record_translation_evaluation; the attempt itself is left out.           *)
Record(p, bad) ==
  LET r      == Head(job[p].selected)
      result == Head(job[p].results)
      rest   == [job[p] EXCEPT !.selected = Tail(@), !.results = Tail(@)]
  IN /\ job[p].step = "recording"
     /\ bad \in Objections(r)
     /\ cache' = IF ~job[p].failed /\ PassesGate(r, bad)
                 THEN [cache EXCEPT ![r.market] = [hashes |-> Hashes(r), text |-> result, bad |-> bad]]
                 ELSE cache
     /\ job' = [job EXCEPT ![p] = IF rest.selected = <<>> THEN Idle ELSE rest]
     /\ UNCHANGED source

(* The process dies, or the database fails: the rest is not recorded.       *)
StopJob(p) ==
  /\ job[p] # Idle
  /\ job' = [job EXCEPT ![p] = Idle]
  /\ UNCHANGED <<source, cache>>

Next ==
  \/ \E m \in Markets, f \in FieldSet, v \in Versions : ChangeText(m, f, v)
  \/ \E p \in Jobs :
       \/ \E S \in SUBSET Markets, force \in BOOLEAN : StartJob(p, S, force)
       \/ NextField(p) \/ Retry(p) \/ CallFails(p) \/ EndCall(p)
       \/ Translate(p) \/ StopJob(p)
       \/ \E bad \in SUBSET FieldSet : Record(p, bad)

Spec == Init /\ [][Next]_vars

-----------------------------------------------------------------------------
(* Properties.                                                             *)

(* When the provider is done, every text that is not empty has the answer   *)
(* to it at its place, and every empty one has none, whatever the batches   *)
(* and the empty texts between them.                                        *)
BatchingIsTransparent ==
  \A p \in Jobs : job[p] # Idle /\ job[p].step = "recording" /\ ~job[p].failed =>
    \A i \in DOMAIN job[p].selected, f \in FieldSet :
      LET r == job[p].selected[i]
          t == job[p].results[i][f]
      IN IF r.fields[f] = 0 THEN t = Nothing
         ELSE <<t.market, t.field, t.version>> = <<r.market, f, r.fields[f]>>

(* What add_translation_display shows.                                      *)
Shown(m, f) ==
  IF IsTranslated(m) /\ cache[m].text[f] # Nothing THEN cache[m].text[f] ELSE Nothing

(* A page that shows a translation shows good translations of the texts the *)
(* market has now, in all its fields, however late the job is that stored   *)
(* it.                                                                      *)
DisplayIsFaithful ==
  \A m \in Markets : IsTranslated(m) =>
    \A f \in FieldSet :
      /\ Shown(m, f) = IF source[m][f] = 0 THEN Nothing
                       ELSE [market |-> m, field |-> f, version |-> source[m][f]]
      /\ f \notin cache[m].bad
=============================================================================
