---------------------- MODULE AlertNotification_proofs ----------------------
(***************************************************************************)
(* What AlertNotification guarantees for every set of senders, every       *)
(* cooldown and every clock: the records of one alarm are a cooldown       *)
(* apart, and a recovery follows an alarm.                                 *)
(***************************************************************************)
EXTENDS AlertNotification, TLAPS

Steps == {"idle", "decide", "deciding", "post", "acknowledge", "acknowledging"}
Runs == [step : Steps, now : 0 .. MaxClock, decision : Decision]
Files == [evaluatedAt : 0 .. MaxClock,
          last : [state : Conditions \cup {"none"}, at : 0 .. MaxClock],
          pending : Decision, pendingAt : 0 .. MaxClock]

(* The types, one conjunct at a time.                                       *)
Typed ==
  /\ clock \in 0 .. MaxClock /\ backs \in 0 .. MaxBacks
  /\ condition \in Conditions
  /\ file \in Files
  /\ run \in [Senders -> Runs]

(* Due at a time means due at every later one: cooldowns only end.          *)
LEMMA DueLater ==
  ASSUME Typed, NEW c \in Conditions, NEW t \in Nat, NEW u \in Nat, t <= u, Due(c, t)
  PROVE  Due(c, u)
<1>1. CASE c \in Abnormal /\ file.last.state = c
  <2>1. file.last.at \in Int /\ Interval[c] \in Int
    BY <1>1, ConditionsAssumption DEF Typed, Files
  <2>2. c # "healthy" BY <1>1 DEF Abnormal
  <2>3. t - file.last.at >= Interval[c] BY <1>1, <2>2 DEF Due
  <2>4. u - file.last.at >= Interval[c] BY <2>1, <2>3
  <2> QED BY <1>1, <2>4 DEF Due
<1>2. CASE ~(c \in Abnormal /\ file.last.state = c)
  BY <1>2 DEF Due
<1> QED BY <1>1, <1>2

(* A decision keeps its types through every step.                           *)
LEMMA FreshDecision ==
  ASSUME Typed, FreshIds # {}
  PROVE  [id |-> CHOOSE i \in FreshIds : TRUE, state |-> condition] \in Decision
<1>1. (CHOOSE i \in FreshIds : TRUE) \in FreshIds OBVIOUS
<1>2. (CHOOSE i \in FreshIds : TRUE) \in Ids BY <1>1 DEF FreshIds
<1> QED BY <1>2 DEF Decision, Typed
(* What a sender holds once it has something to say.                        *)
Speaking == {"post", "acknowledge", "acknowledging"}
SpeaksADecision == \A s \in Senders : run[s].step \in Speaking => run[s].decision # NoDecision

AcceptedWasReceived ==
  \A s \in Senders : run[s].step \in {"acknowledge", "acknowledging"} => run[s].decision \in received

LEMMA TypedInit == Init => Typed
<1> SUFFICES ASSUME Init PROVE Typed OBVIOUS
<1>1. 0 \in 0 .. MaxClock /\ 0 \in 0 .. MaxBacks BY BoundsAssumption
<1>2. EmptyFile \in Files BY <1>1 DEF EmptyFile, Files, Decision
<1>3. Idle \in Runs BY <1>1 DEF Idle, Runs, Steps, Decision
<1> QED BY <1>1, <1>2, <1>3 DEF Init, Typed

LEMMA TypedStep ==
  ASSUME Typed, [Next]_vars
  PROVE  Typed'
<1> USE BoundsAssumption
<1>0. Idle \in Runs BY DEF Idle, Runs, Steps, Decision, Typed
<1>1. CASE Tick BY <1>1 DEF Tick, Typed
<1>2. CASE SetBack BY <1>2 DEF SetBack, Typed
<1>3. CASE ConditionChanges BY <1>3 DEF ConditionChanges, Typed
<1>4. ASSUME NEW s \in Senders, Start(s) PROVE Typed'
  <2>1. [Idle EXCEPT !.step = "decide", !.now = clock] \in Runs
    BY <1>0 DEF Runs, Steps, Typed
  <2> QED BY <1>4, <2>1 DEF Start, Typed
<1>5. ASSUME NEW s \in Senders, NEW before \in Steps, NEW inside \in Steps, TakeLock(s, before, inside)
      PROVE  Typed'
  BY <1>5 DEF TakeLock, Typed, Runs
<1>6. ASSUME NEW s \in Senders, Busy(s) PROVE Typed'
  BY <1>0, <1>6 DEF Busy, Typed
<1>7. ASSUME NEW s \in Senders, Decide(s) PROVE Typed'
  <2> DEFINE now == run[s].now
             fresh == [id |-> CHOOSE i \in FreshIds : TRUE, state |-> condition]
  <2>1. now \in 0 .. MaxClock BY DEF Typed, Runs
  <2>2. CASE /\ file' = [file EXCEPT !.evaluatedAt = now, !.pending = NoDecision, !.pendingAt = 0]
             /\ run' = [run EXCEPT ![s] = Idle]
    <3>0. NoDecision \in Decision /\ 0 \in 0 .. MaxClock BY <2>1 DEF Decision
    <3>1. file' \in Files BY <2>1, <2>2, <3>0 DEF Typed, Files
    <3>2. run' \in [Senders -> Runs] BY <1>0, <2>2 DEF Typed
    <3> QED BY <1>7, <3>1, <3>2 DEF Decide, Typed
  <2>3. CASE /\ run' = [run EXCEPT ![s].step = "post", ![s].decision = file.pending]
             /\ UNCHANGED file
    <3>1. file.pending \in Decision BY DEF Typed, Files
    <3>2. run' \in [Senders -> Runs] BY <2>3, <3>1 DEF Typed, Runs, Steps
    <3> QED BY <1>7, <2>3, <3>2 DEF Decide, Typed
  <2>4. CASE /\ FreshIds # {}
             /\ file' = [file EXCEPT !.evaluatedAt = now, !.pending = fresh, !.pendingAt = now]
             /\ run' = [run EXCEPT ![s].step = "post", ![s].decision = fresh]
    <3>1. fresh \in Decision BY <2>4, FreshDecision
    <3> HIDE DEF fresh
    <3>2. file' \in Files BY <2>1, <2>4, <3>1 DEF Typed, Files
    <3>3. run' \in [Senders -> Runs] BY <2>4, <3>1 DEF Typed, Runs, Steps
    <3> QED BY <1>7, <3>2, <3>3 DEF Decide, Typed
  <2> QED BY <1>7, <2>2, <2>3, <2>4 DEF Decide
<1>8. ASSUME NEW s \in Senders, PostAccepted(s) PROVE Typed'
  BY <1>8 DEF PostAccepted, Typed, Runs, Steps
<1>9. ASSUME NEW s \in Senders, AnswerLost(s) PROVE Typed'
  BY <1>0, <1>9 DEF AnswerLost, Typed
<1>10. ASSUME NEW s \in Senders, Acknowledge(s) PROVE Typed'
  <2>1. run[s].now \in 0 .. MaxClock /\ 0 \in 0 .. MaxClock BY DEF Typed, Runs
  <2>2. file.pending.state \in Conditions \cup {"none"} BY DEF Typed, Files, Decision, NoDecision
  <2>0. NoDecision \in Decision BY DEF Decision
  <2>3. file' \in Files BY <1>10, <2>0, <2>1, <2>2 DEF Acknowledge, Typed, Files
  <2>4. run' \in [Senders -> Runs] BY <1>0, <1>10 DEF Acknowledge, Typed
  <2> QED BY <1>10, <2>3, <2>4 DEF Acknowledge, Typed
<1>11. ASSUME NEW s \in Senders, RunFails(s) PROVE Typed'
  BY <1>0, <1>11 DEF RunFails, Typed
<1>12. CASE UNCHANGED vars BY <1>12 DEF vars, Typed
<1> QED
  BY <1>1, <1>2, <1>3, <1>4, <1>5, <1>6, <1>7, <1>8, <1>9, <1>10, <1>11, <1>12 DEF Next, Step, Steps
(* Decisions with one id are one decision; a fresh one stays apart.         *)
Distinct(X) == \A d, e \in X : d.id = e.id => d = e

LEMMA DistinctExtends ==
  ASSUME NEW X, X \subseteq Decision, Distinct(X),
         NEW f \in Decision, \A d \in X : d.id # f.id,
         NEW Y, Y \subseteq X \cup {NoDecision, f}
  PROVE  Distinct(Y)
<1>1. \A d \in Decision : d.id = NoDecision.id => d = NoDecision
  BY DEF Decision, NoDecision, Ids
<1>2. NoDecision \in Decision BY DEF Decision
<1> QED BY <1>1, <1>2 DEF Distinct

LEMMA DistinctShrinks ==
  ASSUME NEW X, X \subseteq Decision, Distinct(X), NEW Y, Y \subseteq X \cup {NoDecision}
  PROVE  Distinct(Y)
<1>1. \A d \in Decision : d.id = NoDecision.id => d = NoDecision
  BY DEF Decision, NoDecision, Ids
<1> QED BY <1>1 DEF Distinct

LEMMA HeldTyped == Typed => Held \subseteq Decision
BY DEF Typed, Held, Files, Runs

(* The sender's record after an assignment, the others' as they were.       *)
LEMMA RunAfter ==
  ASSUME Typed, NEW s \in Senders, NEW r, run' = [run EXCEPT ![s] = r]
  PROVE  /\ run'[s] = r
         /\ \A t \in Senders \ {s} : run'[t] = run[t]
BY DEF Typed

LEMMA HeldStep ==
  ASSUME Typed, Distinct(Held), [Next]_vars
  PROVE  Distinct(Held')
<1>0. Held \subseteq Decision BY HeldTyped
<1>1. SUFFICES ASSUME ~ \E s \in Senders : Decide(s)
               PROVE  Held' \subseteq Held \cup {NoDecision}
  <2>1. ASSUME NEW s \in Senders, Decide(s) PROVE Distinct(Held')
    <3> DEFINE now == run[s].now
               fresh == [id |-> CHOOSE i \in FreshIds : TRUE, state |-> condition]
    <3>1. CASE /\ file' = [file EXCEPT !.evaluatedAt = now, !.pending = NoDecision, !.pendingAt = 0]
               /\ run' = [run EXCEPT ![s] = Idle]
      <4>1. file'.pending = NoDecision BY <3>1 DEF Typed, Files
      <4>2. \A t \in Senders : run'[t].decision \in Held \cup {NoDecision}
        BY <3>1 DEF Typed, Held, Idle
      <4>3. Held' \subseteq Held \cup {NoDecision} BY <4>1, <4>2 DEF Held
      <4> QED BY <1>0, <4>3, DistinctShrinks
    <3>2. CASE /\ run' = [run EXCEPT ![s].step = "post", ![s].decision = file.pending]
               /\ UNCHANGED file
      <4>1. \A t \in Senders : run'[t].decision \in Held
        BY <3>2 DEF Typed, Held, Runs
      <4>2. Held' \subseteq Held \cup {NoDecision} BY <3>2, <4>1 DEF Held
      <4> QED BY <1>0, <4>2, DistinctShrinks
    <3>3. CASE /\ FreshIds # {}
               /\ file' = [file EXCEPT !.evaluatedAt = now, !.pending = fresh, !.pendingAt = now]
               /\ run' = [run EXCEPT ![s].step = "post", ![s].decision = fresh]
      <4>1. fresh \in Decision BY <3>3, FreshDecision
      <4>2. \A d \in Held : d.id # fresh.id
        <5>1. (CHOOSE i \in FreshIds : TRUE) \in FreshIds BY <3>3
        <5> QED BY <5>1 DEF FreshIds
      <4> HIDE DEF fresh
      <4>3. file'.pending = fresh BY <3>3 DEF Typed, Files
      <4>4. \A t \in Senders : run'[t].decision \in Held \cup {fresh}
        BY <3>3 DEF Typed, Held, Runs
      <4>5. Held' \subseteq Held \cup {NoDecision, fresh} BY <4>3, <4>4 DEF Held
      <4> QED BY <1>0, <4>1, <4>2, <4>5, DistinctExtends
    <3> QED BY <2>1, <3>1, <3>2, <3>3 DEF Decide
  <2> QED BY <1>0, <2>1, DistinctShrinks
<1>2. CASE UNCHANGED <<file, run>> BY <1>2 DEF Held
<1>3. ASSUME NEW s \in Senders, UNCHANGED file,
             Start(s) \/ Busy(s) \/ AnswerLost(s) \/ RunFails(s)
      PROVE  Held' \subseteq Held \cup {NoDecision}
  <2>0. PICK r : run' = [run EXCEPT ![s] = r] /\ r.decision = NoDecision
    <3>1. Idle.decision = NoDecision /\ [Idle EXCEPT !.step = "decide", !.now = clock].decision = NoDecision
      BY DEF Idle
    <3> QED BY <1>3, <3>1 DEF Start, Busy, AnswerLost, RunFails
  <2>1. \A t \in Senders : run'[t].decision \in Held \cup {NoDecision}
    BY <2>0 DEF Typed, Held
  <2> QED BY <1>3, <2>1 DEF Held
<1>4. ASSUME NEW s \in Senders, NEW before, NEW inside, TakeLock(s, before, inside)
      PROVE  Held' \subseteq Held \cup {NoDecision}
  <2>1. \A t \in Senders : run'[t].decision = run[t].decision
    BY <1>4 DEF TakeLock, Typed, Runs
  <2> QED BY <1>4, <2>1 DEF TakeLock, Held
<1>5. ASSUME NEW s \in Senders, PostAccepted(s)
      PROVE  Held' \subseteq Held \cup {NoDecision}
  <2>1. \A t \in Senders : run'[t].decision = run[t].decision
    BY <1>5 DEF PostAccepted, Typed, Runs
  <2> QED BY <1>5, <2>1 DEF PostAccepted, Held
<1>6. ASSUME NEW s \in Senders, Acknowledge(s)
      PROVE  Held' \subseteq Held \cup {NoDecision}
  <2>1. file'.pending = NoDecision BY <1>6 DEF Acknowledge, Typed, Files
  <2>2. \A t \in Senders : run'[t].decision \in Held \cup {NoDecision}
    BY <1>6 DEF Acknowledge, Typed, Held, Idle
  <2> QED BY <2>1, <2>2 DEF Held
<1>7. ASSUME NEW s \in Senders, Start(s) \/ Busy(s) \/ AnswerLost(s) \/ RunFails(s) PROVE UNCHANGED file
  BY <1>7 DEF Start, Busy, AnswerLost, RunFails
<1>8. CASE Tick \/ SetBack \/ ConditionChanges \/ UNCHANGED vars
  BY <1>2, <1>8 DEF Tick, SetBack, ConditionChanges, vars
<1> QED BY <1>1, <1>3, <1>4, <1>5, <1>6, <1>7, <1>8 DEF Next, Step
(* The last recorded notification and the pending decision change in decide *)
(* and acknowledge only.                                                    *)
Inv ==
  /\ Typed /\ Distinct(Held)
  /\ received \subseteq Decision \ {NoDecision}
  /\ SpeaksADecision /\ AcceptedWasReceived
  /\ PendingIsDue

LEMMA InvTypeOK == Inv => TypeOK
BY DEF Inv, Typed, TypeOK, Runs, Files, Steps, Distinct

LEMMA InvInit == Init => Inv
<1> SUFFICES ASSUME Init PROVE Inv OBVIOUS
<1>1. Typed BY TypedInit
<1>2. \A s \in Senders : run[s] = Idle BY DEF Init
<1>3. Held \subseteq {NoDecision} BY <1>2 DEF Init, Held, EmptyFile, Idle
<1>4. SpeaksADecision /\ AcceptedWasReceived
  BY <1>2 DEF SpeaksADecision, AcceptedWasReceived, Speaking, Idle
<1>5. PendingIsDue BY DEF Init, PendingIsDue, EmptyFile
<1> QED BY <1>1, <1>3, <1>4, <1>5 DEF Inv, Init, Distinct

(* A state the evaluator returns is not the name of no decision.            *)
LEMMA Named == \A c \in Conditions : c # "none"
BY ConditionsAssumption DEF Abnormal

(* The sender that decides or acknowledges does so between two reads of a   *)
(* file whose times have passed.                                            *)
LEMMA SpeaksStep ==
  ASSUME Inv, [Next]_vars
  PROVE  SpeaksADecision'
<1> USE DEF SpeaksADecision, Speaking
<1>0. Typed /\ SpeaksADecision BY DEF Inv
<1>1. ASSUME NEW s \in Senders, NEW r, run' = [run EXCEPT ![s] = r],
             r.step \in Speaking => r.decision # NoDecision
      PROVE  SpeaksADecision'
  BY <1>0, <1>1 DEF Typed
<1>2. ASSUME NEW s \in Senders, run' = [run EXCEPT ![s] = Idle] PROVE SpeaksADecision'
  <2>1. Idle.step = "idle" BY DEF Idle
  <2> QED BY <1>1, <1>2, <2>1
<1>3. ASSUME NEW s \in Senders, Start(s) PROVE SpeaksADecision'
  <2>1. [Idle EXCEPT !.step = "decide", !.now = clock].step = "decide" BY DEF Idle
  <2> QED BY <1>1, <1>3, <2>1 DEF Start
<1>4. ASSUME NEW s \in Senders, TakeLock(s, "decide", "deciding") PROVE SpeaksADecision'
  BY <1>0, <1>4 DEF TakeLock, Typed, Runs
<1>5. ASSUME NEW s \in Senders, TakeLock(s, "acknowledge", "acknowledging") PROVE SpeaksADecision'
  BY <1>0, <1>5 DEF TakeLock, Typed, Runs
<1>6. ASSUME NEW s \in Senders, Decide(s) PROVE SpeaksADecision'
  <2>0. condition # "none" BY <1>0, Named DEF Typed
  <2>1. ASSUME NEW d, d.state = condition, run' = [run EXCEPT ![s].step = "post", ![s].decision = d]
        PROVE  SpeaksADecision'
    <3>1. d # NoDecision BY <2>0, <2>1 DEF NoDecision
    <3> QED BY <1>0, <2>1, <3>1 DEF Typed, Runs
  <2> DEFINE fresh == [id |-> CHOOSE i \in FreshIds : TRUE, state |-> condition]
  <2>2. fresh.state = condition OBVIOUS
  <2>3. \/ run' = [run EXCEPT ![s] = Idle]
        \/ /\ file.pending.state = condition
           /\ run' = [run EXCEPT ![s].step = "post", ![s].decision = file.pending]
        \/ run' = [run EXCEPT ![s].step = "post", ![s].decision = fresh]
    BY <1>6, Zenon DEF Decide
  <2> HIDE DEF fresh
  <2> QED BY <1>2, <2>1, <2>2, <2>3, Zenon
<1>7. ASSUME NEW s \in Senders, PostAccepted(s) PROVE SpeaksADecision'
  BY <1>0, <1>7 DEF PostAccepted, Typed, Runs
<1>8. CASE UNCHANGED run BY <1>0, <1>8
<1> QED
  BY <1>2, <1>3, <1>4, <1>5, <1>6, <1>7, <1>8
  DEF Next, Step, Tick, SetBack, ConditionChanges, Busy, AnswerLost, Acknowledge, RunFails, vars
(* What each step does to the file and to what was received.                *)
LEMMA DecideChanges ==
  ASSUME Inv, NEW s \in Senders, Decide(s)
  PROVE  /\ file'.last = file.last
         /\ \/ file'.pending = NoDecision
            \/ file'.pending = file.pending /\ file'.pendingAt = file.pendingAt
            \/ /\ file'.pending.state = condition /\ file'.pendingAt = run[s].now
               /\ Due(condition, run[s].now)
<1> DEFINE now == run[s].now
           fresh == [id |-> CHOOSE i \in FreshIds : TRUE, state |-> condition]
<1>0. file \in Files BY DEF Inv, Typed
<1>1. CASE file' = [file EXCEPT !.evaluatedAt = now, !.pending = NoDecision, !.pendingAt = 0]
  BY <1>0, <1>1 DEF Files
<1>2. CASE UNCHANGED file BY <1>2
<1>3. CASE /\ file' = [file EXCEPT !.evaluatedAt = now, !.pending = fresh, !.pendingAt = now]
           /\ Due(condition, now)
  <2>1. fresh.state = condition OBVIOUS
  <2> HIDE DEF fresh
  <2>2. file'.pending = fresh /\ file'.pendingAt = now /\ file'.last = file.last
    BY <1>0, <1>3 DEF Files
  <2> QED BY <1>3, <2>1, <2>2
<1>4. \/ file' = [file EXCEPT !.evaluatedAt = now, !.pending = NoDecision, !.pendingAt = 0]
      \/ UNCHANGED file
      \/ /\ file' = [file EXCEPT !.evaluatedAt = now, !.pending = fresh, !.pendingAt = now]
         /\ Due(condition, now)
  BY Zenon DEF Decide
<1> QED BY <1>1, <1>2, <1>3, <1>4, Zenon

LEMMA AcknowledgeChanges ==
  ASSUME Inv, NEW s \in Senders, Acknowledge(s)
  PROVE  /\ file'.last = [state |-> file.pending.state, at |-> run[s].now]
         /\ file'.pending = NoDecision
         /\ file.pending # NoDecision /\ file.pending \in received
         /\ file.pendingAt <= run[s].now
<1>0. file \in Files /\ run \in [Senders -> Runs] BY DEF Inv, Typed
<1>1. run[s].decision = file.pending /\ run[s].step = "acknowledging" BY DEF Acknowledge
<1>2. file.pending # NoDecision /\ file.pending \in received
  BY <1>1 DEF Inv, SpeaksADecision, AcceptedWasReceived, Speaking
<1>3. /\ file'.last = [state |-> file.pending.state, at |-> run[s].now]
      /\ file'.pending = NoDecision
  BY <1>0 DEF Acknowledge, Files
<1>4. file.pendingAt <= run[s].now BY DEF Acknowledge, Readable
<1> QED BY <1>2, <1>3, <1>4

LEMMA OthersKeepFile ==
  ASSUME [Next]_vars, ~ \E s \in Senders : Decide(s) \/ Acknowledge(s)
  PROVE  UNCHANGED file
BY DEF Next, Step, Tick, SetBack, ConditionChanges, Start, TakeLock, Busy, PostAccepted, AnswerLost,
       RunFails, vars

LEMMA DueStep ==
  ASSUME Inv, [Next]_vars
  PROVE  PendingIsDue'
<1>1. ASSUME NEW s \in Senders, Decide(s) PROVE PendingIsDue'
  BY <1>1, DecideChanges DEF Inv, PendingIsDue, Due
<1>2. ASSUME NEW s \in Senders, Acknowledge(s) PROVE PendingIsDue'
  BY <1>2, AcknowledgeChanges DEF PendingIsDue
<1>3. CASE UNCHANGED file BY <1>3 DEF Inv, PendingIsDue, Due
<1> QED BY <1>1, <1>2, <1>3, OthersKeepFile

LEMMA ReceivedStep ==
  ASSUME Inv, [Next]_vars
  PROVE  received' \subseteq Decision \ {NoDecision} /\ AcceptedWasReceived'
<1> DEFINE A == received' \subseteq Decision \ {NoDecision}
<1>0. /\ run \in [Senders -> Runs] /\ received \subseteq Decision \ {NoDecision}
      /\ AcceptedWasReceived /\ SpeaksADecision
  BY DEF Inv, Typed
<1>1. ASSUME NEW s \in Senders, NEW r, run' = [run EXCEPT ![s] = r], received \subseteq received',
             r.step \in {"acknowledge", "acknowledging"} => r.decision \in received'
      PROVE  AcceptedWasReceived'
  BY <1>0, <1>1 DEF AcceptedWasReceived
<1>2. ASSUME NEW s \in Senders, run' = [run EXCEPT ![s] = Idle], received \subseteq received'
      PROVE  AcceptedWasReceived'
  <2>1. Idle.step = "idle" BY DEF Idle
  <2> QED BY <1>1, <1>2, <2>1
<1>3. ASSUME NEW s \in Senders, Start(s) PROVE A /\ AcceptedWasReceived'
  <2>1. [Idle EXCEPT !.step = "decide", !.now = clock].step = "decide" BY DEF Idle
  <2> QED BY <1>0, <1>1, <1>3, <2>1 DEF Start
<1>4. ASSUME NEW s \in Senders,
             TakeLock(s, "decide", "deciding") \/ TakeLock(s, "acknowledge", "acknowledging")
      PROVE  A /\ AcceptedWasReceived'
  BY <1>0, <1>4 DEF TakeLock, AcceptedWasReceived, Runs
<1>5. ASSUME NEW s \in Senders, Decide(s) PROVE A /\ AcceptedWasReceived'
  <2> DEFINE fresh == [id |-> CHOOSE i \in FreshIds : TRUE, state |-> condition]
  <2>1. CASE received' = received
    <3>1. \/ run' = [run EXCEPT ![s] = Idle]
          \/ \E d : run' = [run EXCEPT ![s].step = "post", ![s].decision = d]
      BY <1>5, Zenon DEF Decide
    <3>2. ASSUME NEW d, run' = [run EXCEPT ![s].step = "post", ![s].decision = d]
          PROVE  AcceptedWasReceived'
      BY <1>0, <2>1, <3>2 DEF AcceptedWasReceived, Runs
    <3> QED BY <1>0, <1>2, <2>1, <3>1, <3>2
  <2>2. CASE /\ FreshIds # {}
             /\ run' = [run EXCEPT ![s].step = "post", ![s].decision = fresh]
             /\ received' = {d \in received : d.id # fresh.id}
    <3>1. \A t \in Senders : run[t].decision.id # fresh.id
      <4>1. (CHOOSE i \in FreshIds : TRUE) \in FreshIds BY <2>2
      <4> QED BY <4>1 DEF FreshIds, Held
    <3> HIDE DEF fresh
    <3>2. \A t \in Senders \ {s} : run'[t] = run[t] BY <1>0, <2>2
    <3>3. run'[s].step = "post" BY <1>0, <2>2 DEF Runs
    <3>4. AcceptedWasReceived' BY <1>0, <2>2, <3>1, <3>2, <3>3 DEF AcceptedWasReceived
    <3> QED BY <1>0, <2>2, <3>4
  <2>3. \/ received' = received
        \/ /\ FreshIds # {}
           /\ run' = [run EXCEPT ![s].step = "post", ![s].decision = fresh]
           /\ received' = {d \in received : d.id # fresh.id}
    BY <1>5, Zenon DEF Decide
  <2> QED BY <2>1, <2>2, <2>3
<1>6. ASSUME NEW s \in Senders, PostAccepted(s) \/ AnswerLost(s) PROVE A /\ AcceptedWasReceived'
  <2>1. run[s].decision \in Decision \ {NoDecision}
    BY <1>0, <1>6 DEF PostAccepted, AnswerLost, SpeaksADecision, Speaking, Runs
  <2>2. A BY <1>0, <1>6, <2>1 DEF PostAccepted, AnswerLost
  <2>3. CASE AnswerLost(s) BY <1>2, <2>2, <2>3 DEF AnswerLost
  <2>4. CASE PostAccepted(s)
    <3>1. run'[s].decision = run[s].decision /\ \A t \in Senders \ {s} : run'[t] = run[t]
      BY <1>0, <2>4 DEF PostAccepted, Runs
    <3> QED BY <1>0, <2>2, <2>4, <3>1 DEF PostAccepted, AcceptedWasReceived
  <2> QED BY <1>6, <2>3, <2>4
<1>7. ASSUME NEW s \in Senders, Busy(s) \/ Acknowledge(s) \/ RunFails(s)
      PROVE  A /\ AcceptedWasReceived'
  BY <1>0, <1>2, <1>7 DEF Busy, Acknowledge, RunFails
<1>8. CASE UNCHANGED <<run, received>> BY <1>0, <1>8 DEF AcceptedWasReceived
<1> QED
  BY <1>3, <1>4, <1>5, <1>6, <1>7, <1>8 DEF Next, Step, Tick, SetBack, ConditionChanges, vars

LEMMA InvStep == Inv /\ [Next]_vars => Inv'
<1> SUFFICES ASSUME Inv, [Next]_vars PROVE Inv' OBVIOUS
<1>1. Typed' BY TypedStep DEF Inv
<1>2. Distinct(Held') BY HeldStep DEF Inv
<1> QED BY <1>1, <1>2, SpeaksStep, DueStep, ReceivedStep DEF Inv, Distinct

(* The invariant holds in every state.                                      *)
THEOREM Invariant == Spec => []Inv
BY InvInit, InvStep, PTL DEF Spec

(* Every state has its types, and the decisions known by one id are one:    *)
(* an acknowledgement never takes another decision for its own.             *)
THEOREM TypeCorrect == Spec => []TypeOK
BY Invariant, InvTypeOK, PTL

(* What is pending in the state file is still due, whatever other runs have *)
(* recorded since it was decided.                                           *)
THEOREM PendingStaysDue == Spec => []PendingIsDue
<1>1. Inv => PendingIsDue BY DEF Inv
<1> QED BY <1>1, Invariant, PTL

(* Only what the webhook has received is recorded as notified.              *)
THEOREM NothingIsLost == Spec => RecordedWasReceived
<1>1. Inv /\ [Next]_vars => [file'.last # file.last => file.pending \in received]_vars
  <2> SUFFICES ASSUME Inv, [Next]_vars, file'.last # file.last PROVE file.pending \in received
    OBVIOUS
  <2>1. PICK s \in Senders : Decide(s) \/ Acknowledge(s) BY OthersKeepFile
  <2> QED BY <2>1, DecideChanges, AcknowledgeChanges
<1> QED BY <1>1, Invariant, PTL DEF Spec, RecordedWasReceived

(* Reminders of one alarm are a cooldown apart.                             *)
THEOREM CooldownIsKept == Spec => RemindersApart
<1>1. Inv /\ [Next]_vars => [file'.last # file.last /\ file'.last.state = file.last.state
                               => file'.last.at - file.last.at >= Interval[file.last.state]]_vars
  <2> SUFFICES ASSUME Inv, [Next]_vars, file'.last # file.last, file'.last.state = file.last.state
               PROVE  file'.last.at - file.last.at >= Interval[file.last.state]
    OBVIOUS
  <2>1. PICK s \in Senders : Decide(s) \/ Acknowledge(s) BY OthersKeepFile
  <2>2. /\ file'.last = [state |-> file.pending.state, at |-> run[s].now]
        /\ file.pending # NoDecision /\ file.pendingAt <= run[s].now
    BY <2>1, DecideChanges, AcknowledgeChanges
  <2>3. /\ file.pending.state \in Conditions /\ file.pendingAt \in Nat /\ file.last.at \in Nat
        /\ run[s].now \in Nat
    BY <2>2, BoundsAssumption DEF Inv, Typed, Files, Runs, Decision
  <2>4. Due(file.last.state, file.pendingAt) BY <2>2 DEF Inv, PendingIsDue
  <2>5. file.last.state \in Abnormal BY <2>4 DEF Due, Abnormal
  <2>6. file.pendingAt - file.last.at >= Interval[file.last.state]
    BY <2>4, <2>5 DEF Due, Abnormal
  <2>7. Interval[file.last.state] \in Nat BY <2>5, ConditionsAssumption
  <2>8. file'.last.at = run[s].now BY <2>2
  <2> QED BY <2>2, <2>3, <2>6, <2>7, <2>8
<1> QED BY <1>1, Invariant, PTL DEF Spec, RemindersApart

(* A recovery is recorded after an alarm only.                              *)
THEOREM RecoveryIsEarned == Spec => RecoveryFollowsAlarm
<1>1. Inv /\ [Next]_vars => [file'.last.state = "healthy" /\ file.last.state # "healthy"
                               => file.last.state \in Abnormal]_vars
  <2> SUFFICES ASSUME Inv, [Next]_vars, file'.last.state = "healthy", file.last.state # "healthy"
               PROVE  file.last.state \in Abnormal
    OBVIOUS
  <2>1. PICK s \in Senders : Decide(s) \/ Acknowledge(s) BY OthersKeepFile
  <2>2. /\ file'.last = [state |-> file.pending.state, at |-> run[s].now]
        /\ file.pending # NoDecision
    BY <2>1, DecideChanges, AcknowledgeChanges
  <2>3. Due("healthy", file.pendingAt) BY <2>2 DEF Inv, PendingIsDue
  <2> QED BY <2>3 DEF Due, Abnormal
<1> QED BY <1>1, Invariant, PTL DEF Spec, RecoveryFollowsAlarm
=============================================================================
