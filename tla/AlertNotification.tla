------------------------- MODULE AlertNotification -------------------------
(***************************************************************************)
(* How an alarm reaches the operator: runs of an alert sender (the timer's *)
(* and manual ones) share one state file.  A run decides under a           *)
(* nonblocking lock what there is to say, posts it to a webhook without    *)
(* the lock, and under the lock again acknowledges what was accepted.      *)
(* app/sync_alert_notification_policy.py, app/sync_alert_delivery.py and   *)
(* their recovery_ twins, which differ in the conditions they know only.   *)
(***************************************************************************)
EXTENDS Integers, FiniteSets

CONSTANTS
  Senders,      \* processes that may run the sender
  Timer,        \* the one a systemd timer starts again and again
  Conditions,   \* STATES of the policy
  Interval,     \* INTERVALS: cooldown of each abnormal condition
  MaxClock,     \* bound on the time
  MaxBacks      \* bound on how often the clock is set back

Abnormal == {"warning", "critical", "check_error"}

ASSUME SendersAssumption == Timer \in Senders /\ IsFiniteSet(Senders)
ASSUME ConditionsAssumption ==
  /\ Conditions \subseteq Abnormal \cup {"healthy", "not_initialized"}
  /\ Interval \in [Abnormal -> Nat \ {0}]
ASSUME BoundsAssumption == MaxClock \in Nat /\ MaxBacks \in Nat

VARIABLES
  clock, backs,
  condition,   \* what the evaluator would return now
  file,        \* the state file
  run,         \* what each sender is doing
  received     \* decisions the webhook has received

vars == <<clock, backs, condition, file, run, received>>

-----------------------------------------------------------------------------
(* A decision's id is a hash of its time: a number no one else holds.  Its  *)
(* action follows from its state.                                           *)
Ids == 1 .. Cardinality(Senders) + 1
NoDecision == [id |-> 0, state |-> "none"]
Decision == [id : Ids, state : Conditions] \cup {NoDecision}

EmptyFile == [evaluatedAt |-> 0,
              last |-> [state |-> "none", at |-> 0],
              pending |-> NoDecision, pendingAt |-> 0]

(* The decisions someone still knows by their id.                           *)
Held == {file.pending} \cup {run[s].decision : s \in Senders}

Idle == [step |-> "idle", now |-> 0, decision |-> NoDecision]

TypeOK ==
  /\ clock \in 0 .. MaxClock /\ backs \in 0 .. MaxBacks
  /\ condition \in Conditions
  /\ file \in [evaluatedAt : 0 .. MaxClock,
               last : [state : Conditions \cup {"none"}, at : 0 .. MaxClock],
               pending : Decision, pendingAt : 0 .. MaxClock]
  /\ run \in [Senders -> [step : {"idle", "decide", "deciding", "post", "acknowledge", "acknowledging"},
                          now : 0 .. MaxClock, decision : Decision]]
  /\ received \subseteq Decision \ {NoDecision}
  /\ \A d, e \in Held : d.id = e.id => d = e

Init ==
  /\ clock = 0 /\ backs = 0
  /\ condition \in Conditions
  /\ file = EmptyFile
  /\ run = [s \in Senders |-> Idle]
  /\ received = {}

-----------------------------------------------------------------------------
(* The surroundings.                                                        *)
Tick ==
  /\ clock < MaxClock
  /\ clock' = clock + 1
  /\ UNCHANGED <<backs, condition, file, run, received>>

SetBack ==
  /\ clock > 0 /\ backs < MaxBacks
  /\ clock' = clock - 1 /\ backs' = backs + 1
  /\ UNCHANGED <<condition, file, run, received>>

ConditionChanges ==
  /\ condition' \in Conditions \ {condition}
  /\ UNCHANGED <<clock, backs, file, run, received>>

-----------------------------------------------------------------------------
(* The lock around decide and acknowledge.  Both read the clock before it.  *)
Locked == \E s \in Senders : run[s].step \in {"deciding", "acknowledging"}

Start(s) ==
  /\ run[s].step = "idle"
  /\ run' = [run EXCEPT ![s] = [Idle EXCEPT !.step = "decide", !.now = clock]]
  /\ UNCHANGED <<clock, backs, condition, file, received>>

TakeLock(s, before, inside) ==
  /\ run[s].step = before /\ ~Locked
  /\ run' = [run EXCEPT ![s].step = inside]
  /\ UNCHANGED <<clock, backs, condition, file, received>>

Busy(s) ==
  /\ run[s].step \in {"decide", "acknowledge"} /\ Locked
  /\ run' = [run EXCEPT ![s] = Idle]
  /\ UNCHANGED <<clock, backs, condition, file, received>>

(* A state file with a time still to come is a state_error.                 *)
Readable(now) == {file.evaluatedAt, file.last.at, file.pendingAt} \subseteq 0 .. now

Due_recovery_slip(state, now) ==
  \/ state \in Abnormal /\ (file.last.state = state => now - file.last.at >= Interval[state])
  \/ state = "healthy"

Due_critical_slip(state, now) ==
  \/ state \in Abnormal /\ (file.last.state = state => now - file.last.at >= Interval[state])
  \/ state = "healthy" /\ file.last.state = "critical"

(* _action_for: an alarm again when its cooldown is over, a recovery after  *)
(* an alarm.                                                                *)
Due(state, now) ==
  \/ state \in Abnormal /\ (file.last.state = state => now - file.last.at >= Interval[state])
  \/ state = "healthy" /\ file.last.state \in Abnormal

(* There is always one: the senders and the file hold one id each.          *)
FreshIds == {i \in Ids : \A d \in Held : d.id # i}

(* decide, in the lock: nothing to say clears what is pending, a decision   *)
(* still pending is returned as it is, another one replaces it.             *)
Decide(s) ==
  LET now == run[s].now
      fresh == [id |-> CHOOSE i \in FreshIds : TRUE, state |-> condition]
      Say(d) == run' = [run EXCEPT ![s].step = "post", ![s].decision = d]
  IN /\ run[s].step = "deciding" /\ Readable(now)
     /\ \/ /\ ~Due(condition, now)
           /\ file' = [file EXCEPT !.evaluatedAt = now, !.pending = NoDecision, !.pendingAt = 0]
           /\ run' = [run EXCEPT ![s] = Idle]
           /\ UNCHANGED received
        \/ /\ Due(condition, now) /\ file.pending.state = condition
           /\ Say(file.pending)
           /\ UNCHANGED <<file, received>>
        \/ /\ Due(condition, now) /\ file.pending.state # condition /\ FreshIds # {}
           /\ file' = [file EXCEPT !.evaluatedAt = now, !.pending = fresh, !.pendingAt = now]
           /\ Say(fresh)
           /\ received' = {d \in received : d.id # fresh.id}
     /\ UNCHANGED <<clock, backs, condition>>

(* client.post, answered with a 2xx status.                                 *)
PostAccepted(s) ==
  /\ run[s].step = "post"
  /\ received' = received \cup {run[s].decision}
  /\ run' = [run EXCEPT ![s].step = "acknowledge", ![s].now = clock]
  /\ UNCHANGED <<clock, backs, condition, file>>

(* The webhook has it but its answer is late, lost or not a 2xx.            *)
AnswerLost(s) ==
  /\ run[s].step = "post"
  /\ received' = received \cup {run[s].decision}
  /\ run' = [run EXCEPT ![s] = Idle]
  /\ UNCHANGED <<clock, backs, condition, file>>

Acknowledge_slip(s) ==
  /\ run[s].step = "acknowledging" /\ Readable(run[s].now)
  /\ run[s].decision = file.pending
  /\ file' = [file EXCEPT !.last = [state |-> file.pending.state, at |-> run[s].now]]
  /\ run' = [run EXCEPT ![s] = Idle]
  /\ UNCHANGED <<clock, backs, condition, received>>

(* acknowledge, in the lock: only what is still pending.                    *)
Acknowledge(s) ==
  LET now == run[s].now
  IN /\ run[s].step = "acknowledging" /\ Readable(now)
     /\ run[s].decision = file.pending
     /\ file' = [file EXCEPT !.last = [state |-> file.pending.state, at |-> now],
                             !.pending = NoDecision, !.pendingAt = 0]
     /\ run' = [run EXCEPT ![s] = Idle]
     /\ UNCHANGED <<clock, backs, condition, received>>

RunFails_slip(s) ==
  /\ run[s].step # "idle"
  /\ run' = [run EXCEPT ![s] = IF @.step = "post" THEN [@ EXCEPT !.step = "acknowledge", !.now = clock]
                              ELSE Idle]
  /\ UNCHANGED <<clock, backs, condition, file, received>>

(* A run that ends with the file as it was: killed at any step (the service *)
(* has 30 seconds), a post that never arrived, a file it may not read or    *)
(* cannot replace, a decision no longer pending.                            *)
RunFails(s) ==
  /\ run[s].step # "idle"
  /\ run' = [run EXCEPT ![s] = Idle]
  /\ UNCHANGED <<clock, backs, condition, file, received>>

Step(s) ==
  \/ TakeLock(s, "decide", "deciding") \/ TakeLock(s, "acknowledge", "acknowledging")
  \/ Busy(s) \/ Decide(s) \/ PostAccepted(s) \/ AnswerLost(s) \/ Acknowledge(s) \/ RunFails(s)

Next ==
  \/ Tick \/ SetBack \/ ConditionChanges
  \/ \E s \in Senders : Start(s) \/ Step(s)

Spec == Init /\ [][Next]_vars

(* Time goes on, a started run ends, the timer starts its service again     *)
(* and again, and a webhook and a lock that are free again and again are    *)
(* got at last.                                                             *)
Fairness ==
  /\ WF_vars(Tick) /\ WF_vars(Start(Timer))
  /\ \A s \in Senders : WF_vars(Step(s))
  /\ SF_vars(TakeLock(Timer, "decide", "deciding")) /\ SF_vars(Decide(Timer))
  /\ SF_vars(PostAccepted(Timer))
  /\ SF_vars(TakeLock(Timer, "acknowledge", "acknowledging")) /\ SF_vars(Acknowledge(Timer))

FairSpec == Spec /\ Fairness

-----------------------------------------------------------------------------
(* Properties.                                                             *)

(* What the file records as notified, the webhook has received.             *)
RecordedWasReceived == [][file'.last # file.last => file.pending \in received]_vars

(* What is pending is still due: nothing recorded since it was decided has  *)
(* overtaken it.                                                            *)
PendingIsDue == file.pending # NoDecision => Due(file.pending.state, file.pendingAt)

(* Two records of the same alarm are a cooldown apart, however the runs     *)
(* interleave and whatever time each of them has read.                      *)
RemindersApart ==
  [][file'.last # file.last /\ file'.last.state = file.last.state
       => file'.last.at - file.last.at >= Interval[file.last.state]]_vars

(* A recovery is announced only to one who knows of an alarm.               *)
RecoveryFollowsAlarm ==
  [][file'.last.state = "healthy" /\ file.last.state # "healthy" => file.last.state \in Abnormal]_vars

(* A condition that stays is told: the record of the last notification      *)
(* comes to agree with it, through lost answers, killed runs, a busy lock   *)
(* and a clock set back.                                                    *)
Told(c) == IF c \in Abnormal THEN file.last.state = c
           ELSE c = "healthy" => file.last.state \notin Abnormal
EventuallyTold == \A c \in Conditions : <>[](condition = c) => <>[]Told(c)
=============================================================================
