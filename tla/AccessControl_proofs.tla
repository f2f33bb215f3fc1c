------------------------- MODULE AccessControl_proofs -------------------------
(***************************************************************************)
(* What AuditChain and AccessControl guarantee for every number of         *)
(* connections and sessions, every legacy chain and every rate limit.      *)
(***************************************************************************)
EXTENDS AccessControl, UnitSum_proofs, SequenceTheorems

-----------------------------------------------------------------------------
(* The chain.                                                              *)

AllHashed(s) == \A k \in DOMAIN s : Hashed(s[k])

(* A chain that is hashed throughout continues from its last event.         *)
LEMMA LatestOfHashed ==
  ASSUME NEW s \in Seq(Event), AllHashed(s)
  PROVE  Latest(s) = Len(s)
<1>0. Len(s) \in Nat OBVIOUS
<1>1. Len(s) \in Nat /\ DOMAIN s = 1 .. Len(s) OBVIOUS
<1>2. Len(s) \in 0 .. Len(s) /\ IsLatest(s, Len(s)) BY <1>1 DEF IsLatest, AllHashed
<1>3. ASSUME NEW k \in 0 .. Len(s), IsLatest(s, k) PROVE k = Len(s)
  <2>1. CASE k < Len(s)
    <3>1. Len(s) \in k + 1 .. Len(s) /\ Len(s) \in DOMAIN s BY <1>1, <2>1
    <3> QED BY <1>3, <3>1 DEF IsLatest, AllHashed
  <2> QED BY <1>0, <1>3, <2>1
<1>4. Latest(s) \in 0 .. Len(s) /\ IsLatest(s, Latest(s)) BY <1>1, <1>2, Zenon DEF Latest
<1> QED BY <1>3, <1>4

(* So an event of it is broken when it does not link to the one before it.  *)
LEMMA BrokenOfHashed ==
  ASSUME NEW s \in Seq(Event), AllHashed(s)
  PROVE  Broken(s) = {k \in DOMAIN s : s[k].link # k - 1}
<1>1. ASSUME NEW k \in DOMAIN s PROVE Latest(SubSeq(s, 1, k - 1)) = k - 1
  <2> DEFINE t == SubSeq(s, 1, k - 1)
  <2>1. k \in 1 .. Len(s) /\ \A i \in 1 .. k - 1 : s[i] \in Event BY <1>1
  <2>2. t \in Seq(Event) /\ Len(t) = k - 1 BY <2>1, SubSeqProperties
  <2>3. \A i \in 1 .. k - 1 : t[i] = s[i] BY <2>1, SubSeqProperties
  <2>4. DOMAIN t = 1 .. k - 1 BY <2>2
  <2> HIDE DEF t
  <2>5. AllHashed(t) BY <2>1, <2>3, <2>4 DEF AllHashed
  <2> QED BY <2>2, <2>5, LatestOfHashed DEF t
<1> QED BY <1>1 DEF Broken, AllHashed

(* What verify_audit_chain finds first is not an event of a transaction.    *)
Sound(s) == AllHashed(s) /\ \A k \in DOMAIN s : FirstBroken(s, k) => ~s[k].locked

(* An event that links to the last one, or is not locked, keeps it so.      *)
LEMMA AddedIsSound ==
  ASSUME NEW s \in Seq(Event), Sound(s), NEW link \in Nat, NEW locked \in BOOLEAN,
         locked => link = Len(s)
  PROVE  Added(s, link, locked) \in Seq(Event) /\ Sound(Added(s, link, locked))
<1> DEFINE e == [link |-> link, locked |-> locked]
           t == Append(s, e)
<1>1. e \in Event /\ Hashed(e) BY DEF Event, Hashed, Unhashed
<1>2. e.link = link /\ e.locked = locked OBVIOUS
<1> HIDE DEF e
<1>3. t \in Seq(Event) /\ Len(t) = Len(s) + 1 /\ t[Len(s) + 1] = e /\ \A k \in DOMAIN s : t[k] = s[k]
  BY <1>1
<1> HIDE DEF t
<1>4. /\ \A k \in DOMAIN t : k \in DOMAIN s \/ k = Len(s) + 1
      /\ \A k \in DOMAIN s : k \in DOMAIN t
      /\ Len(s) + 1 \in DOMAIN t /\ Len(s) \in Nat
  <2> DEFINE n == Len(s)
  <2>1. DOMAIN s = 1 .. n /\ n \in Nat OBVIOUS
  <2>2. DOMAIN t = 1 .. n + 1 BY <1>3
  <2> HIDE DEF n
  <2>3. /\ \A k \in DOMAIN t : k \in DOMAIN s \/ k = n + 1
        /\ \A k \in DOMAIN s : k \in DOMAIN t
        /\ n + 1 \in DOMAIN t /\ n \in Nat BY <2>1, <2>2
  <2> QED BY <2>3 DEF n
<1>5. AllHashed(t)
  <2>1. ASSUME NEW k \in DOMAIN t PROVE Hashed(t[k])
    <3>1. k \in DOMAIN s \/ k = Len(s) + 1 BY <1>4, <2>1
    <3>2. k \in DOMAIN s => Hashed(s[k]) BY DEF Sound, AllHashed
    <3> QED BY <1>1, <1>3, <3>1, <3>2
  <2> QED BY <2>1 DEF AllHashed
<1>6. /\ Broken(s) = {k \in DOMAIN s : s[k].link # k - 1}
      /\ Broken(t) = {k \in DOMAIN t : t[k].link # k - 1}
  BY <1>3, <1>5, BrokenOfHashed DEF Sound
<1>7. ASSUME NEW k \in DOMAIN t, FirstBroken(t, k) PROVE ~t[k].locked
  <2>1. CASE k = Len(s) + 1
    <3>0. k \in Broken(t) BY <1>7 DEF FirstBroken
    <3>1. link # Len(s) BY <1>2, <1>3, <1>4, <1>6, <2>1, <3>0
    <3> QED BY <1>2, <1>3, <2>1, <3>1
  <2>2. CASE k \in DOMAIN s
    <3>1. \A j \in Broken(s) : j \in Broken(t) BY <1>3, <1>4, <1>6
    <3>2. k \in Broken(s) BY <1>3, <1>6, <1>7, <2>2 DEF FirstBroken
    <3>3. FirstBroken(s, k) BY <1>7, <3>1, <3>2 DEF FirstBroken
    <3> QED BY <1>3, <2>2, <3>3 DEF Sound
  <2> QED BY <1>4, <1>7, <2>1, <2>2
<1>8. Added(s, link, locked) = t BY DEF Added, t, e
<1> QED BY <1>3, <1>5, <1>7, <1>8 DEF Sound

(* The migration leaves a sound chain, whatever it accepted.                *)
LEMMA MigratedIsSound ==
  ASSUME NEW s \in Seq(Event), CanMigrate(s)
  PROVE  Backfilled(s) \in Seq(Event) /\ Sound(Backfilled(s))
<1>1. CASE s = <<>>
  BY <1>1 DEF Backfilled, Sound, AllHashed
<1>2. CASE s # <<>> /\ ~FullyLegacy(s)
  <2>1. verify_audit_chain(s) = "verified" BY <1>2 DEF CanMigrate
  <2>2. Broken(s) = {} /\ AllHashed(s)
    BY <1>2, <2>1 DEF verify_audit_chain, AllHashed
  <2> QED BY <1>2, <2>2 DEF Backfilled, Sound, FirstBroken
<1>3. CASE s # <<>> /\ FullyLegacy(s)
  <2> DEFINE n == Len(s) + 1
             t == [k \in 1 .. n |-> [link |-> k - 1, locked |-> TRUE]]
  <2>1. Backfilled(s) = t BY <1>3 DEF Backfilled
  <2>2. n \in Nat OBVIOUS
  <2> HIDE DEF n
  <2>3. \A k \in 1 .. n : [link |-> k - 1, locked |-> TRUE] \in Event BY <2>2 DEF Event
  <2>4. t \in [1 .. n -> Event] BY <2>3
  <2>5. t \in Seq(Event) BY <2>2, <2>4, SeqDef
  <2>6. \A k \in DOMAIN t : Hashed(t[k]) /\ t[k].link = k - 1 BY <2>2 DEF Hashed, Unhashed
  <2> HIDE DEF t
  <2>7. AllHashed(t) BY <2>6 DEF AllHashed
  <2>8. Broken(t) = {} BY <2>5, <2>6, <2>7, BrokenOfHashed
  <2> QED BY <2>1, <2>5, <2>7, <2>8 DEF Sound, FirstBroken
<1> QED BY <1>1, <1>2, <1>3

-----------------------------------------------------------------------------
(* The invariant.  Nobody works before the migration; a transaction holds   *)
(* the write lock from its first write on, so that what it read of the      *)
(* chain is still its end when it commits; and the chain is sound.          *)
Holding == {"locked", "append"}

Typed ==
  /\ work = [w \in Workers |-> work[w]]
  /\ version \in {0, 1} /\ events \in Seq(Event)

NobodyBeforeMigration == \A w \in Workers : work[w].step # "down" => version = 1

HoldersHaveTheLock == \A w \in Workers : work[w].step \in Holding => lock = w

TailsAreKnown ==
  \A w \in Workers :
    /\ work[w].step = "append" => work[w].tail = Len(events)
    /\ work[w].step = "noting" => work[w].tail \in Nat

SoundAfterMigration == version = 1 => Sound(events)

Invariant ==
  /\ Typed /\ NobodyBeforeMigration /\ HoldersHaveTheLock
  /\ TailsAreKnown /\ SoundAfterMigration

LEMMA InvariantInit == Init => Invariant
BY AccessAssumption DEF Init, Invariant, Typed, NobodyBeforeMigration, HoldersHaveTheLock, TailsAreKnown,
   SoundAfterMigration, Down, Holding

(* A step that leaves the chain alone, and the one process it is about in   *)
(* a state without a transaction or with one it holds the lock for.         *)
LEMMA QuietStep ==
  ASSUME Invariant, NEW w \in Workers, NEW state, Goes(w, state),
         UNCHANGED <<version, events>>,
         state.step # "down" => version = 1,
         state.step \in Holding => lock' = w /\ \A u \in Workers \ {w} : work[u].step \notin Holding,
         state.step \notin Holding => lock' = lock \/ lock = w,
         state.step = "append" => state.tail = Len(events),
         state.step = "noting" => state.tail \in Nat
  PROVE  Invariant'
<1>1. work' = [u \in Workers |-> IF u = w THEN state ELSE work[u]]
  BY DEF Goes, Invariant, Typed
<1>2. Typed' BY <1>1 DEF Invariant, Typed
<1>3. NobodyBeforeMigration' BY <1>1 DEF Invariant, NobodyBeforeMigration
<1>4. HoldersHaveTheLock' BY <1>1 DEF Invariant, HoldersHaveTheLock
<1>5. TailsAreKnown' BY <1>1 DEF Invariant, TailsAreKnown
<1>6. SoundAfterMigration' BY DEF Invariant, SoundAfterMigration
<1> QED BY <1>2, <1>3, <1>4, <1>5, <1>6 DEF Invariant

(* A step that writes the chain while nobody else has a transaction open.   *)
LEMMA WritingStep ==
  ASSUME Invariant, NEW w \in Workers, NEW state, Goes(w, state),
         state.step \notin Holding \cup {"noting"},
         lock = w \/ lock \notin Workers, version' = 1,
         events' \in Seq(Event), Sound(events')
  PROVE  Invariant'
<1>1. work' = [u \in Workers |-> IF u = w THEN state ELSE work[u]]
  BY DEF Goes, Invariant, Typed
<1>2. \A u \in Workers : work'[u].step \notin Holding
  BY <1>1 DEF Invariant, HoldersHaveTheLock
<1>3. TailsAreKnown' BY <1>1, <1>2 DEF Invariant, TailsAreKnown, Holding
<1> QED
  BY <1>1, <1>2, <1>3 DEF Invariant, Typed, NobodyBeforeMigration, HoldersHaveTheLock, SoundAfterMigration

(* What a process knows of the chain it is about to write.                  *)
LEMMA WriterKnows ==
  ASSUME Invariant, NEW w \in Workers, work[w].step # "down"
  PROVE  /\ version = 1 /\ events \in Seq(Event) /\ Sound(events)
         /\ Latest(events) = Len(events) /\ Len(events) \in Nat
<1>1. version = 1 /\ events \in Seq(Event) /\ Sound(events)
  BY DEF Invariant, Typed, NobodyBeforeMigration, SoundAfterMigration
<1> QED BY <1>1, LatestOfHashed DEF Sound

LEMMA StartKeeps ==
  ASSUME Invariant, NEW w \in Workers, StartProcess(w)
  PROVE  Invariant'
<1>1. events' \in Seq(Event) /\ Sound(events')
  <2>1. CASE version = 0
    BY <2>1, MigratedIsSound DEF StartProcess, Invariant, Typed
  <2>2. CASE version = 1
    BY <2>2 DEF StartProcess, Invariant, Typed, SoundAfterMigration
  <2> QED BY <2>1, <2>2 DEF Invariant, Typed
<1>2. Idle.step \notin Holding \cup {"noting"} BY DEF Idle, Holding
<1> QED BY <1>1, <1>2, WritingStep, AccessAssumption DEF StartProcess, LockFree

LEMMA NoteKeeps ==
  ASSUME Invariant, NEW w \in Workers, InsertNote(w)
  PROVE  Invariant'
<1>1. version = 1 /\ events \in Seq(Event) /\ Sound(events)
  BY WriterKnows DEF InsertNote
<1>2. work[w].tail \in Nat BY DEF InsertNote, Invariant, TailsAreKnown
<1>3. events' \in Seq(Event) /\ Sound(events')
  BY <1>1, <1>2, AddedIsSound DEF InsertNote
<1>4. Idle.step \notin Holding \cup {"noting"} BY DEF Idle, Holding
<1> QED BY <1>1, <1>3, <1>4, WritingStep, AccessAssumption DEF InsertNote, LockFree

LEMMA CommitKeeps ==
  ASSUME Invariant, NEW w \in Workers, Commit(w)
  PROVE  Invariant'
<1> DEFINE tail == work[w].tail
           first == Added(events, tail, TRUE)
<1>0. lock = w /\ tail = Len(events) BY DEF Commit, Invariant, HoldersHaveTheLock, TailsAreKnown, Holding
<1>1. version' = 1 /\ version = 1 /\ events \in Seq(Event) /\ Sound(events) /\ Len(events) \in Nat
  BY WriterKnows DEF Commit
<1>2. first \in Seq(Event) /\ Sound(first)
  BY <1>0, <1>1, AddedIsSound
<1> HIDE DEF first
<1>3. Latest(first) = Len(first) /\ Len(first) \in Nat
  BY <1>2, LatestOfHashed DEF Sound
<1>4. Added(first, Latest(first), TRUE) \in Seq(Event) /\ Sound(Added(first, Latest(first), TRUE))
  BY <1>2, <1>3, AddedIsSound
<1>5. ASSUME NEW state, Goes(w, state), state.step \notin Holding \cup {"noting"},
             events' \in {events, first, Added(first, Latest(first), TRUE)}
      PROVE  Invariant'
  <2>1. events' \in Seq(Event) /\ Sound(events') BY <1>1, <1>2, <1>4, <1>5
  <2> QED BY <1>0, <1>1, <1>5, <2>1, WritingStep
<1>6. Idle.step \notin Holding \cup {"noting"} BY DEF Idle, Holding
<1>7. ASSUME NEW s \in Sessions, CommitOpening(w, s) PROVE Invariant'
  <2> DEFINE state == [step |-> "clear", action |-> work[w].change.action]
  <2>1. state.step \notin Holding \cup {"noting"} BY DEF Holding
  <2>2. Goes(w, state) /\ events' = first BY <1>7 DEF CommitOpening, OneEvent, first
  <2> HIDE DEF state
  <2> QED BY <1>5, <2>1, <2>2
<1>8. CASE CommitLogout(w) BY <1>5, <1>6, <1>8 DEF CommitLogout, first
<1>9. CASE CommitDisable(w) BY <1>5, <1>6, <1>9 DEF CommitDisable, OneEvent, first
<1>10. CASE CommitOther(w) BY <1>5, <1>6, <1>10 DEF CommitOther, OneEvent, first
<1> QED BY <1>7, <1>8, <1>9, <1>10 DEF Commit

LEMMA InvariantStep ==
  ASSUME Invariant, [Next]_vars
  PROVE  Invariant'
<1> USE DEF Holding
<1>0. Nobody \notin Workers BY AccessAssumption
<1>1. ASSUME UNCHANGED <<version, events, lock, work>> PROVE Invariant'
  BY <1>1 DEF Invariant, Typed, NobodyBeforeMigration, HoldersHaveTheLock, TailsAreKnown, SoundAfterMigration
<1>2. ASSUME NEW w \in Workers, NEW state, Goes(w, state), UNCHANGED <<version, events, lock>>,
             work[w].step # "down", state.step \notin Holding \cup {"noting"}
      PROVE  Invariant'
  BY <1>2, QuietStep, WriterKnows
<1>3. ASSUME NEW w \in Workers, Abandon(w) PROVE Invariant'
  <2>1. work[w].step # "down" /\ UNCHANGED <<version, events>> BY <1>3 DEF Abandon, data
  <2>2. lock' = lock \/ lock = w BY <1>3 DEF Abandon
  <2>3. Down.step = "down" /\ Idle.step = "idle" BY DEF Down, Idle
  <2> QED BY <1>3, <2>1, <2>2, <2>3, QuietStep, WriterKnows DEF Abandon
<1>4. ASSUME NEW w \in Workers, NEW a \in Actions, Attempt(w, a) PROVE Invariant'
  <2>1. work[w].step # "down" BY <1>4 DEF Attempt, Idle
  <2> QED BY <1>2, <1>4, <2>1 DEF Attempt, data
<1>5. ASSUME NEW w \in Workers, check_rate_limit(w) PROVE Invariant'
  <2> DEFINE state == IF Active(slots[work[w].action], work[w].now) < Limit
                      THEN [step |-> "try", action |-> work[w].action] ELSE Idle
  <2>1. state.step \notin Holding \cup {"noting"} BY DEF Idle
  <2>2. Goes(w, state) BY <1>5 DEF check_rate_limit
  <2> HIDE DEF state
  <2> QED BY <1>2, <1>5, <2>1, <2>2 DEF check_rate_limit
<1>6. ASSUME NEW w \in Workers, Refuse(w) PROVE Invariant'
  BY <1>2, <1>6 DEF Refuse, Failed, data
<1>7. ASSUME NEW w \in Workers, Accept(w) PROVE Invariant'
  BY <1>2, <1>7 DEF Accept, data
<1>8. ASSUME NEW w \in Workers, OpenSession(w) PROVE Invariant'
  <2> DEFINE state == IF account = "active" THEN [step |-> "begin", change |-> [action |-> "login"]] ELSE Idle
  <2>1. state.step \notin Holding \cup {"noting"} BY DEF Idle
  <2>2. Goes(w, state) BY <1>8 DEF OpenSession
  <2> HIDE DEF state
  <2> QED BY <1>2, <1>8, <2>1, <2>2 DEF OpenSession, data
<1>9. ASSUME NEW w \in Workers, consume_rate_limit_slot(w) PROVE Invariant'
  <2> DEFINE state == IF work[w].note THEN [step |-> "note"] ELSE Idle
  <2>1. state.step \notin Holding \cup {"noting"} BY DEF Idle
  <2>2. Goes(w, state) BY <1>9 DEF consume_rate_limit_slot
  <2> HIDE DEF state
  <2> QED BY <1>2, <1>9, <2>1, <2>2 DEF consume_rate_limit_slot
<1>10. ASSUME NEW w \in Workers, clear_rate_limit_bucket(w) PROVE Invariant'
  BY <1>2, <1>10 DEF clear_rate_limit_bucket, Idle
<1>11. ASSUME NEW w \in Workers, StartNote(w) PROVE Invariant'
  <2>1. work[w].step # "down" BY <1>11 DEF StartNote, Idle
  <2> QED BY <1>2, <1>11, <2>1 DEF StartNote, data
<1>12. ASSUME NEW w \in Workers, ReadForNote(w) PROVE Invariant'
  <2>1. work[w].step # "down" BY <1>12 DEF ReadForNote
  <2>2. version = 1 /\ Latest(events) \in Nat BY <2>1, WriterKnows
  <2> QED BY <1>12, <2>2, QuietStep DEF ReadForNote, data
<1>13. ASSUME NEW w \in Workers, NEW s \in Sessions, Logout(w, s) PROVE Invariant'
  <2>1. work[w].step # "down" BY <1>13 DEF Logout, Idle
  <2> QED BY <1>2, <1>13, <2>1 DEF Logout, data
<1>14. ASSUME NEW w \in Workers, NEW a, StartWrite(w, a) PROVE Invariant'
  <2>1. work[w].step # "down" BY <1>14 DEF StartWrite, Idle
  <2> QED BY <1>2, <1>14, <2>1 DEF StartWrite, data
<1>15. ASSUME NEW w \in Workers, BeginWrite(w) PROVE Invariant'
  <2>1. version = 1 /\ UNCHANGED <<version, events>> BY <1>15, WriterKnows DEF BeginWrite, data
  <2>2. \A u \in Workers : work[u].step \notin Holding
    BY <1>0, <1>15 DEF BeginWrite, LockFree, Invariant, HoldersHaveTheLock
  <2> QED BY <1>15, <2>1, <2>2, QuietStep DEF BeginWrite
<1>16. ASSUME NEW w \in Workers, ReadTail(w) PROVE Invariant'
  <2>1. version = 1 /\ Latest(events) = Len(events) /\ UNCHANGED <<version, events, lock>>
    BY <1>16, WriterKnows DEF ReadTail, data
  <2>2. lock = w /\ \A u \in Workers \ {w} : work[u].step \notin Holding
    BY <1>16 DEF ReadTail, Invariant, HoldersHaveTheLock
  <2> QED BY <1>16, <2>1, <2>2, QuietStep DEF ReadTail
<1>17. ASSUME NEW w \in Workers, RefuseAccount(w) PROVE Invariant'
  <2>1. version = 1 /\ UNCHANGED <<version, events>> BY <1>17, WriterKnows DEF RefuseAccount, data
  <2>2. lock = w BY <1>17 DEF RefuseAccount, Invariant, HoldersHaveTheLock
  <2> QED BY <1>17, <2>1, <2>2, QuietStep DEF RefuseAccount
<1>18. CASE Tick BY <1>1, <1>18 DEF Tick
<1>19. ASSUME NEW s \in Sessions, Expire(s) PROVE Invariant' BY <1>1, <1>19 DEF Expire
<1>20. CASE UNCHANGED vars BY <1>1, <1>20 DEF vars, data
<1> QED
  BY <1>3, <1>4, <1>5, <1>6, <1>7, <1>8, <1>9, <1>10, <1>11, <1>12, <1>13, <1>14, <1>15, <1>16, <1>17,
     <1>18, <1>19, <1>20, StartKeeps, NoteKeeps, CommitKeeps DEF Next

-----------------------------------------------------------------------------
(* Only an event appended outside a transaction can be the one that breaks  *)
(* the chain (insert_audit_event): neither the migration nor any            *)
(* transaction forks it, for every number of connections and every legacy   *)
(* chain.                                                                   *)
THEOREM TransactionsNeverFork == Spec => []BreaksOnlyUnlocked
<1>1. Invariant => BreaksOnlyUnlocked
  BY DEF Invariant, SoundAfterMigration, Sound, AllHashed, BreaksOnlyUnlocked
<1> QED BY <1>1, InvariantInit, InvariantStep, PTL DEF Spec

(* Disabling is final (resolve_user_session): no login or registration      *)
(* under way brings the account or a session back, for every number of      *)
(* connections and sessions.                                                *)
THEOREM DisablingIsFinal == Spec => DisabledIsOut
<1>1. ASSUME [Next]_vars, account = "disabled" PROVE account' = "disabled"
  <2>1. ASSUME NEW w \in Workers, Commit(w) PROVE account' = "disabled"
    BY <1>1, <2>1 DEF Commit, CommitOpening, CommitLogout, CommitDisable, CommitOther
  <2> QED
    BY <1>1, <2>1 DEF Next, Tick, Expire, StartProcess, Abandon, Attempt, check_rate_limit, Refuse, Accept,
       OpenSession, consume_rate_limit_slot, clear_rate_limit_bucket, StartNote, ReadForNote, InsertNote,
       Logout, StartWrite, BeginWrite, ReadTail, RefuseAccount, vars, data
<1>2. ASSUME account' = "disabled" PROVE \A s \in Sessions : ~Resolves(s)'
  BY <1>2 DEF Resolves
<1>3. ASSUME [Next]_vars
      PROVE  [account = "disabled" => account' = "disabled" /\ \A s \in Sessions : ~Resolves(s)']_vars
  BY <1>1, <1>2, <1>3
<1> QED BY <1>3, PTL DEF Spec, DisabledIsOut

-----------------------------------------------------------------------------
(* The limit of failures.                                                  *)
Counted == [Actions -> [Expiries -> Nat]]

(* The time a handler read before it waited for the lock has passed.        *)
TimesHavePassed ==
  /\ work = [w \in Workers |-> work[w]]
  /\ \A w \in Workers : work[w].step = "failed" => work[w].now \in Nat /\ work[w].now <= clock

LimitInvariant ==
  /\ clock \in Times /\ slots \in Counted
  /\ TimesHavePassed
  /\ LimitHolds

LEMMA LimitsAreNatural ==
  /\ Limit \in Nat /\ Limit > 0 /\ Window \in Nat /\ Window > 0 /\ MaxClock \in Nat
  /\ IsFiniteSet(Expiries)
<1>1. /\ Limit \in Nat /\ Limit > 0 /\ Window \in Nat /\ Window > 0 /\ MaxClock \in Nat BY AccessAssumption
<1>2. IsFiniteSet(0 .. MaxClock + Window) BY <1>1, FS_Interval
<1> QED BY <1>1, <1>2 DEF Expiries

LEMMA ActiveType ==
  ASSUME NEW rows \in [Expiries -> Nat], NEW now
  PROVE  Active(rows, now) \in Nat
<1> DEFINE S == {e \in Expiries : e > now}
           f == [t \in S |-> rows[t]]
<1>1. S \in SUBSET Expiries /\ f \in [S -> Nat] OBVIOUS
<1> HIDE DEF S
<1>2. IsFiniteSet(S) BY <1>1, LimitsAreNatural, FS_Subset
<1> HIDE DEF f
<1>3. Total(f) \in Nat BY <1>1, <1>2, TotalType
<1> QED BY <1>3 DEF Active, f, S

(* Fewer rows, or a later time, make no more active ones.                   *)
LEMMA ActiveShrinks ==
  ASSUME NEW rows \in [Expiries -> Nat], NEW fewer \in [Expiries -> Nat], \A t \in Expiries : fewer[t] <= rows[t],
         NEW now \in Nat, NEW later \in Nat, now <= later
  PROVE  Active(fewer, later) <= Active(rows, now)
<1> DEFINE S == {e \in Expiries : e > later}
           T == {e \in Expiries : e > now}
           f == [t \in T |-> rows[t]]
           g == [t \in S |-> fewer[t]]
<1>1. Expiries \subseteq Nat BY LimitsAreNatural DEF Expiries
<1>2. T \in SUBSET Expiries /\ S \in SUBSET T
  <2>1. ASSUME NEW e \in Expiries, e > later PROVE e > now BY <1>1, <2>1
  <2> QED BY <2>1
<1>3. f \in [T -> Nat] /\ g \in [S -> Nat] /\ \A t \in S : g[t] <= f[t] BY <1>2
<1>4. IsFiniteSet(T) BY <1>2, LimitsAreNatural, FS_Subset
<1> HIDE DEF S, T, f, g
<1>5. Total(g) <= Total(f) BY <1>2, <1>3, <1>4, TotalMonotone
<1> QED BY <1>5 DEF Active, S, T, f, g

(* A row more is one active row more at most.                               *)
LEMMA ActiveGrows ==
  ASSUME NEW rows \in [Expiries -> Nat], NEW e \in Expiries, NEW now
  PROVE  Active([rows EXCEPT ![e] = @ + 1], now) <= Active(rows, now) + 1
<1> DEFINE more == [rows EXCEPT ![e] = @ + 1]
           S == {t \in Expiries : t > now}
           f == [t \in S |-> rows[t]]
           g == [t \in S |-> more[t]]
<1>1. S \in SUBSET Expiries OBVIOUS
<1>2. more \in [Expiries -> Nat] /\ \A t \in Expiries : more[t] = IF t = e THEN rows[t] + 1 ELSE rows[t] OBVIOUS
<1> HIDE DEF more, S
<1>3. IsFiniteSet(S) BY <1>1, LimitsAreNatural, FS_Subset
<1>4. f \in [S -> Nat] /\ g \in [S -> Nat] BY <1>1, <1>2
<1>5. Total(f) \in Nat /\ Total(g) \in Nat BY <1>3, <1>4, TotalType
<1>6. CASE e \in S
  <2>1. (\A t \in S \ {e} : g[t] = f[t]) /\ g[e] = f[e] + 1 /\ f[e] \in Nat BY <1>1, <1>2, <1>4, <1>6
  <2> HIDE DEF f, g
  <2>2. Total(g) + f[e] = Total(f) + g[e] BY <1>3, <1>4, <1>6, <2>1, TotalUpdate
  <2>3. Total(g) = Total(f) + 1 BY <1>5, <2>1, <2>2
  <2> QED BY <1>5, <2>3 DEF Active, f, g, more, S
<1>7. CASE e \notin S
  <2>1. g = f BY <1>1, <1>2, <1>7
  <2> HIDE DEF f, g
  <2>2. Total(g) <= Total(f) + 1 BY <1>5, <2>1
  <2> QED BY <2>2 DEF Active, f, g, more, S
<1> QED BY <1>6, <1>7

LEMMA ActiveOfNoRows == \A now : Active(NoRows, now) = 0 /\ NoRows \in [Expiries -> Nat]
<1> TAKE now
<1>1. \A t \in {e \in Expiries : e > now} : [x \in {e \in Expiries : e > now} |-> NoRows[x]][t] = 0 BY DEF NoRows
<1> QED BY <1>1, TotalZero DEF Active, NoRows

LEMMA PurgedFacts ==
  ASSUME slots \in Counted, NEW now
  PROVE  /\ Purged(now) \in Counted
         /\ \A a \in Actions : /\ Purged(now)[a] \in [Expiries -> Nat] /\ slots[a] \in [Expiries -> Nat]
                               /\ \A t \in Expiries : Purged(now)[a][t] <= slots[a][t]
<1>1. ASSUME NEW a \in Actions, NEW t \in Expiries PROVE slots[a][t] \in Nat BY DEF Counted
<1>2. ASSUME NEW a \in Actions, NEW t \in Expiries
      PROVE  /\ Purged(now)[a][t] = IF t > now THEN slots[a][t] ELSE 0
             /\ Purged(now)[a][t] \in Nat /\ Purged(now)[a][t] <= slots[a][t]
  BY <1>1 DEF Purged
<1>3. Purged(now) = [a \in Actions |-> [t \in Expiries |-> Purged(now)[a][t]]] BY DEF Purged
<1>4. Purged(now) \in Counted BY <1>2, <1>3 DEF Counted
<1> QED BY <1>2, <1>4 DEF Counted

(* The rows of no action are more than they were, except that one counts    *)
(* a failure when it had room.                                              *)
LEMMA LimitInit == Init => LimitInvariant
<1> SUFFICES ASSUME Init PROVE LimitInvariant OBVIOUS
<1>1. clock = 0 /\ slots = [a \in Actions |-> NoRows] /\ work = [w \in Workers |-> Down] BY DEF Init
<1>2. clock \in Times BY <1>1, LimitsAreNatural DEF Times
<1>3. slots \in Counted BY <1>1, ActiveOfNoRows DEF Counted
<1>4. \A w \in Workers : work[w].step = "down" BY <1>1 DEF Down
<1>5. TimesHavePassed BY <1>1, <1>4 DEF TimesHavePassed
<1>6. LimitHolds BY <1>1, ActiveOfNoRows, LimitsAreNatural DEF LimitHolds
<1> QED BY <1>2, <1>3, <1>5, <1>6 DEF LimitInvariant

LEMMA FewerRowsKeepTheLimit ==
  ASSUME LimitInvariant, slots' \in Counted, clock' \in Times, clock <= clock',
         \A a \in Actions : \A t \in Expiries : slots'[a][t] <= slots[a][t]
  PROVE  LimitHolds'
<1> SUFFICES ASSUME NEW a \in Actions PROVE Active(slots'[a], clock') <= Limit BY DEF LimitHolds, Active, Expiries
<1>1. slots[a] \in [Expiries -> Nat] /\ slots'[a] \in [Expiries -> Nat] BY DEF LimitInvariant, Counted
<1>2. clock \in Nat /\ clock' \in Nat BY DEF LimitInvariant, Times
<1>3. Active(slots'[a], clock') <= Active(slots[a], clock) BY <1>1, <1>2, ActiveShrinks
<1>4. Active(slots[a], clock) <= Limit BY DEF LimitInvariant, LimitHolds
<1> QED BY <1>1, <1>3, <1>4, ActiveType, LimitsAreNatural

LEMMA ConsumeKeepsTheLimit ==
  ASSUME LimitInvariant, NEW w \in Workers, consume_rate_limit_slot(w)
  PROVE  slots' \in Counted /\ LimitHolds'
<1> DEFINE now == work[w].now
           a == work[w].action
           full == Purged(now)
           more == [full EXCEPT ![a][now + Window] = @ + 1]
           e == now + Window
<1>1. /\ slots' = IF HasRoom(a, now) THEN more ELSE full
      /\ clock' = clock /\ work[w].step = "failed"
  BY DEF consume_rate_limit_slot
<1>2. clock \in Nat /\ clock <= MaxClock /\ clock \in Times /\ slots \in Counted
  BY LimitsAreNatural DEF LimitInvariant, Times
<1>3. now \in Nat /\ now <= clock BY <1>1 DEF LimitInvariant, TimesHavePassed
<1>4. e \in Expiries BY <1>2, <1>3, LimitsAreNatural DEF Expiries
<1>5. full \in Counted /\ \A b \in Actions : full[b] \in [Expiries -> Nat] /\ slots[b] \in [Expiries -> Nat]
                                             /\ \A t \in Expiries : full[b][t] <= slots[b][t]
  BY <1>2, PurgedFacts
<1>6. ASSUME NEW b \in Actions PROVE Active(full[b], clock) <= Active(slots[b], now) /\ Active(full[b], clock) <= Limit
  <2>1. Active(full[b], clock) <= Active(slots[b], now) BY <1>2, <1>3, <1>5, ActiveShrinks
  <2>2. Active(full[b], clock) <= Active(slots[b], clock) BY <1>2, <1>5, ActiveShrinks
  <2>3. Active(slots[b], clock) <= Limit BY DEF LimitInvariant, LimitHolds
  <2> QED BY <1>5, <2>1, <2>2, <2>3, ActiveType, LimitsAreNatural
<1> HIDE DEF full, e, now, a
<1>7. slots' \in Counted
  <2>1. CASE a \in Actions
    <3>1. [full[a] EXCEPT ![e] = @ + 1] \in [Expiries -> Nat] BY <1>4, <1>5, <2>1
    <3>2. more = [full EXCEPT ![a] = [full[a] EXCEPT ![e] = @ + 1]] BY DEF e
    <3>3. more \in Counted BY <1>5, <3>1, <3>2 DEF Counted
    <3> QED BY <1>1, <1>5, <3>3
  <2>2. CASE a \notin Actions
    <3>1. more = full BY <1>5, <2>2 DEF Counted
    <3> QED BY <1>1, <1>5, <3>1
  <2> QED BY <2>1, <2>2
<1>8. ASSUME NEW b \in Actions PROVE Active(slots'[b], clock) <= Limit
  <2>1. CASE ~(HasRoom(a, now) /\ b = a) BY <1>1, <1>5, <1>6, <2>1 DEF Counted
  <2>2. CASE HasRoom(a, now) /\ b = a
    <3>1. slots'[b] = [full[b] EXCEPT ![e] = @ + 1] BY <1>1, <1>5, <2>2 DEF Counted, e
    <3>2. Active(slots'[b], clock) <= Active(full[b], clock) + 1 BY <1>4, <1>5, <3>1, ActiveGrows
    <3>3. Active(slots[b], now) < Limit BY <2>2 DEF HasRoom
    <3>4. Active(full[b], clock) \in Nat /\ Active(slots[b], now) \in Nat /\ Active(slots'[b], clock) \in Nat
      BY <1>5, <1>7, ActiveType DEF Counted
    <3> QED BY <1>6, <3>2, <3>3, <3>4, LimitsAreNatural
  <2> QED BY <2>1, <2>2
<1> QED BY <1>1, <1>7, <1>8 DEF LimitHolds, Active, Expiries

LEMMA LimitStep ==
  ASSUME LimitInvariant, [Next]_vars
  PROVE  LimitInvariant'
<1>0. clock \in Times /\ slots \in Counted /\ TimesHavePassed /\ clock \in Nat BY DEF LimitInvariant, Times
(* The time passes, or stands still.                                        *)
<1>1. clock' \in Times /\ clock <= clock'
  <2>1. ASSUME Tick PROVE clock' \in Times /\ clock <= clock' BY <1>0, <2>1, LimitsAreNatural DEF Tick, Times
  <2>2. ASSUME ~Tick PROVE clock' = clock
    BY <2>2 DEF Next, Expire, StartProcess, Abandon, Attempt, check_rate_limit, Refuse, Accept,
       OpenSession, consume_rate_limit_slot, clear_rate_limit_bucket, StartNote, ReadForNote, InsertNote,
       Logout, StartWrite, BeginWrite, ReadTail, RefuseAccount, Commit, vars, data
  <2> QED BY <1>0, <2>1, <2>2
<1>2. ASSUME NEW w \in Workers, NEW state, Goes(w, state),
             state.step = "failed" => state.now \in Nat /\ state.now <= clock'
      PROVE  TimesHavePassed'
  <2>1. work' = [u \in Workers |-> IF u = w THEN state ELSE work[u]]
    BY <1>0, <1>2 DEF Goes, TimesHavePassed
  <2>2. ASSUME NEW u \in Workers, work'[u].step = "failed" PROVE work'[u].now \in Nat /\ work'[u].now <= clock'
    <3>1. CASE u = w BY <1>2, <2>1, <2>2, <3>1
    <3>2. CASE u # w
      <4>1. work[u].now \in Nat /\ work[u].now <= clock BY <1>0, <2>1, <2>2, <3>2 DEF TimesHavePassed
      <4> QED BY <1>0, <1>1, <2>1, <3>2, <4>1 DEF Times
    <3> QED BY <3>1, <3>2
  <2> QED BY <2>1, <2>2 DEF TimesHavePassed
<1>3. ASSUME UNCHANGED work PROVE TimesHavePassed'
  <2>1. \A u \in Workers : work[u].step = "failed" => work[u].now \in Nat /\ work[u].now <= clock'
    BY <1>0, <1>1 DEF TimesHavePassed, Times
  <2> QED BY <1>0, <1>3, <2>1 DEF TimesHavePassed
<1>4. ASSUME NEW w \in Workers, NEW state, Goes(w, state), state.step # "failed" PROVE TimesHavePassed'
  BY <1>2, <1>4
<1>5. Down.step # "failed" /\ Idle.step # "failed" BY DEF Down, Idle
<1>6. TimesHavePassed'
  <2>1. ASSUME NEW w \in Workers, NEW note, Failed(w, note), UNCHANGED clock PROVE TimesHavePassed'
    BY <1>0, <1>2, <2>1 DEF Failed
  <2>2. ASSUME NEW w \in Workers, check_rate_limit(w) PROVE TimesHavePassed'
    <3> DEFINE state == IF Active(slots[work[w].action], work[w].now) < Limit
                        THEN [step |-> "try", action |-> work[w].action] ELSE Idle
    <3>1. state.step # "failed" BY <1>5
    <3>2. Goes(w, state) BY <2>2 DEF check_rate_limit
    <3> HIDE DEF state
    <3> QED BY <1>4, <3>1, <3>2
  <2>3. ASSUME NEW w \in Workers, OpenSession(w) PROVE TimesHavePassed'
    <3> DEFINE state == IF account = "active" THEN [step |-> "begin", change |-> [action |-> "login"]] ELSE Idle
    <3>1. state.step # "failed" BY <1>5
    <3>2. Goes(w, state) BY <2>3 DEF OpenSession
    <3> HIDE DEF state
    <3> QED BY <1>4, <3>1, <3>2
  <2>4. ASSUME NEW w \in Workers, consume_rate_limit_slot(w) PROVE TimesHavePassed'
    <3> DEFINE state == IF work[w].note THEN [step |-> "note"] ELSE Idle
    <3>1. state.step # "failed" BY <1>5
    <3>2. Goes(w, state) BY <2>4 DEF consume_rate_limit_slot
    <3> HIDE DEF state
    <3> QED BY <1>4, <3>1, <3>2
  <2>5. ASSUME NEW w \in Workers, RefuseAccount(w) PROVE TimesHavePassed'
    BY <1>0, <1>2, <2>5 DEF RefuseAccount, data
  <2>6. ASSUME NEW w \in Workers, Refuse(w) PROVE TimesHavePassed' BY <2>1, <2>6 DEF Refuse, data
  <2>7. ASSUME NEW w \in Workers, StartProcess(w) \/ Abandon(w) PROVE TimesHavePassed'
    BY <1>4, <1>5, <2>7 DEF StartProcess, Abandon
  <2>8. ASSUME NEW w \in Workers, NEW a \in Actions, Attempt(w, a) PROVE TimesHavePassed'
    BY <1>4, <2>8 DEF Attempt
  <2>9. ASSUME NEW w \in Workers, Accept(w) PROVE TimesHavePassed' BY <1>4, <2>9 DEF Accept
  <2>10. ASSUME NEW w \in Workers, clear_rate_limit_bucket(w) \/ InsertNote(w) PROVE TimesHavePassed'
    BY <1>4, <1>5, <2>10 DEF clear_rate_limit_bucket, InsertNote
  <2>11. ASSUME NEW w \in Workers, StartNote(w) \/ ReadForNote(w) PROVE TimesHavePassed'
    BY <1>4, <2>11 DEF StartNote, ReadForNote
  <2>12. ASSUME NEW w \in Workers, NEW s \in Sessions, Logout(w, s) PROVE TimesHavePassed' BY <1>4, <2>12 DEF Logout
  <2>13. ASSUME NEW w \in Workers, NEW a, StartWrite(w, a) PROVE TimesHavePassed' BY <1>4, <2>13 DEF StartWrite
  <2>14. ASSUME NEW w \in Workers, BeginWrite(w) \/ ReadTail(w) PROVE TimesHavePassed'
    BY <1>4, <2>14 DEF BeginWrite, ReadTail
  <2>15. ASSUME NEW w \in Workers, Commit(w) PROVE TimesHavePassed'
    BY <1>4, <1>5, <2>15 DEF Commit, CommitOpening, CommitLogout, CommitDisable, CommitOther
  <2>16. CASE Tick BY <1>3, <2>16 DEF Tick
  <2>17. ASSUME NEW s \in Sessions, Expire(s) PROVE TimesHavePassed' BY <1>3, <2>17 DEF Expire
  <2>18. CASE UNCHANGED vars BY <1>3, <2>18 DEF vars
  <2> QED
    BY <2>2, <2>3, <2>4, <2>5, <2>6, <2>7, <2>8, <2>9, <2>10, <2>11, <2>12, <2>13, <2>14, <2>15, <2>16, <2>17,
       <2>18 DEF Next
(* Rows come by a failure only.                                             *)
<1>7. slots' \in Counted /\ LimitHolds'
  <2>1. ASSUME NEW w \in Workers, consume_rate_limit_slot(w) PROVE slots' \in Counted /\ LimitHolds'
    BY <2>1, ConsumeKeepsTheLimit
  <2>2. ASSUME NEW w \in Workers, check_rate_limit(w) PROVE slots' \in Counted /\ LimitHolds'
    <3>1. slots' = Purged(work[w].now) BY <2>2 DEF check_rate_limit
    <3> QED BY <1>0, <1>1, <3>1, PurgedFacts, FewerRowsKeepTheLimit
  <2>3. ASSUME NEW w \in Workers, clear_rate_limit_bucket(w) PROVE slots' \in Counted /\ LimitHolds'
    <3> DEFINE full == Purged(clock)
               a == work[w].action
    <3>1. slots' = [full EXCEPT ![a] = NoRows] BY <2>3 DEF clear_rate_limit_bucket
    <3>2. full \in Counted /\ \A b \in Actions : /\ full[b] \in [Expiries -> Nat] /\ slots[b] \in [Expiries -> Nat]
                                                 /\ \A t \in Expiries : full[b][t] <= slots[b][t]
      BY <1>0, PurgedFacts
    <3>3. NoRows \in [Expiries -> Nat] /\ \A t \in Expiries : NoRows[t] = 0 BY ActiveOfNoRows DEF NoRows
    <3> HIDE DEF full, a
    <3>4. slots' \in Counted BY <3>1, <3>2, <3>3 DEF Counted
    <3>5. ASSUME NEW b \in Actions, NEW t \in Expiries PROVE slots'[b][t] <= slots[b][t]
      <4>1. slots'[b] = IF b = a THEN NoRows ELSE full[b] BY <3>1, <3>2 DEF Counted
      <4> QED BY <3>2, <3>3, <4>1
    <3> QED BY <1>1, <3>4, <3>5, FewerRowsKeepTheLimit
  <2>4. ASSUME UNCHANGED slots PROVE slots' \in Counted /\ LimitHolds'
    <3>1. \A a \in Actions : \A t \in Expiries : slots'[a][t] <= slots[a][t] BY <1>0, <2>4 DEF Counted
    <3> QED BY <1>0, <1>1, <2>4, <3>1, FewerRowsKeepTheLimit
  <2>5. ASSUME ~(\E w \in Workers : consume_rate_limit_slot(w) \/ check_rate_limit(w) \/ clear_rate_limit_bucket(w))
        PROVE  UNCHANGED slots
    BY <2>5 DEF Next, Tick, Expire, StartProcess, Abandon, Attempt, Refuse, Accept,
       OpenSession, StartNote, ReadForNote, InsertNote,
       Logout, StartWrite, BeginWrite, ReadTail, RefuseAccount, Commit, vars, data
  <2> QED BY <2>1, <2>2, <2>3, <2>4, <2>5
<1> QED BY <1>1, <1>6, <1>7 DEF LimitInvariant

(* The limit of failures (consume_rate_limit_slot): however many            *)
(* connections fail at once, and however long they waited, no window has    *)
(* more counted failures than the limit.                                    *)
THEOREM FailuresAreLimited == Spec => []LimitHolds
<1>1. LimitInvariant => LimitHolds BY DEF LimitInvariant
<1> QED BY <1>1, LimitInit, LimitStep, PTL DEF Spec

-----------------------------------------------------------------------------
(* Types.                                                                  *)
States ==
  {Down, Idle}
  \cup [step : {"check"}, action : Actions, now : Times]
  \cup [step : {"try", "open", "clear"}, action : Actions]
  \cup [step : {"failed"}, action : Actions, note : BOOLEAN, now : Times]
  \cup [step : {"begin", "locked"}, change : Changes]
  \cup [step : {"append"}, change : Changes, tail : Nat]
  \cup [step : {"note"}]
  \cup [step : {"noting"}, tail : Nat]

(* A registration opens its session with its account, in one transaction.   *)
OnlyLoginsOpen == \A w \in Workers : work[w].step = "open" => work[w].action = "login"

TypeInvariant == Invariant /\ LimitInvariant /\ TypeOK /\ OnlyLoginsOpen

LEMMA StateFacts ==
  ASSUME NEW x \in States
  PROVE  /\ x.step \in {"check", "try", "open", "clear", "failed"} => x.action \in Actions
         /\ x.step = "failed" => x.note \in BOOLEAN
         /\ x.step \in {"begin", "locked", "append"} => x.change \in Changes
BY DEF States, Down, Idle

LEMMA ChangeFacts ==
  ASSUME NEW c \in Changes, c.action \in {"login", "register"}
  PROVE  c.action \in Actions
BY DEF Changes, LoggingOut

(* What a connection does next, and who has the lock.                       *)
LEMMA WorkTyped ==
  ASSUME TypeInvariant, NEW w \in Workers, NEW state \in States, Goes(w, state),
         state.step = "open" => state.action = "login"
  PROVE  work' \in [Workers -> States] /\ OnlyLoginsOpen'
<1>1. work \in [Workers -> States] BY DEF TypeInvariant, TypeOK, States
<1>2. work' = [u \in Workers |-> IF u = w THEN state ELSE work[u]] BY <1>1 DEF Goes
<1> QED BY <1>1, <1>2 DEF TypeInvariant, OnlyLoginsOpen

LEMMA WorkStep ==
  ASSUME TypeInvariant, [Next]_vars
  PROVE  work' \in [Workers -> States] /\ OnlyLoginsOpen'
<1>0. work \in [Workers -> States] /\ OnlyLoginsOpen /\ clock \in Times
  BY DEF TypeInvariant, TypeOK, States
<1>1. Down \in States /\ Idle \in States /\ Down.step = "down" /\ Idle.step = "idle"
  BY DEF States, Down, Idle
<1>2. ASSUME NEW w \in Workers, Goes(w, Idle) \/ Goes(w, Down)
      PROVE  work' \in [Workers -> States] /\ OnlyLoginsOpen'
  BY <1>1, <1>2, WorkTyped
<1>3. ASSUME NEW w \in Workers, NEW change \in Changes, Goes(w, [step |-> "begin", change |-> change])
      PROVE  work' \in [Workers -> States] /\ OnlyLoginsOpen'
  <2>1. [step |-> "begin", change |-> change] \in States BY DEF States
  <2> QED BY <1>3, <2>1, WorkTyped
<1>4. ASSUME NEW w \in Workers, NEW a \in Actions, NEW note \in BOOLEAN,
             Goes(w, [step |-> "failed", action |-> a, note |-> note, now |-> clock])
      PROVE  work' \in [Workers -> States] /\ OnlyLoginsOpen'
  <2>1. [step |-> "failed", action |-> a, note |-> note, now |-> clock] \in States BY <1>0 DEF States
  <2> QED BY <1>4, <2>1, WorkTyped
<1>5. ASSUME NEW w \in Workers, Goes(w, [step |-> "note"])
      PROVE  work' \in [Workers -> States] /\ OnlyLoginsOpen'
  <2>1. [step |-> "note"] \in States BY DEF States
  <2> QED BY <1>5, <2>1, WorkTyped
<1>6. ASSUME NEW w \in Workers, NEW a \in Actions, NEW step \in {"try", "open", "clear"},
             step = "open" => a = "login", Goes(w, [step |-> step, action |-> a])
      PROVE  work' \in [Workers -> States] /\ OnlyLoginsOpen'
  <2>1. [step |-> step, action |-> a] \in States BY DEF States
  <2> QED BY <1>6, <2>1, WorkTyped
<1>7. ASSUME NEW w \in Workers, NEW a \in Actions, Attempt(w, a)
      PROVE  work' \in [Workers -> States] /\ OnlyLoginsOpen'
  <2>1. [step |-> "check", action |-> a, now |-> clock] \in States BY <1>0 DEF States
  <2> QED BY <1>7, <2>1, WorkTyped DEF Attempt
<1>8. ASSUME NEW w \in Workers, check_rate_limit(w)
      PROVE  work' \in [Workers -> States] /\ OnlyLoginsOpen'
  <2>1. work[w].action \in Actions BY <1>0, <1>8, StateFacts DEF check_rate_limit
  <2>2. Goes(w, [step |-> "try", action |-> work[w].action]) \/ Goes(w, Idle)
    BY <1>8 DEF check_rate_limit
  <2> QED BY <1>2, <1>6, <2>1, <2>2
<1>9. ASSUME NEW w \in Workers, Refuse(w)
      PROVE  work' \in [Workers -> States] /\ OnlyLoginsOpen'
  <2>1. work[w].action \in Actions BY <1>0, <1>9, StateFacts DEF Refuse
  <2> QED BY <1>4, <1>9, <2>1 DEF Refuse, Failed
<1>10. ASSUME NEW w \in Workers, Accept(w)
       PROVE  work' \in [Workers -> States] /\ OnlyLoginsOpen'
  <2>1. work[w].action \in Actions BY <1>0, <1>10, StateFacts DEF Accept
  <2>2. CASE work[w].action = "login" /\ Goes(w, [step |-> "open", action |-> "login"])
    BY <1>6, <2>1, <2>2
  <2>3. CASE work[w].action = "register" /\ Goes(w, [step |-> "begin", change |-> [action |-> "register"]])
    <3>1. [action |-> "register"] \in Changes BY <2>1, <2>3 DEF Changes
    <3> QED BY <1>3, <2>3, <3>1
  <2> QED BY <1>10, <2>2, <2>3 DEF Accept
<1>11. ASSUME NEW w \in Workers, OpenSession(w)
       PROVE  work' \in [Workers -> States] /\ OnlyLoginsOpen'
  <2>1. "login" \in Actions BY <1>0, <1>11, StateFacts DEF OpenSession, OnlyLoginsOpen
  <2>2. [action |-> "login"] \in Changes BY <2>1 DEF Changes
  <2>3. Goes(w, [step |-> "begin", change |-> [action |-> "login"]]) \/ Goes(w, Idle)
    BY <1>11 DEF OpenSession
  <2> QED BY <1>2, <1>3, <2>2, <2>3
<1>12. ASSUME NEW w \in Workers, consume_rate_limit_slot(w)
       PROVE  work' \in [Workers -> States] /\ OnlyLoginsOpen'
  <2>1. Goes(w, [step |-> "note"]) \/ Goes(w, Idle) BY <1>12 DEF consume_rate_limit_slot
  <2> QED BY <1>2, <1>5, <2>1
<1>13. ASSUME NEW w \in Workers, ReadForNote(w)
       PROVE  work' \in [Workers -> States] /\ OnlyLoginsOpen'
  <2>1. Latest(events) \in Nat BY <1>13, WriterKnows DEF ReadForNote, TypeInvariant
  <2>2. [step |-> "noting", tail |-> Latest(events)] \in States BY <2>1 DEF States
  <2> QED BY <1>13, <2>2, WorkTyped DEF ReadForNote
<1>14. ASSUME NEW w \in Workers, NEW s \in Sessions, Logout(w, s)
       PROVE  work' \in [Workers -> States] /\ OnlyLoginsOpen'
  <2> DEFINE change == [action |-> IF Resolves(s) THEN "logout" ELSE "forget", session |-> s]
  <2>1. change \in Changes BY DEF Changes, LoggingOut
  <2>2. Goes(w, [step |-> "begin", change |-> change]) BY <1>14 DEF Logout
  <2> HIDE DEF change
  <2> QED BY <1>3, <2>1, <2>2
<1>15. ASSUME NEW w \in Workers, NEW a \in {"disable", "other"}, StartWrite(w, a)
       PROVE  work' \in [Workers -> States] /\ OnlyLoginsOpen'
  <2>1. [action |-> a] \in Changes BY DEF Changes
  <2> QED BY <1>3, <1>15, <2>1 DEF StartWrite
<1>16. ASSUME NEW w \in Workers, BeginWrite(w) \/ ReadTail(w)
       PROVE  work' \in [Workers -> States] /\ OnlyLoginsOpen'
  <2>1. work[w].change \in Changes BY <1>0, <1>16, StateFacts DEF BeginWrite, ReadTail
  <2>2. CASE BeginWrite(w)
    <3>1. [step |-> "locked", change |-> work[w].change] \in States BY <2>1 DEF States
    <3> QED BY <2>2, <3>1, WorkTyped DEF BeginWrite
  <2>3. CASE ReadTail(w)
    <3>1. Latest(events) \in Nat BY <2>3, WriterKnows DEF ReadTail, TypeInvariant
    <3>2. [step |-> "append", change |-> work[w].change, tail |-> Latest(events)] \in States
      BY <2>1, <3>1 DEF States
    <3> QED BY <2>3, <3>2, WorkTyped DEF ReadTail
  <2> QED BY <1>16, <2>2, <2>3
<1>17. ASSUME NEW w \in Workers, RefuseAccount(w)
       PROVE  work' \in [Workers -> States] /\ OnlyLoginsOpen'
  <2>1. work[w].change \in Changes /\ work[w].change.action = "register"
    BY <1>0, <1>17, StateFacts DEF RefuseAccount
  <2>2. "register" \in Actions BY <2>1, ChangeFacts
  <2> QED BY <1>4, <1>17, <2>2 DEF RefuseAccount
<1>18. ASSUME NEW w \in Workers, Commit(w)
       PROVE  work' \in [Workers -> States] /\ OnlyLoginsOpen'
  <2>1. work[w].change \in Changes BY <1>0, <1>18, StateFacts DEF Commit
  <2>2. ASSUME NEW s \in Sessions, CommitOpening(w, s)
        PROVE  work' \in [Workers -> States] /\ OnlyLoginsOpen'
    <3>1. work[w].change.action \in Actions BY <2>1, <2>2, ChangeFacts DEF CommitOpening
    <3> QED BY <1>6, <2>2, <3>1 DEF CommitOpening
  <2>3. CASE CommitLogout(w) \/ CommitDisable(w) \/ CommitOther(w)
    BY <1>2, <2>3 DEF CommitLogout, CommitDisable, CommitOther
  <2> QED BY <1>18, <2>2, <2>3 DEF Commit
<1>19. ASSUME NEW w \in Workers,
              StartProcess(w) \/ Abandon(w) \/ clear_rate_limit_bucket(w) \/ StartNote(w) \/ InsertNote(w)
       PROVE  work' \in [Workers -> States] /\ OnlyLoginsOpen'
  BY <1>2, <1>5, <1>19 DEF StartProcess, Abandon, clear_rate_limit_bucket, StartNote, InsertNote
<1>20. ASSUME UNCHANGED work PROVE work' \in [Workers -> States] /\ OnlyLoginsOpen'
  BY <1>0, <1>20 DEF OnlyLoginsOpen
<1>21. ASSUME NEW s \in Sessions, Expire(s) PROVE UNCHANGED work BY <1>21 DEF Expire
<1>22. CASE Tick \/ UNCHANGED vars BY <1>20, <1>22 DEF Tick, vars
<1> QED
  BY <1>7, <1>8, <1>9, <1>10, <1>11, <1>12, <1>13, <1>14, <1>15, <1>16, <1>17, <1>18, <1>19, <1>20, <1>21,
     <1>22 DEF Next

LEMMA TypeStep ==
  ASSUME TypeInvariant, [Next]_vars
  PROVE  TypeInvariant'
<1>1. Invariant' /\ LimitInvariant' BY InvariantStep, LimitStep DEF TypeInvariant
<1>2. work' \in [Workers -> States] /\ OnlyLoginsOpen' BY WorkStep
<1>3. clock' \in Times /\ slots' \in Counted /\ version' \in {0, 1} /\ events' \in Seq(Event)
  BY <1>1 DEF LimitInvariant, Invariant, Typed
<1>4. account' \in {"absent", "active", "disabled"}
      /\ sessions' \in [Sessions -> {"none", "open", "expired", "revoked"}]
  <2>0. /\ account \in {"absent", "active", "disabled"}
        /\ sessions \in [Sessions -> {"none", "open", "expired", "revoked"}]
    BY DEF TypeInvariant, TypeOK
  <2>1. ASSUME NEW w \in Workers, Commit(w)
        PROVE  /\ account' \in {"absent", "active", "disabled"}
               /\ sessions' \in [Sessions -> {"none", "open", "expired", "revoked"}]
    BY <2>0, <2>1 DEF Commit, CommitOpening, CommitLogout, CommitDisable, CommitOther
  <2>2. ASSUME NEW s \in Sessions, Expire(s)
        PROVE  /\ account' \in {"absent", "active", "disabled"}
               /\ sessions' \in [Sessions -> {"none", "open", "expired", "revoked"}]
    BY <2>0, <2>2 DEF Expire
  <2>3. ASSUME ~(\E w \in Workers : Commit(w)), ~(\E s \in Sessions : Expire(s))
        PROVE  UNCHANGED <<account, sessions>>
    BY <2>3 DEF Next, Tick, StartProcess, Abandon, Attempt, check_rate_limit, Refuse, Accept,
       OpenSession, consume_rate_limit_slot, clear_rate_limit_bucket, StartNote, ReadForNote, InsertNote,
       Logout, StartWrite, BeginWrite, ReadTail, RefuseAccount, vars, data
  <2> QED BY <2>0, <2>1, <2>2, <2>3
<1>5. lock' \in Workers \cup {Nobody}
  <2>0. lock \in Workers \cup {Nobody} BY DEF TypeInvariant, TypeOK
  <2> QED
    BY <2>0 DEF Next, Tick, Expire, StartProcess, Abandon, Attempt, check_rate_limit, Refuse, Accept,
       OpenSession, consume_rate_limit_slot, clear_rate_limit_bucket, StartNote, ReadForNote, InsertNote,
       Logout, StartWrite, BeginWrite, ReadTail, RefuseAccount, Commit, vars, data
<1> QED BY <1>1, <1>2, <1>3, <1>4, <1>5 DEF TypeInvariant, TypeOK, Counted, States

(* Every variable keeps its type, whoever commits, fails or dies            *)
(* (app/main.py, app/storage.py).                                           *)
THEOREM TypeCorrect == Spec => []TypeOK
<1>1. Init => TypeInvariant
  <2> SUFFICES ASSUME Init PROVE TypeInvariant OBVIOUS
  <2>1. Invariant /\ LimitInvariant BY InvariantInit, LimitInit
  <2>2. Down \in States /\ Down.step = "down" BY DEF States, Down
  <2>3. work \in [Workers -> States] /\ OnlyLoginsOpen BY <2>2 DEF Init, OnlyLoginsOpen
  <2>4. clock \in Times /\ slots \in Counted /\ version \in {0, 1} /\ events \in Seq(Event)
    BY <2>1 DEF LimitInvariant, Invariant, Typed
  <2>5. /\ account \in {"absent", "active", "disabled"}
        /\ sessions \in [Sessions -> {"none", "open", "expired", "revoked"}]
        /\ lock \in Workers \cup {Nobody}
    BY DEF Init
  <2> QED BY <2>1, <2>3, <2>4, <2>5 DEF TypeInvariant, TypeOK, Counted, States
<1>2. TypeInvariant /\ [Next]_vars => TypeInvariant' BY TypeStep
<1>3. TypeInvariant => TypeOK BY DEF TypeInvariant
<1> QED BY <1>1, <1>2, <1>3, PTL DEF Spec
=============================================================================
