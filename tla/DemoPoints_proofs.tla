-------------------------- MODULE DemoPoints_proofs --------------------------
(***************************************************************************)
(* What DemoPoints guarantees for every number of connections, users,      *)
(* keys and settlements, whatever the market service answers.              *)
(***************************************************************************)
EXTENDS DemoPoints, SequenceTheorems, WellFoundedInduction, TLAPS

LEMMA RoundedIsInt ==
  ASSUME NEW x \in Int
  PROVE  Round2(x) \in Int /\ (x \in Nat => Round2(x) \in Nat)
<1>1. Cent \in Nat /\ Cent > 0 BY AmountsAssumption
<1> DEFINE q == (2 * x + Cent) \div (2 * Cent)
<1>2. 2 * x + Cent \in Int /\ 2 * Cent \in Nat /\ 2 * Cent > 0 BY <1>1
<1>3. q \in Int BY <1>2
<1>4. x \in Nat => q \in Nat BY <1>1, <1>2
<1>5. Round2(x) = q * Cent BY DEF Round2
<1> HIDE DEF q
<1> QED BY <1>1, <1>3, <1>4, <1>5

(* Whole hundredths of a point, which rounding leaves as they are.          *)
Whole == {q * Cent : q \in Int}

LEMMA CentIsPositive == Cent \in Nat /\ Cent > 0
BY AmountsAssumption

LEMMA Quotient ==
  ASSUME NEW a \in Int, NEW b \in Nat, b > 0
  PROVE  /\ a \div b \in Int /\ a = b * (a \div b) + (a % b)
         /\ 0 <= a % b /\ a % b < b
OBVIOUS

LEMMA WholeSums ==
  /\ 0 \in Whole
  /\ \A x \in Whole : x \in Int /\ -x \in Whole
  /\ \A x, y \in Whole : x + y \in Whole /\ x - y \in Whole
<1>1. 0 = 0 * Cent BY CentIsPositive
<1>2. ASSUME NEW x \in Whole PROVE x \in Int /\ -x \in Whole
  <2>1. PICK q \in Int : x = q * Cent BY DEF Whole
  <2>2. -x = (-q) * Cent /\ -q \in Int /\ x \in Int BY <2>1, CentIsPositive
  <2> QED BY <2>2 DEF Whole
<1>3. ASSUME NEW x \in Whole, NEW y \in Whole PROVE x + y \in Whole /\ x - y \in Whole
  <2>1. PICK q \in Int : x = q * Cent BY DEF Whole
  <2>2. PICK p \in Int : y = p * Cent BY DEF Whole
  <2>3. x + y = (q + p) * Cent /\ x - y = (q - p) * Cent BY <2>1, <2>2, CentIsPositive
  <2>4. q + p \in Int /\ q - p \in Int OBVIOUS
  <2> QED BY <2>3, <2>4 DEF Whole
<1> QED BY <1>1, <1>2, <1>3 DEF Whole

LEMMA RoundedIsNearest ==
  ASSUME NEW x \in Int
  PROVE  /\ Round2(x) \in Whole
         /\ -Cent <= 2 * (x - Round2(x)) /\ 2 * (x - Round2(x)) <= Cent
<1>1. Cent \in Nat /\ Cent > 0 BY CentIsPositive
<1> DEFINE q == (2 * x + Cent) \div (2 * Cent)
           r == (2 * x + Cent) % (2 * Cent)
<1>2. 2 * x + Cent \in Int /\ 2 * Cent \in Nat /\ 2 * Cent > 0 BY <1>1
<1>3. q \in Int /\ 2 * x + Cent = (2 * Cent) * q + r /\ 0 <= r /\ r < 2 * Cent /\ r \in Int
  BY <1>2, Quotient
<1>4. Round2(x) = q * Cent BY DEF Round2
<1> HIDE DEF q, r
<1> DEFINE y == q * Cent
<1>5. y \in Int /\ 2 * x + Cent = 2 * y + r
  <2>1. (2 * Cent) * q = 2 * (q * Cent) BY <1>1, <1>3
  <2> QED BY <1>1, <1>3, <2>1
<1>6. y \in Whole BY <1>3 DEF Whole
<1>7. Round2(x) = y BY <1>4
<1> HIDE DEF y
<1>8. -Cent <= 2 * (x - y) /\ 2 * (x - y) <= Cent BY <1>1, <1>3, <1>5
<1> QED BY <1>6, <1>7, <1>8

LEMMA WholeIsRounded ==
  ASSUME NEW x \in Whole
  PROVE  Round2(x) = x
<1>1. Cent \in Nat /\ Cent > 0 BY CentIsPositive
<1>2. x \in Int BY WholeSums
<1>3. Round2(x) \in Whole /\ -Cent <= 2 * (x - Round2(x)) /\ 2 * (x - Round2(x)) <= Cent
  BY <1>2, RoundedIsNearest
<1>4. x - Round2(x) \in Whole BY <1>3, WholeSums
<1>5. PICK d \in Int : x - Round2(x) = d * Cent BY <1>4 DEF Whole
<1>6. Round2(x) \in Int BY <1>3, WholeSums
<1>7. d > 0 => d * Cent >= Cent BY <1>1
<1>8. d < 0 => d * Cent <= -Cent
  <2>1. d < 0 => (-d) * Cent >= Cent BY <1>1
  <2>2. (-d) * Cent = -(d * Cent) BY <1>1
  <2>3. d * Cent \in Int BY <1>1
  <2> HIDE DEF Whole
  <2> QED BY <1>1, <2>1, <2>2, <2>3
<1>9. d = 0
  BY <1>1, <1>2, <1>3, <1>5, <1>6, <1>7, <1>8
<1>10. d * Cent = 0 BY <1>1, <1>9
<1> QED BY <1>2, <1>5, <1>6, <1>10

LEMMA MultiplesAreWhole ==
  ASSUME NEW n \in Int, n % Cent = 0
  PROVE  n \in Whole
<1>1. n \div Cent \in Int /\ n = Cent * (n \div Cent) + (n % Cent) BY CentIsPositive, Quotient
<1> DEFINE q == n \div Cent
<1>2. n = q * Cent BY <1>1, CentIsPositive
<1> HIDE DEF q
<1> QED BY <1>1, <1>2 DEF Whole, q

-----------------------------------------------------------------------------
(* Sequences: an appended and a replaced element.                          *)

LEMMA Appended ==
  ASSUME NEW S, NEW s \in Seq(S), NEW e \in S, NEW t, t = Append(s, e)
  PROVE  /\ t \in Seq(S) /\ Len(s) \in Nat /\ Len(t) = Len(s) + 1
         /\ \A k : k \in DOMAIN t <=> k \in DOMAIN s \/ k = Len(s) + 1
         /\ Len(s) + 1 \notin DOMAIN s
         /\ t[Len(s) + 1] = e
         /\ \A k \in DOMAIN s : t[k] = s[k] /\ k \in Nat
<1> DEFINE n == Len(s)
<1>1. n \in Nat /\ DOMAIN s = 1 .. n OBVIOUS
<1>2. t \in Seq(S) /\ Len(t) = n + 1 OBVIOUS
<1>3. DOMAIN t = 1 .. n + 1 BY <1>2
<1>4. t[n + 1] = e /\ \A k \in 1 .. n : t[k] = s[k] OBVIOUS
<1> HIDE DEF n
<1>5. /\ \A k : k \in DOMAIN t <=> k \in DOMAIN s \/ k = n + 1
      /\ n + 1 \notin DOMAIN s
      /\ \A k \in DOMAIN s : k \in Nat BY <1>1, <1>3
<1> QED BY <1>1, <1>2, <1>4, <1>5 DEF n

LEMMA Replaced ==
  ASSUME NEW S, NEW s \in Seq(S), NEW i \in DOMAIN s, NEW e \in S, NEW t, t = [s EXCEPT ![i] = e]
  PROVE  /\ t \in Seq(S) /\ Len(t) = Len(s) /\ DOMAIN t = DOMAIN s
         /\ t[i] = e /\ \A k \in DOMAIN s \ {i} : t[k] = s[k]
BY ExceptSeq

-----------------------------------------------------------------------------
(* Types, one conjunct at a time.                                          *)
Tasks == {Idle} \cup Settling \cup Checked \cup HasRead

LEMMA TaskTells ==
  ASSUME NEW x \in Tasks
  PROVE  /\ x.task = "settle" => x \in Settling
         /\ x.task = "checked" => x \in Checked
         /\ x.task = "read" => x \in HasRead
         /\ x # Idle => x.task \in {"settle", "checked", "read"}
         /\ x = Idle => x.task = "idle"
BY DEF Tasks, Idle, Settling, Checked, HasRead

(* The rows the actions insert.                                             *)
NewRow(u, type, n, from, k, ref, note) ==
  [user |-> u, type |-> type, amount |-> n, before |-> from, after |-> Round2(from + n),
   key |-> k, ref |-> ref, note |-> note]

NewSettlement(u, m, o, n, k) ==
  [user |-> u, market |-> m, outcome |-> o, key |-> k, estimated_return |-> Round2(n * Odds),
   status |-> "pending", winner |-> None, payout |-> 0]

Updated(i, status, winner, payout) ==
  [settlements[i] EXCEPT !.status = status, !.winner = winner, !.payout = payout]

LEMMA NewRowTyped ==
  ASSUME NEW u \in Users, NEW type \in WalletTypes \cup {"prediction", "settlement_win", "settlement_loss"},
         NEW n \in Int, NEW from \in Int, NEW k \in AnyKey, NEW ref \in Nat,
         NEW note \in SUBSET Nat
  PROVE  NewRow(u, type, n, from, k, ref, note) \in Row
<1>1. Round2(from + n) \in Int BY RoundedIsInt
<1> QED BY <1>1 DEF NewRow, Row, AnyKey

LEMMA NewSettlementTyped ==
  ASSUME NEW u \in Users, NEW m \in Markets, NEW o \in Outcomes, NEW n \in Stakes, NEW k \in AnyKey
  PROVE  NewSettlement(u, m, o, n, k) \in Settlement
<1>1. n * Odds \in Int /\ n * Odds \in Nat BY AmountsAssumption
<1>2. Round2(n * Odds) \in Nat BY <1>1, RoundedIsInt
<1> QED BY <1>2 DEF NewSettlement, Settlement, Pending, AnyKey

(* update_demo_settlement replaces one row.                                 *)
LEMMA UpdateReplaces ==
  ASSUME settlements \in Seq(Settlement), NEW i \in DOMAIN settlements,
         NEW status \in Settled \cup Pending, NEW winner \in Outcomes \cup {None}, NEW payout \in Nat,
         update_demo_settlement(i, status, winner, payout)
  PROVE  /\ Updated(i, status, winner, payout) \in Settlement
         /\ settlements' = [settlements EXCEPT ![i] = Updated(i, status, winner, payout)]
<1>1. settlements[i] \in Settlement OBVIOUS
<1>2. Updated(i, status, winner, payout) \in Settlement BY <1>1 DEF Updated, Settlement
<1>3. settlements' = [settlements EXCEPT ![i] = Updated(i, status, winner, payout)]
  BY DEF update_demo_settlement, Updated
<1> QED BY <1>2, <1>3

-----------------------------------------------------------------------------
(* What the transaction of settle_one does to a row that is not settled.    *)
SettlementTypes == {"settlement_win", "settlement_loss"}

Postponed(i, a) ==
  /\ a \in Unclear
  /\ \E status \in Pending :
       settlements' = [settlements EXCEPT ![i] = Updated(i, status, None, 0)]
  /\ UNCHANGED <<balance, ledger>>

Decided(i, a) ==
  LET s == settlements[i]
  IN /\ a \in Outcomes
     /\ balance' \in [Users -> Int]
     /\ \E status \in Settled, type \in SettlementTypes, payout \in Nat :
          /\ settlements' = [settlements EXCEPT ![i] = Updated(i, status, a, payout)]
          /\ IF settlement_ledger_entry_exists(i) THEN ledger' = ledger
             ELSE ledger' = Append(ledger, NewRow(s.user, type, payout, balance[s.user], NoKey, i, {i}))

LEMMA DecidedByAnswer ==
  ASSUME TypeOK, NEW i \in DOMAIN settlements, NEW a \in Answers, a \notin Unclear, Won(i, a) \/ Lost(i, a)
  PROVE  Decided(i, a)
<1> DEFINE s == settlements[i]
<1>0. a \in Outcomes BY AnswersAssumption
<1>1. settlements \in Seq(Settlement) /\ balance \in [Users -> Int] BY DEF TypeOK
<1>2. s \in Settlement BY <1>1
<1>3. s.user \in Users /\ s.estimated_return \in Nat BY <1>2 DEF Settlement
<1>4. CASE Won(i, a)
  <2>1. settlements' = [settlements EXCEPT ![i] = Updated(i, "settled_win", a, s.estimated_return)]
    BY <1>0, <1>1, <1>3, <1>4, UpdateReplaces DEF Won, Settled
  <2>2. IF settlement_ledger_entry_exists(i) THEN ledger' = ledger
        ELSE ledger' = Append(ledger, NewRow(s.user, "settlement_win", s.estimated_return, balance[s.user], NoKey, i, {i}))
    <3>1. CASE settlement_ledger_entry_exists(i) BY <1>4, <3>1 DEF Won
    <3>2. CASE ~settlement_ledger_entry_exists(i)
      <4>1. Record(s.user, "settlement_win", s.estimated_return, balance[s.user], NoKey, i, {i}) BY <1>4, <3>2 DEF Won
      <4> QED BY <3>2, <4>1 DEF Record, NewRow
    <3> QED BY <3>1, <3>2
  <2>0. balance[s.user] + s.estimated_return \in Int BY <1>1, <1>3
  <2>3. Round2(balance[s.user] + s.estimated_return) \in Int BY <2>0, RoundedIsInt
  <2>4. balance' \in [Users -> Int]
    BY <1>1, <1>3, <1>4, <2>3 DEF Won
  <2>5. "settled_win" \in Settled /\ "settlement_win" \in SettlementTypes BY DEF Settled, SettlementTypes
  <2> QED BY <1>0, <1>3, <2>1, <2>2, <2>4, <2>5 DEF Decided
<1>5. CASE Lost(i, a)
  <2>1. settlements' = [settlements EXCEPT ![i] = Updated(i, "settled_loss", a, 0)]
    BY <1>0, <1>1, <1>5, UpdateReplaces DEF Lost, Settled
  <2>2. IF settlement_ledger_entry_exists(i) THEN ledger' = ledger
        ELSE ledger' = Append(ledger, NewRow(s.user, "settlement_loss", 0, balance[s.user], NoKey, i, {i}))
    BY <1>5 DEF Lost, Record, NewRow
  <2>3. balance' \in [Users -> Int] BY <1>1, <1>5 DEF Lost
  <2>4. "settled_loss" \in Settled /\ "settlement_loss" \in SettlementTypes BY DEF Settled, SettlementTypes
  <2> QED BY <1>0, <2>1, <2>2, <2>3, <2>4 DEF Decided
<1> QED BY <1>4, <1>5

LEMMA CommitChanges ==
  ASSUME TypeOK, NEW w \in Workers, NEW i \in DOMAIN settlements, Commit(w, i)
  PROVE  \/ /\ settlements[i].status \in Settled
            /\ UNCHANGED <<balance, settlements, ledger, evidence>>
         \/ /\ settlements[i].status \notin Settled
            /\ \E a \in Answers : /\ evidence' = evidence \cup {<<i, a>>}
                                  /\ Postponed(i, a) \/ Decided(i, a)
<1>1. CASE ~StillUnsettled(i) BY <1>1 DEF Commit, StillUnsettled
<1>2. CASE StillUnsettled(i)
  <2> DEFINE a == work[w].answer
  <2>1. work[w] \in Settling
    <3>1. work[w] \in Tasks BY DEF TypeOK, Tasks
    <3> QED BY <3>1, TaskTells DEF Commit, IsNext
  <2>2. a \in Answers BY <2>1 DEF Commit, Settling
  <2>3. evidence' = evidence \cup {<<i, a>>} BY <1>2 DEF Commit
  <2>4. CASE a \in Unclear /\ NotConfirmed(i, a)
    <3> DEFINE status == IF a \in {"conflict", "invalid"} THEN "settlement_unknown" ELSE "settlement_pending"
    <3>1. status \in Pending /\ status \in Settled \cup Pending BY DEF Pending
    <3>2. update_demo_settlement(i, status, None, 0) /\ UNCHANGED <<balance, ledger>>
      BY <2>4 DEF NotConfirmed
    <3> HIDE DEF status
    <3>3. settlements' = [settlements EXCEPT ![i] = Updated(i, status, None, 0)]
      BY <3>1, <3>2, UpdateReplaces DEF TypeOK
    <3> QED BY <1>2, <2>2, <2>3, <2>4, <3>1, <3>2, <3>3 DEF Postponed, StillUnsettled
  <2>5. CASE a \notin Unclear /\ (Won(i, a) \/ Lost(i, a))
    BY <1>2, <2>2, <2>3, <2>5, DecidedByAnswer DEF StillUnsettled
  <2> QED BY <1>2, <2>4, <2>5 DEF Commit
<1> QED BY <1>1, <1>2

(* What is replaced keeps its user, key and estimated return.               *)
LEMMA UpdatedFields ==
  ASSUME settlements \in Seq(Settlement), NEW i \in DOMAIN settlements, NEW status \in Settled \cup Pending,
         NEW winner \in Outcomes \cup {None}, NEW payout \in Nat
  PROVE  LET x == Updated(i, status, winner, payout)
         IN /\ x \in Settlement
            /\ x.status = status /\ x.winner = winner /\ x.payout = payout
            /\ x.user = settlements[i].user /\ x.key = settlements[i].key
            /\ x.estimated_return = settlements[i].estimated_return
<1>1. settlements[i] \in Settlement OBVIOUS
<1> QED BY <1>1 DEF Updated, Settlement

-----------------------------------------------------------------------------
(* The types through every step.                                           *)
LEMMA TypeInit == Init => TypeOK
<1> SUFFICES ASSUME Init PROVE TypeOK OBVIOUS
<1>1. Initial \in Int /\ MaxSettlements \in Nat BY AmountsAssumption
<1>2. settlements \in Seq(Settlement) /\ Len(settlements) = 0 BY DEF Init
<1>3. ledger \in Seq(Row) BY DEF Init
<1>4. work \in [Workers -> Tasks] BY DEF Init, Tasks
<1> QED BY <1>1, <1>2, <1>3, <1>4 DEF Init, TypeOK, Tasks

LEMMA TypeOfWork ==
  ASSUME TypeOK, UNCHANGED <<balance, settlements, ledger, evidence, candidate>>,
         NEW w \in Workers, NEW x \in Tasks, work' = [work EXCEPT ![w] = x]
  PROVE  TypeOK'
<1>1. work' \in [Workers -> Tasks] BY DEF TypeOK, Tasks
<1> QED BY <1>1 DEF TypeOK, Tasks

LEMMA FinishSettles ==
  ASSUME TypeOK, NEW w \in Workers, NEW i, IsNext(w, i), Finish(w, i)
  PROVE  \E x \in {Idle} \cup Settling : work' = [work EXCEPT ![w] = x]
<1> DEFINE more == [task |-> "settle", todo |-> work[w].todo \ {i}, answer |-> None]
<1>1. work[w] \in Tasks BY DEF TypeOK, Tasks
<1>2. work[w] \in Settling BY <1>1, TaskTells DEF IsNext
<1>3. more \in Settling BY <1>2 DEF Settling
<1> HIDE DEF more
<1>4. CASE work[w].todo = {i} BY <1>4 DEF Finish
<1>5. CASE work[w].todo # {i}
  <2>1. work' = [work EXCEPT ![w] = more] BY <1>5 DEF Finish, more
  <2> QED BY <1>3, <2>1
<1> QED BY <1>4, <1>5

LEMMA CommitTyped ==
  ASSUME TypeOK, NEW w \in Workers, NEW i \in DOMAIN settlements, Commit(w, i)
  PROVE  TypeOK'
<1>0. /\ settlements \in Seq(Settlement) /\ Len(settlements) <= MaxSettlements
      /\ ledger \in Seq(Row) /\ balance \in [Users -> Int]
      /\ evidence \subseteq (1 .. MaxSettlements) \X Answers
  BY DEF TypeOK
<1>1. PICK x \in Tasks : work' = [work EXCEPT ![w] = x] BY FinishSettles DEF Commit, Tasks
<1>2. work' \in [Workers -> Tasks] BY <1>1 DEF TypeOK, Tasks
<1>3. ASSUME settlements' \in Seq(Settlement), Len(settlements') <= MaxSettlements, ledger' \in Seq(Row),
             balance' \in [Users -> Int], evidence' \subseteq (1 .. MaxSettlements) \X Answers
      PROVE  TypeOK'
  BY <1>2, <1>3 DEF TypeOK, Tasks, Commit
<1>4. CASE UNCHANGED <<balance, settlements, ledger, evidence>> BY <1>0, <1>3, <1>4
<1>5. ASSUME NEW a \in Answers, evidence' = evidence \cup {<<i, a>>}, Postponed(i, a) \/ Decided(i, a)
      PROVE  TypeOK'
  <2>1. i \in 1 .. MaxSettlements
    <3>1. i \in 1 .. Len(settlements) /\ Len(settlements) \in Nat BY <1>0
    <3> QED BY <1>0, <3>1, AmountsAssumption
  <2>2. evidence' \subseteq (1 .. MaxSettlements) \X Answers BY <1>0, <1>5, <2>1
  <2>3. \E x2 \in Settlement : settlements' = [settlements EXCEPT ![i] = x2]
    BY <1>0, <1>5, UpdatedFields DEF Postponed, Decided
  <2>4. settlements' \in Seq(Settlement) /\ Len(settlements') <= MaxSettlements
    BY <1>0, <2>3, Replaced
  <2>5. balance' \in [Users -> Int] BY <1>0, <1>5 DEF Postponed, Decided
  <2>6. ledger' \in Seq(Row)
    <3>1. ASSUME NEW type \in SettlementTypes, NEW payout \in Nat
          PROVE  NewRow(settlements[i].user, type, payout, balance[settlements[i].user], NoKey, i, {i}) \in Row
      <4>0. settlements[i] \in Settlement BY <1>0
      <4>1. settlements[i].user \in Users BY <4>0 DEF Settlement
      <4>2. balance[settlements[i].user] \in Int BY <1>0, <4>1
      <4>3. i \in Nat /\ {i} \in SUBSET Nat /\ NoKey \in AnyKey /\ payout \in Int BY <2>1 DEF AnyKey
      <4>4. type \in WalletTypes \cup {"prediction", "settlement_win", "settlement_loss"} BY DEF SettlementTypes
      <4> QED BY <4>1, <4>2, <4>3, <4>4, NewRowTyped
    <3>2. ledger' = ledger \/ \E e \in Row : ledger' = Append(ledger, e)
      BY <1>5, <3>1 DEF Postponed, Decided
    <3> QED BY <1>0, <3>2
  <2> QED BY <1>3, <2>2, <2>4, <2>5, <2>6
<1> QED BY <1>4, <1>5, CommitChanges

LEMMA WriteCallTyped ==
  ASSUME TypeOK, NEW w \in Workers, WriteCall(w)
  PROVE  /\ TypeOK' /\ work[w] \in HasRead
         /\ \E n \in Int : LET call == work[w].call
                          IN ledger' = Append(ledger, NewRow(call.user, call.type, n, work[w].before,
                                                             call.key, call.ref, call.note))
<1> DEFINE call   == work[w].call
           before == work[w].before
           amount == IF call.type = "demo_balance_reset" THEN Round2(Initial - before) ELSE call.amount
<1>1. work[w] \in HasRead
  <2>1. work[w] \in Tasks BY DEF TypeOK, Tasks
  <2> QED BY <2>1, TaskTells DEF WriteCall
<1>2. call \in Call /\ before \in Int BY <1>1 DEF HasRead
<1>3. /\ call.type \in WalletTypes /\ call.user \in Users /\ call.amount \in Int
      /\ call.key \in AnyKey /\ call.ref \in Nat /\ call.note \in SUBSET Nat
  BY <1>2, AmountsAssumption DEF Call, AnyKey
<1>4. amount \in Int
  <2>1. Initial - before \in Int BY <1>2, AmountsAssumption
  <2>2. Round2(Initial - before) \in Int BY <2>1, RoundedIsInt
  <2> QED BY <1>3, <2>2
<1>5. ledger' = Append(ledger, NewRow(call.user, call.type, amount, before, call.key, call.ref, call.note))
  BY DEF WriteCall, Record, NewRow
<1>6. balance' = [balance EXCEPT ![call.user] = Round2(before + amount)] BY DEF WriteCall
<1>7. UNCHANGED <<settlements, evidence, candidate>> /\ work' = [work EXCEPT ![w] = Idle]
  BY DEF WriteCall
<1> HIDE DEF amount
<1>8. NewRow(call.user, call.type, amount, before, call.key, call.ref, call.note) \in Row
  BY <1>2, <1>3, <1>4, NewRowTyped
<1>9. ledger' \in Seq(Row) BY <1>5, <1>8 DEF TypeOK
<1>10. before + amount \in Int BY <1>2, <1>4
<1>11. balance' \in [Users -> Int] BY <1>6, <1>10, RoundedIsInt DEF TypeOK
<1>12. work' \in [Workers -> Tasks] BY <1>7 DEF TypeOK, Tasks
<1>13. TypeOK' BY <1>7, <1>9, <1>11, <1>12 DEF TypeOK, Tasks
<1> QED BY <1>1, <1>4, <1>5, <1>13

LEMMA PredictChanges ==
  ASSUME TypeOK, NEW w \in Workers, NEW u \in Users, NEW m \in Markets, NEW o \in Outcomes,
         NEW n \in Stakes, NEW k \in AnyKey, Predict(w, u, m, o, n, k)
  PROVE  /\ TypeOK'
         /\ NewSettlement(u, m, o, n, k) \in Settlement
         /\ settlements' = Append(settlements, NewSettlement(u, m, o, n, k))
         /\ NewRow(u, "prediction", -n, balance[u], k, Len(settlements) + 1, {}) \in Row
         /\ ledger' = Append(ledger, NewRow(u, "prediction", -n, balance[u], k, Len(settlements) + 1, {}))
<1>0. /\ settlements \in Seq(Settlement) /\ Len(settlements) \in Nat /\ ledger \in Seq(Row)
      /\ balance \in [Users -> Int] /\ balance[u] \in Int /\ n \in Int
  BY AmountsAssumption DEF TypeOK
<1>1. NewSettlement(u, m, o, n, k) \in Settlement BY NewSettlementTyped
<1>2. settlements' = Append(settlements, NewSettlement(u, m, o, n, k)) BY DEF Predict, NewSettlement
<1>3. ledger' = Append(ledger, NewRow(u, "prediction", -n, balance[u], k, Len(settlements) + 1, {}))
  BY DEF Predict, Record, NewRow
<1>4. NewRow(u, "prediction", -n, balance[u], k, Len(settlements) + 1, {}) \in Row
  <2>1. Len(settlements) + 1 \in Nat /\ -n \in Int /\ {} \in SUBSET Nat BY <1>0
  <2> QED BY <1>0, <2>1, NewRowTyped
<1>5. balance' \in [Users -> Int]
  <2>1. balance[u] - n \in Int BY <1>0
  <2>2. Round2(balance[u] - n) \in Int BY <2>1, RoundedIsInt
  <2> QED BY <1>0, <2>2 DEF Predict
<1>6. ledger' \in Seq(Row) BY <1>0, <1>3, <1>4
<1>7. settlements' \in Seq(Settlement) /\ Len(settlements') <= MaxSettlements
  <2>1. settlements' \in Seq(Settlement) /\ Len(settlements') = Len(settlements) + 1
    BY <1>0, <1>1, <1>2, Appended
  <2> QED BY <1>0, <2>1, AmountsAssumption DEF Predict
<1>8. TypeOK' BY <1>5, <1>6, <1>7 DEF Predict, TypeOK
<1> QED BY <1>1, <1>2, <1>3, <1>4, <1>8

(* The steps that write no table: of a worker, and what it does next.       *)
Quiet(w, x) ==
  /\ UNCHANGED <<balance, settlements, ledger, evidence, candidate>>
  /\ work' = [work EXCEPT ![w] = x]

CallStep(w) ==
  \E k \in AnyKey, reason \in Reasons :
    \/ \E u \in Users, n \in Amounts : add_demo_points(w, u, n, k, reason)
    \/ \E u \in Users : reset_demo_balance(w, u, k, reason)
    \/ \E n \in DOMAIN ledger : reverse_demo_ledger_entry(w, n, k, reason)

SettleStep(w) ==
  \/ \E u \in Users : ListPending(w, u)
  \/ \E i \in DOMAIN settlements, a \in Answers : Fetch(w, i, a)
  \/ \E i \in DOMAIN settlements : Skip(w, i)

LEMMA CallQuiet ==
  ASSUME TypeOK, NEW w \in Workers, CallStep(w)
  PROVE  /\ work[w] = Idle
         /\ \E call \in Call : /\ Quiet(w, [task |-> "checked", call |-> call])
                             /\ call.amount \in Whole
<1>1. ASSUME NEW call, CheckCall(w, call)
      PROVE  work[w] = Idle /\ Quiet(w, [task |-> "checked", call |-> call])
  BY <1>1 DEF CheckCall, Quiet
<1> PICK k \in AnyKey, reason \in Reasons :
      \/ \E u \in Users, n \in Amounts : add_demo_points(w, u, n, k, reason)
      \/ \E u \in Users : reset_demo_balance(w, u, k, reason)
      \/ \E n \in DOMAIN ledger : reverse_demo_ledger_entry(w, n, k, reason)
  BY DEF CallStep
<1>2. ASSUME NEW u \in Users, NEW n \in Amounts, add_demo_points(w, u, n, k, reason)
      PROVE  \E call \in Call : CheckCall(w, call) /\ call.amount \in Whole
  <2>1. n \in Int /\ n \in Whole
    <3>1. n \in Int /\ n % Cent = 0 BY AmountsAssumption
    <3> QED BY <3>1, MultiplesAreWhole
  <2>2. [type |-> "demo_point_add", user |-> u, amount |-> n, key |-> k, ref |-> 0, note |-> reason] \in Call
    BY <2>1 DEF Call, WalletTypes, AnyKey
  <2> QED BY <1>2, <2>1, <2>2 DEF add_demo_points
<1>3. ASSUME NEW u \in Users, reset_demo_balance(w, u, k, reason)
      PROVE  \E call \in Call : CheckCall(w, call) /\ call.amount \in Whole
  <2>1. [type |-> "demo_balance_reset", user |-> u, amount |-> 0, key |-> k, ref |-> 0, note |-> reason] \in Call
    BY DEF Call, WalletTypes, AnyKey
  <2> QED BY <1>3, <2>1, WholeSums DEF reset_demo_balance
<1>4. ASSUME NEW n \in DOMAIN ledger, reverse_demo_ledger_entry(w, n, k, reason)
      PROVE  \E call \in Call : CheckCall(w, call) /\ call.amount \in Whole
  <2> DEFINE call == [type |-> "correction_reversal", user |-> ledger[n].user,
                      amount |-> Round2(-ledger[n].amount), key |-> k, ref |-> n, note |-> reason]
  <2>1. ledger[n] \in Row /\ n \in Nat BY DEF TypeOK
  <2>2. -ledger[n].amount \in Int /\ ledger[n].user \in Users BY <2>1 DEF Row
  <2>3. Round2(-ledger[n].amount) \in Int /\ Round2(-ledger[n].amount) \in Whole
    BY <2>2, RoundedIsInt, RoundedIsNearest
  <2>4. call \in Call BY <2>1, <2>2, <2>3 DEF Call, WalletTypes, AnyKey
  <2>5. call.amount \in Whole BY <2>3
  <2>6. CheckCall(w, call) BY <1>4 DEF reverse_demo_ledger_entry
  <2> HIDE DEF call
  <2> QED BY <2>4, <2>5, <2>6
<1> QED BY <1>1, <1>2, <1>3, <1>4

LEMMA SettleQuiet ==
  ASSUME TypeOK, NEW w \in Workers, SettleStep(w)
  PROVE  \E x \in {Idle} \cup Settling : Quiet(w, x)
<1>0. work[w] \in Tasks BY DEF TypeOK, Tasks
<1>1. ASSUME NEW u \in Users, ListPending(w, u) PROVE \E x \in {Idle} \cup Settling : Quiet(w, x)
  <2> DEFINE todo == {i \in DOMAIN settlements : settlements[i].user = u /\ settlements[i].status \in Pending}
             x == [task |-> "settle", todo |-> todo, answer |-> None]
  <2>1. DOMAIN settlements \subseteq 1 .. MaxSettlements
    <3>1. settlements \in Seq(Settlement) /\ Len(settlements) <= MaxSettlements BY DEF TypeOK
    <3>2. DOMAIN settlements = 1 .. Len(settlements) /\ Len(settlements) \in Nat BY <3>1
    <3> QED BY <3>1, <3>2, AmountsAssumption
  <2>2. todo \in SUBSET (1 .. MaxSettlements) BY <2>1
  <2>3. work' = [work EXCEPT ![w] = x] BY <1>1 DEF ListPending
  <2> HIDE DEF todo
  <2>4. x \in Settling BY <2>2 DEF Settling
  <2> QED BY <1>1, <2>3, <2>4 DEF ListPending, Quiet
<1>2. ASSUME NEW i, NEW a \in Answers, Fetch(w, i, a) PROVE \E x \in {Idle} \cup Settling : Quiet(w, x)
  <2>1. work[w] \in Settling BY <1>0, <1>2, TaskTells DEF Fetch, IsNext
  <2>2. [work[w] EXCEPT !.answer = a] \in Settling BY <2>1 DEF Settling
  <2>3. work' = [work EXCEPT ![w] = [work[w] EXCEPT !.answer = a]] BY <1>2 DEF Fetch
  <2> QED BY <1>2, <2>2, <2>3 DEF Fetch, Quiet
<1>3. ASSUME NEW i, Skip(w, i) PROVE \E x \in {Idle} \cup Settling : Quiet(w, x)
  <2> DEFINE more == [task |-> "settle", todo |-> work[w].todo \ {i}, answer |-> None]
  <2>1. work[w] \in Settling BY <1>0, <1>3, TaskTells DEF Skip, IsNext
  <2>2. more \in Settling BY <2>1 DEF Settling
  <2>3. work' = [work EXCEPT ![w] = Idle] \/ work' = [work EXCEPT ![w] = more]
    BY <1>3 DEF Skip, Finish
  <2> HIDE DEF more
  <2> QED BY <1>3, <2>2, <2>3 DEF Skip, Quiet
<1> QED BY <1>1, <1>2, <1>3 DEF SettleStep

LEMMA ReadQuiet ==
  ASSUME TypeOK, NEW w \in Workers, ReadBalance(w)
  PROVE  /\ work[w] \in Checked
         /\ \E b \in Int : /\ b = balance[work[w].call.user] /\ work[w].call.user \in Users
                         /\ Quiet(w, [task |-> "read", call |-> work[w].call, before |-> b])
<1>1. work[w] \in Checked
  <2>1. work[w] \in Tasks BY DEF TypeOK, Tasks
  <2> QED BY <2>1, TaskTells DEF ReadBalance
<1>2. work[w].call.user \in Users BY <1>1 DEF Checked, Call
<1>3. balance[work[w].call.user] \in Int BY <1>2 DEF TypeOK
<1> QED BY <1>1, <1>2, <1>3 DEF ReadBalance, Quiet

LEMMA TypeStep ==
  ASSUME TypeOK, [Next]_vars
  PROVE  TypeOK'
<1>1. ASSUME NEW m \in Markets, NEW o \in Reports, Observe(m, o) PROVE TypeOK'
  <2>1. candidate' \in [Markets -> Outcomes \cup {None}] BY <1>1, AnswersAssumption DEF Observe, TypeOK
  <2> QED BY <1>1, <2>1 DEF Observe, TypeOK
<1>2. ASSUME NEW w \in Workers, NEW x \in Tasks, Quiet(w, x) PROVE TypeOK'
  BY <1>2, TypeOfWork DEF Quiet
<1>3. ASSUME NEW w \in Workers, CallStep(w) PROVE TypeOK'
  <2>1. PICK call \in Call : Quiet(w, [task |-> "checked", call |-> call]) BY <1>3, CallQuiet
  <2>2. [task |-> "checked", call |-> call] \in Tasks BY DEF Tasks, Checked
  <2> QED BY <1>2, <2>1, <2>2
<1>4. ASSUME NEW w \in Workers, SettleStep(w) PROVE TypeOK'
  BY <1>2, <1>4, SettleQuiet DEF Tasks
<1>5. ASSUME NEW w \in Workers, ReadBalance(w) PROVE TypeOK'
  <2>1. PICK b \in Int : Quiet(w, [task |-> "read", call |-> work[w].call, before |-> b]) BY <1>5, ReadQuiet
  <2>2. work[w].call \in Call BY <1>5, ReadQuiet DEF Checked
  <2>3. [task |-> "read", call |-> work[w].call, before |-> b] \in Tasks BY <2>2 DEF Tasks, HasRead
  <2> QED BY <1>2, <2>1, <2>3
<1>6. ASSUME NEW w \in Workers, Abandon(w) PROVE TypeOK'
  BY <1>2, <1>6 DEF Abandon, Quiet, Tasks
<1>7. CASE UNCHANGED vars BY <1>7 DEF vars, TypeOK
<1> QED
  BY <1>1, <1>3, <1>4, <1>5, <1>6, <1>7, PredictChanges, WriteCallTyped, CommitTyped
  DEF Next, CallStep, SettleStep, AnyKey

-----------------------------------------------------------------------------
(* Paid once, and what a row's note may name.                              *)
RefsKnown ==
  \A n \in DOMAIN ledger : ledger[n].type \in SettlementTypes => ledger[n].ref \in DOMAIN settlements

(* The row of a settlement names it and nothing else; any other row names   *)
(* nothing, or what some operator's reason does.                            *)
NoteFits(r) ==
  IF r.type \in SettlementTypes THEN r.note = {r.ref} ELSE r.note \in Reasons \cup {{}}

NotesKnown == \A n \in DOMAIN ledger : NoteFits(ledger[n])

EvidenceKnown == \A e \in evidence : e[1] \in DOMAIN settlements

SettlementInvariant ==
  /\ TypeOK /\ RefsKnown /\ NotesKnown /\ EvidenceKnown /\ EvidenceDecides /\ PaidUnlessNamed

(* A row more.                                                              *)
LEMMA RowsAfter ==
  ASSUME ledger \in Seq(Row), NEW r \in Row, ledger' = Append(ledger, r), NEW i
  PROVE  SettlementRows(i)' = SettlementRows(i) \cup
           (IF r.type \in SettlementTypes /\ r.ref = i THEN {Len(ledger) + 1} ELSE {})
<1> DEFINE n == Len(ledger) + 1
<1>1. /\ \A k : k \in DOMAIN ledger' <=> k \in DOMAIN ledger \/ k = n
      /\ n \notin DOMAIN ledger /\ ledger'[n] = r
      /\ \A k \in DOMAIN ledger : ledger'[k] = ledger[k]
  BY Appended
<1> HIDE DEF n
<1>2. SettlementRows(i)' = SettlementRows(i) \cup
        (IF r.type \in SettlementTypes /\ r.ref = i THEN {n} ELSE {})
  BY <1>1 DEF SettlementRows, SettlementTypes
<1> QED BY <1>2 DEF n

(* A row more leaves a settlement's own row and every note.                 *)
LEMMA RowKeeps ==
  ASSUME ledger \in Seq(Row), NEW r \in Row, ledger' = Append(ledger, r), NEW i \in DOMAIN settlements,
         i \in DOMAIN settlements', settlements'[i] = settlements[i],
         r.type \in SettlementTypes => r.ref # i
  PROVE  /\ SettlementRows(i)' = SettlementRows(i)
         /\ HasItsRow(i) => HasItsRow(i)'
         /\ settlement_ledger_entry_exists(i) => settlement_ledger_entry_exists(i)'
<1>1. \A k \in DOMAIN ledger : k \in DOMAIN ledger' /\ ledger'[k] = ledger[k] BY Appended
<1>2. SettlementRows(i)' = SettlementRows(i) \cup {} BY RowsAfter
<1>3. SettlementRows(i)' = SettlementRows(i) BY <1>2
<1>4. HasItsRow(i) => HasItsRow(i)' BY <1>1, <1>3 DEF HasItsRow
<1>5. settlement_ledger_entry_exists(i) => settlement_ledger_entry_exists(i)'
  BY <1>1 DEF settlement_ledger_entry_exists
<1> QED BY <1>3, <1>4, <1>5

(* Steps that add a row of another type, or none, and leave the settlements. *)
LEMMA OtherRowKeeps ==
  ASSUME SettlementInvariant, UNCHANGED <<settlements, evidence>>, TypeOK',
         \/ ledger' = ledger
         \/ \E r \in Row : /\ ledger' = Append(ledger, r) /\ r.type \notin SettlementTypes
                          /\ r.note \in Reasons \cup {{}}
  PROVE  SettlementInvariant'
<1>0. ledger \in Seq(Row) BY DEF SettlementInvariant, TypeOK
<1>1. EvidenceKnown' /\ EvidenceDecides'
  BY DEF SettlementInvariant, EvidenceKnown, EvidenceDecides
<1>2. CASE ledger' = ledger
  BY <1>1, <1>2 DEF SettlementInvariant, RefsKnown, NotesKnown, PaidUnlessNamed, HasItsRow, SettlementRows,
                    settlement_ledger_entry_exists
<1>3. ASSUME NEW r \in Row, ledger' = Append(ledger, r), r.type \notin SettlementTypes,
             r.note \in Reasons \cup {{}}
      PROVE  SettlementInvariant'
  <2>1. \A k \in DOMAIN ledger' : (k \in DOMAIN ledger /\ ledger'[k] = ledger[k]) \/ ledger'[k] = r
    BY <1>0, <1>3, Appended
  <2>2. RefsKnown' BY <1>3, <2>1 DEF SettlementInvariant, RefsKnown
  <2>3. NotesKnown' BY <1>3, <2>1 DEF SettlementInvariant, NotesKnown, NoteFits
  <2>4. ASSUME NEW i \in DOMAIN settlements
        PROVE  /\ SettlementRows(i)' = SettlementRows(i)
               /\ HasItsRow(i) => HasItsRow(i)'
               /\ settlement_ledger_entry_exists(i) => settlement_ledger_entry_exists(i)'
    BY <1>0, <1>3, RowKeeps
  <2>5. PaidUnlessNamed' BY <2>4 DEF SettlementInvariant, PaidUnlessNamed
  <2> QED BY <1>1, <2>2, <2>3, <2>5 DEF SettlementInvariant
<1> QED BY <1>2, <1>3

LEMMA PredictKeeps ==
  ASSUME SettlementInvariant, NEW w \in Workers, NEW u \in Users, NEW m \in Markets, NEW o \in Outcomes,
         NEW n \in Stakes, NEW k \in AnyKey, Predict(w, u, m, o, n, k)
  PROVE  SettlementInvariant'
<1>a. Len(settlements) + 1 \in Nat BY DEF SettlementInvariant, TypeOK
<1> PICK new \in Nat : new = Len(settlements) + 1 BY <1>a
<1> DEFINE x == NewSettlement(u, m, o, n, k)
           r == NewRow(u, "prediction", -n, balance[u], k, new, {})
<1>0. TypeOK /\ settlements \in Seq(Settlement) /\ ledger \in Seq(Row) BY DEF SettlementInvariant, TypeOK
<1>1. /\ TypeOK' /\ x \in Settlement /\ settlements' = Append(settlements, x)
      /\ r \in Row /\ ledger' = Append(ledger, r)
  BY <1>0, PredictChanges
<1>2. r.type = "prediction" /\ r.note = {} /\ x.status = "pending" BY DEF NewRow, NewSettlement
<1>3. evidence' = evidence BY DEF Predict
<1> HIDE DEF x, r
<1>4. /\ \A i : i \in DOMAIN settlements' <=> i \in DOMAIN settlements \/ i = new
      /\ new \notin DOMAIN settlements /\ settlements'[new] = x
      /\ \A i \in DOMAIN settlements : settlements'[i] = settlements[i]
  BY <1>0, <1>1, Appended
<1>5. /\ \A i \in DOMAIN ledger : i \in DOMAIN ledger' /\ ledger'[i] = ledger[i]
      /\ \A i \in DOMAIN ledger' : i \in DOMAIN ledger \/ ledger'[i] = r
  BY <1>0, <1>1, Appended
<1>6. RefsKnown' BY <1>2, <1>4, <1>5 DEF SettlementInvariant, RefsKnown, SettlementTypes
<1>7. EvidenceKnown' BY <1>3, <1>4 DEF SettlementInvariant, EvidenceKnown
<1>8. EvidenceDecides'
  <2>1. \A a \in Answers : <<new, a>> \notin evidence BY <1>4 DEF SettlementInvariant, EvidenceKnown
  <2>2. settlements'[new].status \notin Settled BY <1>2, <1>4 DEF Settled
  <2> QED BY <1>3, <1>4, <2>1, <2>2 DEF SettlementInvariant, EvidenceDecides
<1>9. NotesKnown' BY <1>2, <1>5 DEF SettlementInvariant, NotesKnown, NoteFits, SettlementTypes
<1>10. PaidUnlessNamed'
  <2>0. r.type \notin SettlementTypes BY <1>2 DEF SettlementTypes
  <2>1. SettlementRows(new)' = SettlementRows(new) \cup {} BY <1>0, <1>1, <2>0, RowsAfter
  <2>2. SettlementRows(new) = {} BY <1>4 DEF SettlementInvariant, RefsKnown, SettlementRows, SettlementTypes
  <2>3. settlements'[new].status \notin Settled /\ SettlementRows(new)' = {}
    BY <1>2, <1>4, <2>1, <2>2 DEF Settled
  <2>4. ASSUME NEW i \in DOMAIN settlements
        PROVE  /\ SettlementRows(i)' = SettlementRows(i)
               /\ HasItsRow(i) => HasItsRow(i)'
               /\ settlement_ledger_entry_exists(i) => settlement_ledger_entry_exists(i)'
    BY <1>0, <1>1, <1>4, <2>0, RowKeeps
  <2>5. ASSUME NEW i \in DOMAIN settlements
        PROVE  IF settlements'[i].status \in Settled
               THEN HasItsRow(i)' \/ (SettlementRows(i)' = {} /\ settlement_ledger_entry_exists(i)')
               ELSE SettlementRows(i)' = {}
    <3>1. settlements'[i] = settlements[i] BY <1>4
    <3>2. PaidUnlessNamed BY DEF SettlementInvariant
    <3> QED BY <2>4, <3>1, <3>2 DEF PaidUnlessNamed
  <2>6. ASSUME NEW i \in DOMAIN settlements'
        PROVE  IF settlements'[i].status \in Settled
               THEN HasItsRow(i)' \/ (SettlementRows(i)' = {} /\ settlement_ledger_entry_exists(i)')
               ELSE SettlementRows(i)' = {}
    BY <1>4, <2>3, <2>5
  <2> QED BY <2>6 DEF PaidUnlessNamed
<1> QED BY <1>1, <1>6, <1>7, <1>8, <1>9, <1>10 DEF SettlementInvariant

(* The transaction of settle_one, for the row it is about and the others.   *)
LEMMA CommitRow ==
  ASSUME TypeOK, NEW w \in Workers, NEW i \in DOMAIN settlements, Commit(w, i),
         settlements[i].status \notin Settled
  PROVE  /\ DOMAIN settlements' = DOMAIN settlements
         /\ \A j \in DOMAIN settlements \ {i} : settlements'[j] = settlements[j]
         /\ settlements'[i].user = settlements[i].user /\ settlements'[i].key = settlements[i].key
         /\ settlements'[i].estimated_return = settlements[i].estimated_return
         /\ \E a \in Answers :
              /\ evidence' = evidence \cup {<<i, a>>}
              /\ \/ /\ a \in Unclear /\ settlements'[i].status \notin Settled
                    /\ ledger' = ledger
                 \/ /\ a \notin Unclear /\ settlements'[i].status \in Settled
                    /\ settlements'[i].winner = a
                    /\ IF settlement_ledger_entry_exists(i) THEN ledger' = ledger
                       ELSE \E r \in Row :
                              /\ ledger' = Append(ledger, r) /\ r.key = NoKey
                              /\ r.type \in SettlementTypes /\ r.ref = i /\ r.note = {i}
                              /\ r.user = settlements[i].user /\ r.amount = settlements'[i].payout
<1>0. settlements \in Seq(Settlement) /\ balance \in [Users -> Int] BY DEF TypeOK
<1>1. PICK a \in Answers : evidence' = evidence \cup {<<i, a>>} /\ (Postponed(i, a) \/ Decided(i, a))
  BY CommitChanges
<1>2. ASSUME NEW x \in Settlement, settlements' = [settlements EXCEPT ![i] = x]
      PROVE  /\ DOMAIN settlements' = DOMAIN settlements /\ settlements'[i] = x
             /\ \A j \in DOMAIN settlements \ {i} : settlements'[j] = settlements[j]
  BY <1>0, <1>2, Replaced
<1>3. CASE Postponed(i, a)
  <2>1. PICK status \in Pending : settlements' = [settlements EXCEPT ![i] = Updated(i, status, None, 0)]
    BY <1>3 DEF Postponed
  <2> DEFINE x == Updated(i, status, None, 0)
  <2>0. settlements[i] \in Settlement BY <1>0
  <2>2. /\ x \in Settlement /\ x.status = status
        /\ x.user = settlements[i].user /\ x.key = settlements[i].key
        /\ x.estimated_return = settlements[i].estimated_return
    BY <2>0 DEF Updated, Settlement
  <2>3. settlements' = [settlements EXCEPT ![i] = x] BY <2>1
  <2> HIDE DEF x
  <2>4. status \notin Settled BY DEF Pending, Settled
  <2> QED BY <1>1, <1>2, <1>3, <2>2, <2>3, <2>4 DEF Postponed
<1>4. CASE Decided(i, a)
  <2>1. PICK status \in Settled, type \in SettlementTypes, payout \in Nat :
          /\ settlements' = [settlements EXCEPT ![i] = Updated(i, status, a, payout)]
          /\ IF settlement_ledger_entry_exists(i) THEN ledger' = ledger
             ELSE ledger' = Append(ledger, NewRow(settlements[i].user, type, payout,
                                                  balance[settlements[i].user], NoKey, i, {i}))
    BY <1>4 DEF Decided
  <2> DEFINE x == Updated(i, status, a, payout)
             r == NewRow(settlements[i].user, type, payout, balance[settlements[i].user], NoKey, i, {i})
  <2>2. a \in Outcomes /\ a \notin Unclear BY <1>4, AnswersAssumption DEF Decided
  <2>3. /\ x \in Settlement /\ x.status = status /\ x.winner = a /\ x.payout = payout
        /\ x.user = settlements[i].user /\ x.key = settlements[i].key
        /\ x.estimated_return = settlements[i].estimated_return
    BY <1>0, <2>2, UpdatedFields
  <2>4. r \in Row
    <3>1. settlements[i] \in Settlement /\ i \in Nat /\ {i} \in SUBSET Nat BY <1>0
    <3>2. settlements[i].user \in Users BY <3>1 DEF Settlement
    <3>3. balance[settlements[i].user] \in Int BY <1>0, <3>2
    <3>4. NoKey \in AnyKey /\ payout \in Int BY DEF AnyKey
    <3>5. type \in WalletTypes \cup {"prediction", "settlement_win", "settlement_loss"} BY DEF SettlementTypes
    <3> QED BY <3>1, <3>2, <3>3, <3>4, <3>5, NewRowTyped
  <2>5. /\ r.key = NoKey /\ r.type = type /\ r.ref = i /\ r.note = {i}
        /\ r.user = settlements[i].user /\ r.amount = payout
    BY DEF NewRow
  <2>6. settlements' = [settlements EXCEPT ![i] = x] BY <2>1
  <2>7. IF settlement_ledger_entry_exists(i) THEN ledger' = ledger ELSE ledger' = Append(ledger, r) BY <2>1
  <2> HIDE DEF x, r
  <2>8. /\ DOMAIN settlements' = DOMAIN settlements /\ settlements'[i] = x
        /\ \A j \in DOMAIN settlements \ {i} : settlements'[j] = settlements[j]
    BY <1>2, <2>3, <2>6
  <2> QED BY <1>1, <2>2, <2>3, <2>4, <2>5, <2>7, <2>8
<1> QED BY <1>1, <1>3, <1>4

LEMMA CommitKeeps ==
  ASSUME SettlementInvariant, NEW w \in Workers, NEW i \in DOMAIN settlements, Commit(w, i)
  PROVE  SettlementInvariant'
<1>0. TypeOK /\ TypeOK' /\ ledger \in Seq(Row) BY CommitTyped DEF SettlementInvariant, TypeOK
<1>1. CASE settlements[i].status \in Settled
  BY <1>0, <1>1, CommitChanges, OtherRowKeeps
<1>2. CASE settlements[i].status \notin Settled
  <2>1. /\ DOMAIN settlements' = DOMAIN settlements
        /\ \A j \in DOMAIN settlements \ {i} : settlements'[j] = settlements[j]
        /\ settlements'[i].user = settlements[i].user
    BY <1>0, <1>2, CommitRow
  <2>2. PICK a \in Answers :
          /\ evidence' = evidence \cup {<<i, a>>}
          /\ \/ /\ a \in Unclear /\ settlements'[i].status \notin Settled
                /\ ledger' = ledger
             \/ /\ a \notin Unclear /\ settlements'[i].status \in Settled
                /\ settlements'[i].winner = a
                /\ IF settlement_ledger_entry_exists(i) THEN ledger' = ledger
                   ELSE \E r \in Row :
                          /\ ledger' = Append(ledger, r) /\ r.key = NoKey
                          /\ r.type \in SettlementTypes /\ r.ref = i /\ r.note = {i}
                          /\ r.user = settlements[i].user /\ r.amount = settlements'[i].payout
    BY <1>0, <1>2, CommitRow
  <2>3. ledger' = ledger \/ \E r \in Row : /\ ledger' = Append(ledger, r)
                                           /\ r.type \in SettlementTypes /\ r.ref = i
                                           /\ r.note = {i}
    BY <2>2
  <2>4. RefsKnown' /\ NotesKnown'
    <3>1. CASE ledger' = ledger BY <2>1, <3>1 DEF SettlementInvariant, RefsKnown, NotesKnown
    <3>2. ASSUME NEW r \in Row, ledger' = Append(ledger, r), r.type \in SettlementTypes, r.ref = i, r.note = {i}
          PROVE  RefsKnown' /\ NotesKnown'
      <4>1. \A k \in DOMAIN ledger' : (k \in DOMAIN ledger /\ ledger'[k] = ledger[k]) \/ ledger'[k] = r
        BY <1>0, <3>2, Appended
      <4> QED BY <2>1, <3>2, <4>1 DEF SettlementInvariant, RefsKnown, NotesKnown, NoteFits
    <3> QED BY <2>3, <3>1, <3>2
  <2>5. EvidenceKnown' BY <2>1, <2>2 DEF SettlementInvariant, EvidenceKnown
  <2>6. EvidenceDecides'
    <3>1. {b \in Answers : b \notin Unclear /\ <<i, b>> \in evidence} = {}
      BY <1>2 DEF SettlementInvariant, EvidenceDecides
    <3>2. {b \in Answers : b \notin Unclear /\ <<i, b>> \in evidence'} =
            IF settlements'[i].status \in Settled THEN {settlements'[i].winner} ELSE {}
      BY <2>2, <3>1
    <3>3. ASSUME NEW j \in DOMAIN settlements \ {i}
          PROVE  {b \in Answers : b \notin Unclear /\ <<j, b>> \in evidence'} =
                   IF settlements'[j].status \in Settled THEN {settlements'[j].winner} ELSE {}
      <4>1. \A b : <<j, b>> \in evidence' <=> <<j, b>> \in evidence BY <2>2
      <4> QED BY <2>1, <4>1 DEF SettlementInvariant, EvidenceDecides
    <3> QED BY <2>1, <3>2, <3>3 DEF EvidenceDecides
  <2>7. PaidUnlessNamed'
    <3>1. SettlementRows(i) = {} /\ PaidUnlessNamed BY <1>2 DEF SettlementInvariant, PaidUnlessNamed
    <3>2. CASE ledger' = ledger
      <4>1. \A j : SettlementRows(j)' = SettlementRows(j) BY <3>2 DEF SettlementRows
      <4>2. \A j : settlement_ledger_entry_exists(j)' <=> settlement_ledger_entry_exists(j)
        BY <3>2 DEF settlement_ledger_entry_exists
      <4>3. \A j \in DOMAIN settlements \ {i} : HasItsRow(j) => HasItsRow(j)'
        BY <2>1, <3>2, <4>1 DEF HasItsRow
      <4>4. settlements'[i].status \in Settled => settlement_ledger_entry_exists(i)
        <5>1. ASSUME NEW r \in Row, ledger' = Append(ledger, r) PROVE FALSE
          <6>1. Len(ledger) + 1 \in DOMAIN ledger' /\ Len(ledger) + 1 \notin DOMAIN ledger
            BY <1>0, <5>1, Appended
          <6> QED BY <3>2, <6>1
        <5> QED BY <2>2, <5>1
      <4> QED BY <2>1, <3>1, <4>1, <4>2, <4>3, <4>4 DEF PaidUnlessNamed
    <3>3. CASE ledger' # ledger
      <4>0. settlements'[i].status \in Settled BY <2>2, <3>3
      <4>1. PICK r \in Row : /\ ledger' = Append(ledger, r)
                             /\ r.type \in SettlementTypes /\ r.ref = i
                             /\ r.user = settlements[i].user /\ r.amount = settlements'[i].payout
        BY <2>2, <3>3
      <4> DEFINE n == Len(ledger) + 1
      <4>2. n \in DOMAIN ledger' /\ ledger'[n] = r BY <1>0, <4>1, Appended
      <4>3. SettlementRows(i)' = {n} BY <1>0, <3>1, <4>1, RowsAfter
      <4> HIDE DEF n
      <4>4. ASSUME NEW j \in DOMAIN settlements \ {i}
            PROVE  /\ SettlementRows(j)' = SettlementRows(j)
                   /\ HasItsRow(j) => HasItsRow(j)'
                   /\ settlement_ledger_entry_exists(j) => settlement_ledger_entry_exists(j)'
        BY <1>0, <2>1, <4>1, RowKeeps
      <4>5. HasItsRow(i)' BY <2>1, <4>1, <4>2, <4>3 DEF HasItsRow
      <4> QED BY <2>1, <3>1, <4>0, <4>4, <4>5 DEF PaidUnlessNamed
    <3> QED BY <3>2, <3>3
  <2> QED BY <1>0, <2>4, <2>5, <2>6, <2>7 DEF SettlementInvariant
<1> QED BY <1>1, <1>2

LEMMA SettlementInit == Init => SettlementInvariant
<1> SUFFICES ASSUME Init PROVE SettlementInvariant OBVIOUS
<1>1. TypeOK BY TypeInit
<1>2. DOMAIN settlements = {} /\ DOMAIN ledger = {} /\ evidence = {} BY DEF Init
<1> QED
  BY <1>1, <1>2 DEF SettlementInvariant, RefsKnown, NotesKnown, EvidenceKnown, EvidenceDecides, PaidUnlessNamed

LEMMA SettlementStep ==
  ASSUME SettlementInvariant, [Next]_vars
  PROVE  SettlementInvariant'
<1>0. TypeOK /\ TypeOK' BY TypeStep DEF SettlementInvariant
<1>1. ASSUME UNCHANGED <<settlements, evidence, ledger>> PROVE SettlementInvariant'
  BY <1>0, <1>1, OtherRowKeeps
<1>2. ASSUME NEW w \in Workers, WriteCall(w) PROVE SettlementInvariant'
  <2> DEFINE call == work[w].call
  <2>1. PICK n \in Int : ledger' = Append(ledger, NewRow(call.user, call.type, n, work[w].before, call.key, call.ref, call.note))
    BY <1>0, <1>2, WriteCallTyped
  <2> DEFINE r == NewRow(call.user, call.type, n, work[w].before, call.key, call.ref, call.note)
  <2>2. call \in Call /\ work[w].before \in Int BY <1>0, <1>2, WriteCallTyped DEF HasRead
  <2>3. call.user \in Users /\ call.type \in WalletTypes /\ call.key \in AnyKey /\ call.ref \in Nat
        /\ call.note \in Reasons /\ call.note \in SUBSET Nat
    BY <2>2, AmountsAssumption DEF Call, AnyKey
  <2>4. r \in Row BY <2>2, <2>3, NewRowTyped
  <2>5. r.type \notin SettlementTypes /\ r.note \in Reasons \cup {{}}
    BY <2>3 DEF NewRow, WalletTypes, SettlementTypes
  <2>6. ledger' = Append(ledger, r) BY <2>1
  <2>7. UNCHANGED <<settlements, evidence>> BY <1>2 DEF WriteCall
  <2> HIDE DEF r
  <2> QED BY <1>0, <2>4, <2>5, <2>6, <2>7, OtherRowKeeps
<1>3. ASSUME NEW w \in Workers, CallStep(w) \/ SettleStep(w) \/ ReadBalance(w) \/ Abandon(w)
      PROVE  UNCHANGED <<settlements, evidence, ledger>>
  BY <1>0, <1>3, CallQuiet, SettleQuiet, ReadQuiet DEF Quiet, Abandon
<1>4. ASSUME NEW m, NEW o, Observe(m, o) PROVE UNCHANGED <<settlements, evidence, ledger>>
  BY <1>4 DEF Observe
<1>5. CASE UNCHANGED vars BY <1>1, <1>5 DEF vars
<1> QED
  BY <1>1, <1>2, <1>3, <1>4, <1>5, PredictKeeps, CommitKeeps DEF Next, CallStep, SettleStep, AnyKey

LEMMA SettlementInvariantHolds == Spec => []SettlementInvariant
<1>1. Init => SettlementInvariant BY SettlementInit
<1>2. SettlementInvariant /\ [Next]_vars => SettlementInvariant' BY SettlementStep
<1> QED BY <1>1, <1>2, PTL DEF Spec

-----------------------------------------------------------------------------
(* A settlement rests on the one confirmed winner recorded for it, whatever *)
(* several workers asked and were answered meanwhile (settle_one).          *)
THEOREM EvidenceRules == Spec => []EvidenceDecides
<1>1. SettlementInvariant => EvidenceDecides BY DEF SettlementInvariant
<1> QED BY <1>1, SettlementInvariantHolds, PTL

(* A settled position has its one row and is paid by it, however many       *)
(* workers settle it (settle_one), unless a row's note already named a      *)
(* number that its own begins (settlement_ledger_entry_exists): then it is  *)
(* paid nothing.                                                            *)
THEOREM PaidOrNamed == Spec => []PaidUnlessNamed
<1>1. SettlementInvariant => PaidUnlessNamed BY DEF SettlementInvariant
<1> QED BY <1>1, SettlementInvariantHolds, PTL

NoNumberBeginsAnother ==
  \A i, j \in 1 .. MaxSettlements : DecimalPrefix(i, j) => i = j

NoReasonNamesSettlement ==
  \A reason \in Reasons : \A i \in 1 .. MaxSettlements, j \in reason : ~DecimalPrefix(i, j)

(* Every settled position is paid exactly once (settle_one) when neither    *)
(* another settlement's number nor the number in an operator's reason       *)
(* begins with its own: these two are all that can leave one unpaid.        *)
THEOREM PaidOnce ==
  ASSUME NoNumberBeginsAnother, NoReasonNamesSettlement
  PROVE  Spec => []SettlementRecordedOnce
<1>1. ASSUME SettlementInvariant PROVE SettlementRecordedOnce
  <2>0. settlements \in Seq(Settlement) /\ Len(settlements) <= MaxSettlements
    BY <1>1 DEF SettlementInvariant, TypeOK
  <2>1. DOMAIN settlements = 1 .. Len(settlements) /\ Len(settlements) \in Nat BY <2>0
  <2>2. DOMAIN settlements \subseteq 1 .. MaxSettlements BY <2>0, <2>1, AmountsAssumption
  <2>3. ASSUME NEW i \in DOMAIN settlements, SettlementRows(i) = {}, settlement_ledger_entry_exists(i)
        PROVE  FALSE
    <3>0. PICK n \in DOMAIN ledger : \E j \in ledger[n].note : DecimalPrefix(i, j)
      BY <2>3 DEF settlement_ledger_entry_exists
    <3>1. PICK j \in ledger[n].note : DecimalPrefix(i, j) BY <3>0
    <3>2. NoteFits(ledger[n]) BY <1>1 DEF SettlementInvariant, NotesKnown
    <3>3. CASE ledger[n].type \in SettlementTypes
      <4>1. j = ledger[n].ref /\ ledger[n].ref \in DOMAIN settlements
        BY <1>1, <3>2, <3>3 DEF NoteFits, SettlementInvariant, RefsKnown
      <4>2. ledger[n].ref = i BY <2>2, <3>1, <4>1 DEF NoNumberBeginsAnother
      <4> QED BY <2>3, <3>3, <4>2 DEF SettlementRows, SettlementTypes
    <3>4. CASE ledger[n].type \notin SettlementTypes
      <4>1. ledger[n].note \in Reasons BY <3>2, <3>4 DEF NoteFits
      <4> QED BY <2>2, <3>1, <4>1 DEF NoReasonNamesSettlement
    <3> QED BY <3>3, <3>4
  <2> QED BY <1>1, <2>3 DEF SettlementInvariant, PaidUnlessNamed, SettlementRecordedOnce
<1> QED BY <1>1, SettlementInvariantHolds, PTL

(* What is settled stays (settle_one reads the row again in its             *)
(* transaction), for every number of workers.                               *)
THEOREM SettledForGood == Spec => SettledIsFinal
<1>1. ASSUME SettlementInvariant, [Next]_vars, NEW i \in DOMAIN settlements PROVE KeepsSettled(i)
  <2>0. TypeOK /\ settlements \in Seq(Settlement) BY <1>1 DEF SettlementInvariant, TypeOK
  <2>1. ASSUME NEW w \in Workers, NEW j \in DOMAIN settlements, Commit(w, j) PROVE KeepsSettled(i)
    BY <2>0, <2>1, CommitRow, CommitChanges DEF KeepsSettled
  <2>2. ASSUME NEW w \in Workers, NEW u \in Users, NEW m \in Markets, NEW o \in Outcomes,
               NEW n \in Stakes, NEW k \in AnyKey, Predict(w, u, m, o, n, k)
        PROVE  KeepsSettled(i)
    <3>1. \E x \in Settlement : settlements' = Append(settlements, x) BY <2>0, <2>2, PredictChanges
    <3> QED BY <2>0, <3>1, Appended DEF KeepsSettled
  <2>3. ASSUME NEW w \in Workers, CallStep(w) \/ SettleStep(w) \/ ReadBalance(w) \/ Abandon(w)
        PROVE  settlements' = settlements
    BY <2>0, <2>3, CallQuiet, SettleQuiet, ReadQuiet DEF Quiet, Abandon
  <2>4. ASSUME NEW w, WriteCall(w) PROVE settlements' = settlements BY <2>4 DEF WriteCall
  <2>5. ASSUME NEW m, NEW o, Observe(m, o) PROVE settlements' = settlements BY <2>5 DEF Observe
  <2> QED
    BY <1>1, <2>1, <2>2, <2>3, <2>4, <2>5 DEF Next, CallStep, SettleStep, AnyKey, KeepsSettled, vars
<1>2. ASSUME SettlementInvariant, [Next]_vars
      PROVE  [\A i \in DOMAIN settlements : KeepsSettled(i)]_vars
  BY <1>1, <1>2
<1> QED BY <1>2, SettlementInvariantHolds, PTL DEF Spec, SettledIsFinal

-----------------------------------------------------------------------------
(* Rounding.  Whatever is staked, every balance, payout and correction is   *)
(* whole, so only the row of a prediction can be off.                       *)
(* What the code does: the row of a prediction with a stake of a fraction   *)
(* of a hundredth is off by the rounding of its balance, no other is, and   *)
(* no later row inherits the difference.                                    *)
RowsReconcile ==
  \A n \in DOMAIN ledger :
    LET off == ledger[n].before + ledger[n].amount - ledger[n].after
    IN /\ -Cent <= 2 * off /\ 2 * off <= Cent
       /\ ledger[n].type # "prediction" => off = 0

WholeAmounts ==
  /\ \A u \in Users : balance[u] \in Whole
  /\ \A i \in DOMAIN settlements : settlements[i].estimated_return \in Whole
  /\ \A w \in Workers :
       /\ work[w].task \in {"checked", "read"} => work[w].call.amount \in Whole
       /\ work[w].task = "read" => work[w].before \in Whole

ReconcileInvariant == TypeOK /\ WholeAmounts /\ RowsReconcile

Reconciles(r) ==
  LET off == r.before + r.amount - r.after
  IN /\ -Cent <= 2 * off /\ 2 * off <= Cent
     /\ r.type # "prediction" => off = 0

(* What a step does that moves a balance: from is the balance it has read.  *)
Moves(u, type, n, from, k, ref, note) ==
  /\ ledger' = Append(ledger, NewRow(u, type, n, from, k, ref, note))
  /\ balance' = [balance EXCEPT ![u] = Round2(from + n)]

LEMMA NewRowReconciles ==
  ASSUME NEW u, NEW type, NEW n \in Int, NEW from \in Whole, NEW k, NEW ref, NEW note,
         type # "prediction" => n \in Whole
  PROVE  Reconciles(NewRow(u, type, n, from, k, ref, note))
<1> DEFINE r == NewRow(u, type, n, from, k, ref, note)
           sum == from + n
           after == Round2(sum)
<1>0. from \in Int BY WholeSums
<1>1. from \in Int /\ sum \in Int BY <1>0
<1>2. after \in Int /\ -Cent <= 2 * (from + n - after) /\ 2 * (from + n - after) <= Cent
  <2> HIDE DEF sum
  <2>1. after \in Int /\ -Cent <= 2 * (sum - after) /\ 2 * (sum - after) <= Cent
    BY <1>1, RoundedIsInt, RoundedIsNearest
  <2> QED BY <1>0, <2>1 DEF sum
<1>3. ASSUME type # "prediction" PROVE from + n - after = 0
  <2>1. from + n \in Whole BY <1>3, WholeSums
  <2>2. after = from + n BY <2>1, WholeIsRounded
  <2> HIDE DEF after
  <2> QED BY <1>1, <2>2
<1>4. r.before = from /\ r.amount = n /\ r.after = after /\ r.type = type BY DEF NewRow
<1> HIDE DEF r, after
<1>5. Reconciles(r) BY <1>2, <1>3, <1>4 DEF Reconciles
<1> QED BY <1>5 DEF r

LEMMA MoveReconciles ==
  ASSUME ReconcileInvariant, TypeOK', NEW u \in Users, NEW type, NEW n \in Int, NEW from \in Whole,
         NEW k, NEW ref, NEW note, Moves(u, type, n, from, k, ref, note), NewRow(u, type, n, from, k, ref, note) \in Row,
         type # "prediction" => n \in Whole
  PROVE  RowsReconcile' /\ \A v \in Users : balance'[v] \in Whole
<1> DEFINE r == NewRow(u, type, n, from, k, ref, note)
<1>0. ledger \in Seq(Row) /\ balance \in [Users -> Int] BY DEF ReconcileInvariant, TypeOK
<1>1. Reconciles(r) BY NewRowReconciles
<1>2. r \in Row /\ ledger' = Append(ledger, r) BY DEF Moves
<1> HIDE DEF r
<1>3. \A j \in DOMAIN ledger' : (j \in DOMAIN ledger /\ ledger'[j] = ledger[j]) \/ ledger'[j] = r
  BY <1>0, <1>2, Appended
<1>4. RowsReconcile' BY <1>1, <1>3 DEF ReconcileInvariant, RowsReconcile, Reconciles
<1>5. from + n \in Int BY WholeSums
<1>6. Round2(from + n) \in Whole BY <1>5, RoundedIsNearest
<1>7. \A v \in Users : balance'[v] \in Whole
  BY <1>0, <1>6 DEF Moves, ReconcileInvariant, WholeAmounts
<1> QED BY <1>4, <1>7

LEMMA WriteCallMoves ==
  ASSUME TypeOK, WholeAmounts, NEW w \in Workers, WriteCall(w)
  PROVE  /\ work[w] \in HasRead /\ work[w].before \in Whole /\ work[w].call \in Call
         /\ \E n \in Whole : LET call == work[w].call
                            IN Moves(call.user, call.type, n, work[w].before, call.key, call.ref, call.note)
<1> DEFINE call   == work[w].call
           before == work[w].before
           amount == IF call.type = "demo_balance_reset" THEN Round2(Initial - before) ELSE call.amount
<1>1. work[w] \in HasRead /\ work[w].task = "read" BY WriteCallTyped DEF WriteCall
<1>2. before \in Whole /\ call.amount \in Whole BY <1>1 DEF WholeAmounts
<1>3. amount \in Whole
  <2>1. before \in Int /\ Initial \in Int BY <1>2, WholeSums, AmountsAssumption
  <2>2. Initial - before \in Int BY <2>1
  <2>3. Round2(Initial - before) \in Whole BY <2>2, RoundedIsNearest
  <2> QED BY <1>2, <2>3
<1>4. Moves(call.user, call.type, amount, before, call.key, call.ref, call.note)
  BY DEF WriteCall, Record, NewRow, Moves
<1> HIDE DEF amount
<1> QED BY <1>1, <1>2, <1>3, <1>4 DEF HasRead

LEMMA PredictMoves ==
  ASSUME TypeOK, NEW w \in Workers, NEW u \in Users, NEW m \in Markets, NEW o \in Outcomes,
         NEW n \in Stakes, NEW k \in AnyKey, Predict(w, u, m, o, n, k)
  PROVE  Moves(u, "prediction", -n, balance[u], k, Len(settlements) + 1, {})
<1>1. balance \in [Users -> Int] /\ balance[u] \in Int /\ n \in Int BY AmountsAssumption DEF TypeOK
<1>2. balance[u] - n = balance[u] + (-n) BY <1>1
<1>3. balance' = [balance EXCEPT ![u] = Round2(balance[u] - n)] BY DEF Predict
<1>4. balance' = [balance EXCEPT ![u] = Round2(balance[u] + (-n))] BY <1>2, <1>3
<1> QED BY <1>4, PredictChanges DEF Moves

(* What is decided moves the balance by a whole payout, a loss by zero.     *)
LEMMA CommitMoves ==
  ASSUME TypeOK, WholeAmounts, NEW w \in Workers, NEW i \in DOMAIN settlements, Commit(w, i)
  PROVE  \/ UNCHANGED <<balance, ledger>>
         \/ \E u \in Users, type \in SettlementTypes, n \in Whole :
              Moves(u, type, n, balance[u], NoKey, i, {i})
<1> DEFINE u == settlements[i].user
           a == work[w].answer
<1>0. settlements[i] \in Settlement BY DEF TypeOK
<1>1. u \in Users /\ settlements[i].estimated_return \in Whole /\ balance \in [Users -> Int]
  BY <1>0 DEF Settlement, WholeAmounts, TypeOK
<1>2. \/ UNCHANGED <<balance, ledger>>
      \/ NotConfirmed(i, a) \/ Won(i, a) \/ Lost(i, a)
  BY DEF Commit
<1>3. CASE NotConfirmed(i, a) BY <1>3 DEF NotConfirmed
<1>4. CASE Won(i, a) /\ ~settlement_ledger_entry_exists(i)
  <2>1. Record(u, "settlement_win", settlements[i].estimated_return, balance[u], NoKey, i, {i})
    BY <1>4 DEF Won
  <2>2. balance' = [balance EXCEPT ![u] = Round2(balance[u] + settlements[i].estimated_return)]
    BY <1>4 DEF Won
  <2>3. Moves(u, "settlement_win", settlements[i].estimated_return, balance[u], NoKey, i, {i})
    BY <2>1, <2>2 DEF Record, NewRow, Moves
  <2> QED BY <1>1, <2>3 DEF SettlementTypes
<1>5. CASE Lost(i, a) /\ ~settlement_ledger_entry_exists(i)
  <2>1. Record(u, "settlement_loss", 0, balance[u], NoKey, i, {i}) /\ balance' = balance BY <1>5 DEF Lost
  <2>2. balance[u] \in Whole /\ balance[u] + 0 = balance[u] BY <1>1 DEF WholeAmounts
  <2>3. Round2(balance[u] + 0) = balance[u] BY <2>2, WholeIsRounded
  <2>4. balance' = [balance EXCEPT ![u] = Round2(balance[u] + 0)] BY <1>1, <2>1, <2>3
  <2>5. Moves(u, "settlement_loss", 0, balance[u], NoKey, i, {i})
    BY <2>1, <2>4 DEF Record, NewRow, Moves
  <2> QED BY <1>1, <2>5, WholeSums DEF SettlementTypes
<1>6. CASE (Won(i, a) \/ Lost(i, a)) /\ settlement_ledger_entry_exists(i) BY <1>6 DEF Won, Lost
<1> QED BY <1>2, <1>3, <1>4, <1>5, <1>6

LEMMA ReconcileStep ==
  ASSUME ReconcileInvariant, [Next]_vars
  PROVE  ReconcileInvariant'
<1>0. /\ TypeOK /\ TypeOK' /\ WholeAmounts /\ settlements \in Seq(Settlement) /\ ledger \in Seq(Row)
      /\ work \in [Workers -> Tasks] /\ balance \in [Users -> Int]
  BY TypeStep DEF ReconcileInvariant, TypeOK, Tasks
<1> DEFINE IdleOrSettling(w) == work'[w].task \notin {"checked", "read"}
           WorkIsWhole(w) ==
             /\ work'[w].task \in {"checked", "read"} => work'[w].call.amount \in Whole
             /\ work'[w].task = "read" => work'[w].before \in Whole
           ReturnsKept == \A i \in DOMAIN settlements' : settlements'[i].estimated_return \in Whole
<1>1. ASSUME NEW w \in Workers, NEW x, Quiet(w, x),
             x.task \in {"checked", "read"} => x.call.amount \in Whole,
             x.task = "read" => x.before \in Whole
      PROVE  ReconcileInvariant'
  <2>1. WholeAmounts' BY <1>0, <1>1 DEF Quiet, WholeAmounts
  <2>2. RowsReconcile' BY <1>1 DEF Quiet, ReconcileInvariant, RowsReconcile
  <2> QED BY <1>0, <2>1, <2>2 DEF ReconcileInvariant
<1>2. ASSUME NEW w \in Workers, CallStep(w) PROVE ReconcileInvariant'
  <2>1. PICK call \in Call : Quiet(w, [task |-> "checked", call |-> call]) /\ call.amount \in Whole
    BY <1>0, <1>2, CallQuiet
  <2> QED BY <1>1, <2>1
<1>3. ASSUME NEW w \in Workers, SettleStep(w) PROVE ReconcileInvariant'
  <2>1. PICK x \in {Idle} \cup Settling : Quiet(w, x) BY <1>0, <1>3, SettleQuiet
  <2>2. x.task \notin {"checked", "read"} BY <2>1 DEF Idle, Settling
  <2> QED BY <1>1, <2>1, <2>2
<1>4. ASSUME NEW w \in Workers, ReadBalance(w) PROVE ReconcileInvariant'
  <2>1. PICK b \in Int : /\ b = balance[work[w].call.user] /\ work[w].call.user \in Users
                         /\ Quiet(w, [task |-> "read", call |-> work[w].call, before |-> b])
    BY <1>0, <1>4, ReadQuiet
  <2>2. work[w].call.amount \in Whole BY <1>0, <1>4 DEF ReadBalance, WholeAmounts
  <2>3. b \in Whole BY <1>0, <2>1 DEF WholeAmounts
  <2> QED BY <1>1, <2>1, <2>2, <2>3
<1>5. ASSUME NEW w \in Workers, Abandon(w) PROVE ReconcileInvariant'
  BY <1>1, <1>5 DEF Abandon, Quiet, Idle
<1>6. ASSUME NEW w \in Workers, NEW x, work' = [work EXCEPT ![w] = x], x.task \notin {"checked", "read"},
             ReturnsKept, RowsReconcile', \A v \in Users : balance'[v] \in Whole
      PROVE  ReconcileInvariant'
  <2>1. \A v \in Workers : WorkIsWhole(v) BY <1>0, <1>6 DEF WholeAmounts
  <2>2. WholeAmounts' BY <1>6, <2>1 DEF WholeAmounts
  <2> QED BY <1>0, <1>6, <2>2 DEF ReconcileInvariant
<1>7. ASSUME NEW w \in Workers, WriteCall(w) PROVE ReconcileInvariant'
  <2> DEFINE call == work[w].call
  <2>1. PICK n \in Whole : Moves(call.user, call.type, n, work[w].before, call.key, call.ref, call.note)
    BY <1>0, <1>7, WriteCallMoves
  <2>2. work[w].before \in Whole /\ work[w].before \in Int /\ n \in Int /\ call \in Call
    BY <1>0, <1>7, WriteCallMoves, WholeSums
  <2>3. call.user \in Users /\ call.type \in WalletTypes /\ call.key \in AnyKey /\ call.ref \in Nat
        /\ call.note \in Reasons /\ call.note \in SUBSET Nat
    BY <2>2, AmountsAssumption DEF Call, AnyKey
  <2>4. NewRow(call.user, call.type, n, work[w].before, call.key, call.ref, call.note) \in Row
    BY <2>2, <2>3, NewRowTyped
  <2>5. RowsReconcile' /\ \A v \in Users : balance'[v] \in Whole
    BY <1>0, <2>1, <2>2, <2>3, <2>4, MoveReconciles
  <2>6. work' = [work EXCEPT ![w] = Idle] /\ settlements' = settlements BY <1>7 DEF WriteCall
  <2>7. ReturnsKept BY <1>0, <2>6 DEF WholeAmounts
  <2> QED BY <1>6, <2>5, <2>6, <2>7 DEF Idle
<1>8. ASSUME NEW w \in Workers, NEW u \in Users, NEW m \in Markets, NEW o \in Outcomes,
             NEW n \in Stakes, NEW k \in AnyKey, Predict(w, u, m, o, n, k)
      PROVE  ReconcileInvariant'
  <2>1. Moves(u, "prediction", -n, balance[u], k, Len(settlements) + 1, {}) BY <1>0, <1>8, PredictMoves
  <2>2. /\ NewSettlement(u, m, o, n, k) \in Settlement
        /\ settlements' = Append(settlements, NewSettlement(u, m, o, n, k))
        /\ NewRow(u, "prediction", -n, balance[u], k, Len(settlements) + 1, {}) \in Row
    BY <1>0, <1>8, PredictChanges
  <2>3. -n \in Int /\ n * Odds \in Int BY AmountsAssumption
  <2>4. balance[u] \in Whole BY <1>0 DEF WholeAmounts
  <2>5. RowsReconcile' /\ \A v \in Users : balance'[v] \in Whole
    BY <1>0, <2>1, <2>2, <2>3, <2>4, MoveReconciles
  <2>6. ReturnsKept
    <3> DEFINE x == NewSettlement(u, m, o, n, k)
    <3>1. x.estimated_return \in Whole BY <2>3, RoundedIsNearest DEF NewSettlement
    <3>2. x \in Settlement /\ settlements' = Append(settlements, x) BY <2>2
    <3> HIDE DEF x
    <3> QED BY <1>0, <3>1, <3>2, Appended DEF WholeAmounts
  <2>7. work' = work /\ work[w] = Idle /\ work' = [work EXCEPT ![w] = Idle] BY <1>0, <1>8 DEF Predict
  <2> QED BY <1>6, <2>5, <2>6, <2>7 DEF Idle
<1>9. ASSUME NEW w \in Workers, NEW i \in DOMAIN settlements, Commit(w, i) PROVE ReconcileInvariant'
  <2>1. RowsReconcile' /\ \A v \in Users : balance'[v] \in Whole
    <3>1. CASE UNCHANGED <<balance, ledger>>
      BY <1>0, <3>1 DEF ReconcileInvariant, RowsReconcile, WholeAmounts
    <3>2. ASSUME NEW u \in Users, NEW type \in SettlementTypes, NEW n \in Whole,
                 Moves(u, type, n, balance[u], NoKey, i, {i})
          PROVE  RowsReconcile' /\ \A v \in Users : balance'[v] \in Whole
      <4>1. n \in Int /\ balance[u] \in Whole /\ balance[u] \in Int /\ i \in Nat /\ {i} \in SUBSET Nat /\ NoKey \in AnyKey
        BY <1>0, WholeSums DEF WholeAmounts, AnyKey
      <4>2. type \in WalletTypes \cup {"prediction", "settlement_win", "settlement_loss"} BY DEF SettlementTypes
      <4>3. NewRow(u, type, n, balance[u], NoKey, i, {i}) \in Row BY <4>1, <4>2, NewRowTyped
      <4> QED BY <1>0, <3>2, <4>1, <4>3, MoveReconciles
    <3> QED BY <1>0, <1>9, <3>1, <3>2, CommitMoves
  <2>2. ReturnsKept
    <3>1. CASE settlements[i].status \in Settled
      BY <1>0, <1>9, <3>1, CommitChanges DEF WholeAmounts
    <3>2. CASE settlements[i].status \notin Settled
      BY <1>0, <1>9, <3>2, CommitRow DEF WholeAmounts
    <3> QED BY <3>1, <3>2
  <2>3. PICK x \in {Idle} \cup Settling : work' = [work EXCEPT ![w] = x]
    BY <1>0, <1>9, FinishSettles DEF Commit
  <2>4. x.task \notin {"checked", "read"} BY <2>3 DEF Idle, Settling
  <2> QED BY <1>6, <2>1, <2>2, <2>3, <2>4
<1>10. ASSUME UNCHANGED <<balance, settlements, ledger, work>> PROVE ReconcileInvariant'
  BY <1>0, <1>10 DEF ReconcileInvariant, WholeAmounts, RowsReconcile
<1>11. ASSUME NEW m, NEW o, Observe(m, o) PROVE ReconcileInvariant' BY <1>10, <1>11 DEF Observe
<1>12. CASE UNCHANGED vars BY <1>10, <1>12 DEF vars
<1> QED
  BY <1>2, <1>3, <1>4, <1>5, <1>7, <1>8, <1>9, <1>11, <1>12 DEF Next, CallStep, SettleStep, AnyKey

LEMMA ReconcileInit == Init => ReconcileInvariant
<1> SUFFICES ASSUME Init PROVE ReconcileInvariant OBVIOUS
<1>1. DOMAIN settlements = {} /\ DOMAIN ledger = {} BY DEF Init
<1>2. Initial \in Whole
  <2>1. Initial \in Int /\ Initial % Cent = 0 BY AmountsAssumption
  <2> QED BY <2>1, MultiplesAreWhole
<1>3. \A w \in Workers : work[w].task = "idle" BY DEF Init, Idle
<1>4. \A u \in Users : balance[u] \in Whole BY <1>2 DEF Init
<1>5. WholeAmounts BY <1>1, <1>3, <1>4 DEF WholeAmounts
<1>6. RowsReconcile BY <1>1 DEF RowsReconcile
<1> QED BY <1>5, <1>6, TypeInit DEF ReconcileInvariant

(* Every variable keeps its type (create_demo_prediction, settle_one and    *)
(* the wallet calls), however many connections write.                       *)
THEOREM TypeCorrect == Spec => []TypeOK
<1>1. ReconcileInvariant /\ [Next]_vars => ReconcileInvariant' BY ReconcileStep
<1>2. ReconcileInvariant => TypeOK BY DEF ReconcileInvariant
<1> QED BY <1>1, <1>2, ReconcileInit, PTL DEF Spec

(* Only predictions may be booked with what their balance's rounding leaves *)
(* out, by half a hundredth at most (create_demo_prediction): payouts,      *)
(* additions, resets and reversals add up, for any stakes and odds and      *)
(* however many connections write.                                          *)
THEOREM RoundingStaysWithPredictions == Spec => []RowsReconcile
<1>1. ReconcileInvariant /\ [Next]_vars => ReconcileInvariant' BY ReconcileStep
<1>2. ReconcileInvariant => RowsReconcile BY DEF ReconcileInvariant
<1> QED BY <1>1, <1>2, ReconcileInit, PTL DEF Spec

-----------------------------------------------------------------------------
(* The books.  On one connection a wallet call still has the user's balance *)
(* when it writes, so every row starts where the last one of its user ended. *)
(* With one connection the rows of a user form one chain: each starts at    *)
(* the balance where the one before it ended.                               *)
BooksChain ==
  \A u \in Users :
    /\ \A n \in DOMAIN ledger : ledger[n].user = u => ledger[n].before = LeftBefore(u, n)
    /\ balance[u] = LeftBefore(u, Len(ledger) + 1)

OneConnection == \A v, w \in Workers : v = w

ReadIsCurrent ==
  \A w \in Workers : work[w].task = "read" => work[w].before = balance[work[w].call.user]

ChainInvariant == ReconcileInvariant /\ ReadIsCurrent /\ BooksChain

(* Of any positions there are, one is the last.                             *)
LEMMA LastIsLast ==
  ASSUME NEW S, S # {}, NEW b \in Nat, \A n \in S : n \in Nat /\ n <= b
  PROVE  LastOf(S) \in S /\ \A n \in S : n <= LastOf(S)
<1> DEFINE R == OpToRel(<, Nat)
           Bounds == {m \in Nat : \A n \in S : n <= m}
<1>1. IsWellFoundedOn(R, Nat) BY NatLessThanWellFounded, Zenon DEF OpToRel
<1>2. \A m, n \in Nat : <<n, m>> \in R <=> n < m BY DEF OpToRel
<1>3. Bounds \subseteq Nat /\ Bounds # {} OBVIOUS
<1> HIDE DEF R
<1>4. PICK m \in Bounds : \A n \in Bounds : <<n, m>> \notin R BY <1>1, <1>3, WFMin, Zenon
<1>5. m \in Nat /\ \A n \in Bounds : ~(n < m) BY <1>2, <1>3, <1>4
<1>6. m \in S
  <2> SUFFICES ASSUME m \notin S PROVE FALSE OBVIOUS
  <2>1. \A n \in S : n < m BY <1>4
  <2>2. m - 1 \in Nat /\ \A n \in S : n <= m - 1 BY <1>5, <2>1
  <2> QED BY <1>5, <2>2
<1>7. \E n \in S : \A k \in S : k <= n BY <1>4, <1>6
<1> QED BY <1>7, Zenon DEF LastOf

LEMMA LastIsUnique ==
  ASSUME NEW S, NEW n \in S, \A k \in S : k \in Int /\ k <= n
  PROVE  LastOf(S) = n
<1>1. \E j \in S : \A k \in S : k <= j OBVIOUS
<1>2. LastOf(S) \in S /\ \A k \in S : k <= LastOf(S) BY <1>1, Zenon DEF LastOf
<1> QED BY <1>2

(* A row more leaves the positions before it, and what was left at them.    *)
LEMMA RowsOfAfter ==
  ASSUME ledger \in Seq(Row), NEW r \in Row, ledger' = Append(ledger, r), NEW u,
         NEW n \in Nat, n = Len(ledger) + 1
  PROVE  /\ \A end \in 1 .. n : RowsOf(u, end)' = RowsOf(u, end)
         /\ RowsOf(u, n + 1)' = RowsOf(u, n) \cup (IF r.user = u THEN {n} ELSE {})
         /\ \A end : RowsOf(u, end) \subseteq DOMAIN ledger
<1>1. /\ \A k : k \in DOMAIN ledger' <=> k \in DOMAIN ledger \/ k = n
      /\ n \notin DOMAIN ledger /\ ledger'[n] = r
      /\ \A k \in DOMAIN ledger : ledger'[k] = ledger[k]
  BY Appended
<1>2. \A k \in DOMAIN ledger : k \in Nat /\ k < n OBVIOUS
<1>3. ASSUME NEW end \in 1 .. n PROVE RowsOf(u, end)' = RowsOf(u, end)
  BY <1>1, <1>2 DEF RowsOf
<1>4. RowsOf(u, n + 1)' = RowsOf(u, n) \cup (IF r.user = u THEN {n} ELSE {})
  <2>1. ASSUME NEW k PROVE k \in RowsOf(u, n + 1)' <=> k \in DOMAIN ledger' /\ ledger'[k].user = u /\ k < n + 1
    BY DEF RowsOf
  <2>2. ASSUME NEW k PROVE k \in RowsOf(u, n) <=> k \in DOMAIN ledger /\ ledger[k].user = u /\ k < n
    BY DEF RowsOf
  <2>3. ASSUME NEW k
        PROVE  k \in RowsOf(u, n + 1)' <=> k \in RowsOf(u, n) \/ (k = n /\ r.user = u)
    <3>1. k \in DOMAIN ledger => (k < n + 1 /\ k < n) BY <1>2
    <3>2. n < n + 1 OBVIOUS
    <3> QED BY <1>1, <2>1, <2>2, <3>1, <3>2
  <2> QED BY <2>3
<1>5. \A end : RowsOf(u, end) \subseteq DOMAIN ledger BY DEF RowsOf
<1> QED BY <1>3, <1>4, <1>5

LEMMA LeftBeforeAfter ==
  ASSUME ledger \in Seq(Row), NEW r \in Row, ledger' = Append(ledger, r), NEW u,
         NEW n \in Nat, n = Len(ledger) + 1
  PROVE  /\ \A end \in 1 .. n : LeftBefore(u, end)' = LeftBefore(u, end)
         /\ LeftBefore(u, n + 1)' = IF r.user = u THEN r.after ELSE LeftBefore(u, n)
<1>1. /\ n \notin DOMAIN ledger /\ ledger'[n] = r
      /\ \A k \in DOMAIN ledger : ledger'[k] = ledger[k]
  BY Appended
<1>2. \A k \in DOMAIN ledger : k \in Nat /\ k <= n OBVIOUS
<1>3. /\ \A end \in 1 .. n : RowsOf(u, end)' = RowsOf(u, end)
      /\ RowsOf(u, n + 1)' = RowsOf(u, n) \cup (IF r.user = u THEN {n} ELSE {})
      /\ \A end : RowsOf(u, end) \subseteq DOMAIN ledger
  BY RowsOfAfter
<1>4. ASSUME NEW S, S \subseteq DOMAIN ledger, S # {}
      PROVE  ledger'[LastOf(S)] = ledger[LastOf(S)]
  <2>1. LastOf(S) \in S BY <1>2, <1>4, LastIsLast
  <2> QED BY <1>1, <1>4, <2>1
<1>5. ASSUME NEW end, NEW later, RowsOf(u, later)' = RowsOf(u, end)
      PROVE  LeftBefore(u, later)' = LeftBefore(u, end)
  <2>1. CASE RowsOf(u, end) = {} BY <1>5, <2>1 DEF LeftBefore
  <2>2. CASE RowsOf(u, end) # {}
    <3>1. ledger'[LastOf(RowsOf(u, end))] = ledger[LastOf(RowsOf(u, end))] BY <1>3, <1>4, <2>2
    <3> QED BY <1>5, <2>2, <3>1 DEF LeftBefore
  <2> QED BY <2>1, <2>2
<1>6. \A end \in 1 .. n : LeftBefore(u, end)' = LeftBefore(u, end) BY <1>3, <1>5
<1>7. CASE r.user # u
  <2>1. RowsOf(u, n + 1)' = RowsOf(u, n) BY <1>3, <1>7
  <2>2. LeftBefore(u, n + 1)' = LeftBefore(u, n) BY <1>5, <2>1
  <2> QED BY <1>6, <1>7, <2>2
<1>8. CASE r.user = u
  <2> DEFINE S == RowsOf(u, n) \cup {n}
  <2>1. RowsOf(u, n + 1)' = S BY <1>3, <1>8
  <2>2. \A k \in S : k \in Int /\ k <= n BY <1>2, <1>3
  <2>3. LastOf(S) = n BY <2>2, LastIsUnique
  <2>4. S # {} OBVIOUS
  <2> HIDE DEF S
  <2>5. LeftBefore(u, n + 1)' = r.after BY <1>1, <2>1, <2>3, <2>4 DEF LeftBefore
  <2> QED BY <1>6, <1>8, <2>5
<1> QED BY <1>7, <1>8

(* A move from the balance the user has extends the chain.                  *)
LEMMA MoveChains ==
  ASSUME TypeOK, BooksChain, NEW u \in Users, NEW type, NEW n, NEW k, NEW ref, NEW note,
         Moves(u, type, n, balance[u], k, ref, note), NewRow(u, type, n, balance[u], k, ref, note) \in Row
  PROVE  BooksChain'
<1> DEFINE r == NewRow(u, type, n, balance[u], k, ref, note)
<1>0. ledger \in Seq(Row) /\ balance \in [Users -> Int] BY DEF TypeOK
<1> PICK new \in Nat : new = Len(ledger) + 1 BY <1>0
<1>1. r \in Row /\ ledger' = Append(ledger, r) /\ balance' = [balance EXCEPT ![u] = r.after]
  BY DEF Moves, NewRow
<1>2. r.user = u /\ r.before = balance[u] BY DEF NewRow
<1> HIDE DEF r
<1>3. /\ \A j \in DOMAIN ledger' : (j \in DOMAIN ledger /\ ledger'[j] = ledger[j]) \/ (j = new /\ ledger'[j] = r)
      /\ Len(ledger') = new
  BY <1>0, <1>1, Appended
<1>4. \A j \in DOMAIN ledger' : j \in 1 .. new BY <1>0, <1>1
<1>5. ASSUME NEW v
      PROVE  /\ \A end \in 1 .. new : LeftBefore(v, end)' = LeftBefore(v, end)
             /\ LeftBefore(v, new + 1)' = IF r.user = v THEN r.after ELSE LeftBefore(v, new)
  BY <1>0, <1>1, LeftBeforeAfter
<1>6. \A v \in Users : balance[v] = LeftBefore(v, new) BY DEF BooksChain
<1>7. ASSUME NEW v \in Users, NEW j \in DOMAIN ledger', ledger'[j].user = v
      PROVE  ledger'[j].before = LeftBefore(v, j)'
  <2>1. LeftBefore(v, j)' = LeftBefore(v, j) BY <1>4, <1>5
  <2>2. CASE j \in DOMAIN ledger /\ ledger'[j] = ledger[j] BY <1>7, <2>1, <2>2 DEF BooksChain
  <2>3. CASE j = new /\ ledger'[j] = r BY <1>2, <1>6, <1>7, <2>1, <2>3
  <2> QED BY <1>3, <2>2, <2>3
<1>8. ASSUME NEW v \in Users PROVE balance'[v] = LeftBefore(v, new + 1)'
  BY <1>0, <1>1, <1>2, <1>5, <1>6
<1>9. ASSUME NEW v \in Users PROVE balance'[v] = LeftBefore(v, Len(ledger) + 1)' BY <1>3, <1>8
<1> QED BY <1>7, <1>9 DEF BooksChain

LEMMA ChainStep ==
  ASSUME OneConnection, ChainInvariant, [Next]_vars
  PROVE  ChainInvariant'
<1>0. /\ ReconcileInvariant /\ TypeOK /\ TypeOK' /\ WholeAmounts /\ BooksChain /\ ReadIsCurrent
      /\ work \in [Workers -> Tasks] /\ balance \in [Users -> Int]
  BY TypeStep DEF ChainInvariant, ReconcileInvariant, TypeOK, Tasks
<1>1. ReconcileInvariant' BY <1>0, ReconcileStep
<1>2. ASSUME UNCHANGED <<balance, ledger>>, ReadIsCurrent' PROVE ChainInvariant'
  <2>1. \A u, end : RowsOf(u, end)' = RowsOf(u, end) BY <1>2 DEF RowsOf
  <2>2. \A u, end : LeftBefore(u, end)' = LeftBefore(u, end) BY <1>2, <2>1 DEF LeftBefore
  <2>3. Len(ledger') = Len(ledger) BY <1>2
  <2>4. \A u : LeftBefore(u, Len(ledger) + 1)' = LeftBefore(u, Len(ledger) + 1)
    BY <2>2, <2>3
  <2>5. BooksChain' BY <1>0, <1>2, <2>2, <2>4 DEF BooksChain
  <2> QED BY <1>1, <1>2, <2>5 DEF ChainInvariant
<1>3. ASSUME NEW w \in Workers, NEW x, Quiet(w, x), x.task = "read" => x.before = balance[x.call.user]
      PROVE  ChainInvariant'
  <2>1. ReadIsCurrent' BY <1>0, <1>3 DEF Quiet, ReadIsCurrent
  <2> QED BY <1>2, <1>3, <2>1 DEF Quiet
<1>4. ASSUME NEW w \in Workers, CallStep(w) PROVE ChainInvariant'
  <2>1. PICK call \in Call : Quiet(w, [task |-> "checked", call |-> call]) BY <1>0, <1>4, CallQuiet
  <2> QED BY <1>3, <2>1
<1>5. ASSUME NEW w \in Workers, SettleStep(w) PROVE ChainInvariant'
  <2>1. PICK x \in {Idle} \cup Settling : Quiet(w, x) BY <1>0, <1>5, SettleQuiet
  <2>2. x.task # "read" BY <2>1 DEF Idle, Settling
  <2> QED BY <1>3, <2>1, <2>2
<1>6. ASSUME NEW w \in Workers, ReadBalance(w) PROVE ChainInvariant'
  BY <1>0, <1>3, <1>6, ReadQuiet
<1>7. ASSUME NEW w \in Workers, Abandon(w) PROVE ChainInvariant'
  BY <1>3, <1>7 DEF Abandon, Quiet, Idle
<1>8. ASSUME NEW u \in Users, NEW type, NEW n, NEW k, NEW ref, NEW note, Moves(u, type, n, balance[u], k, ref, note),
             NewRow(u, type, n, balance[u], k, ref, note) \in Row,
             \A v \in Workers : work'[v].task # "read"
      PROVE  ChainInvariant'
  <2>1. BooksChain' BY <1>0, <1>8, MoveChains
  <2>2. ReadIsCurrent' BY <1>8 DEF ReadIsCurrent
  <2> QED BY <1>1, <2>1, <2>2 DEF ChainInvariant
<1>9. ASSUME NEW w \in Workers, WriteCall(w) PROVE ChainInvariant'
  <2> DEFINE call == work[w].call
  <2>1. PICK n \in Whole : Moves(call.user, call.type, n, work[w].before, call.key, call.ref, call.note)
    BY <1>0, <1>9, WriteCallMoves
  <2>2. work[w].before \in Int /\ n \in Int /\ call \in Call BY <1>0, <1>9, WriteCallMoves, WholeSums
  <2>3. call.user \in Users /\ call.type \in WalletTypes /\ call.key \in AnyKey /\ call.ref \in Nat
        /\ call.note \in Reasons /\ call.note \in SUBSET Nat
    BY <2>2, AmountsAssumption DEF Call, AnyKey
  <2>4. NewRow(call.user, call.type, n, work[w].before, call.key, call.ref, call.note) \in Row
    BY <2>2, <2>3, NewRowTyped
  <2>5. work[w].before = balance[call.user] BY <1>0, <1>9 DEF WriteCall, ReadIsCurrent
  <2>6. \A v \in Workers : work'[v].task # "read" BY <1>0, <1>9 DEF WriteCall, OneConnection, Idle
  <2> QED BY <1>8, <2>1, <2>3, <2>4, <2>5, <2>6
<1>10. ASSUME NEW w \in Workers, NEW u \in Users, NEW m \in Markets, NEW o \in Outcomes,
              NEW n \in Stakes, NEW k \in AnyKey, Predict(w, u, m, o, n, k)
       PROVE  ChainInvariant'
  <2>1. /\ Moves(u, "prediction", -n, balance[u], k, Len(settlements) + 1, {})
        /\ NewRow(u, "prediction", -n, balance[u], k, Len(settlements) + 1, {}) \in Row
    BY <1>0, <1>10, PredictMoves, PredictChanges
  <2>2. \A v \in Workers : work'[v].task # "read" BY <1>10 DEF Predict, OneConnection, Idle
  <2> QED BY <1>8, <2>1, <2>2
<1>11. ASSUME NEW w \in Workers, NEW i \in DOMAIN settlements, Commit(w, i) PROVE ChainInvariant'
  <2>1. \A v \in Workers : work'[v].task # "read"
    <3>1. PICK x \in {Idle} \cup Settling : work' = [work EXCEPT ![w] = x]
      BY <1>0, <1>11, FinishSettles DEF Commit
    <3>2. x.task # "read" BY <3>1 DEF Idle, Settling
    <3> QED BY <1>0, <3>1, <3>2 DEF OneConnection
  <2>2. CASE UNCHANGED <<balance, ledger>> BY <1>2, <2>1, <2>2 DEF ReadIsCurrent
  <2>3. ASSUME NEW u \in Users, NEW type \in SettlementTypes, NEW n \in Whole,
               Moves(u, type, n, balance[u], NoKey, i, {i})
        PROVE  ChainInvariant'
    <3>0. settlements \in Seq(Settlement) BY <1>0 DEF TypeOK
    <3>1. n \in Int /\ balance[u] \in Int /\ i \in Nat /\ {i} \in SUBSET Nat /\ NoKey \in AnyKey
      BY <1>0, <3>0, WholeSums DEF AnyKey
    <3>2. type \in WalletTypes \cup {"prediction", "settlement_win", "settlement_loss"} BY DEF SettlementTypes
    <3>3. NewRow(u, type, n, balance[u], NoKey, i, {i}) \in Row BY <3>1, <3>2, NewRowTyped
    <3> QED BY <1>8, <2>1, <2>3, <3>3
  <2> QED BY <1>0, <1>11, <2>2, <2>3, CommitMoves
<1>12. ASSUME UNCHANGED <<balance, ledger, work>> PROVE ChainInvariant'
  BY <1>0, <1>2, <1>12 DEF ReadIsCurrent
<1>13. ASSUME NEW m, NEW o, Observe(m, o) PROVE ChainInvariant' BY <1>12, <1>13 DEF Observe
<1>14. CASE UNCHANGED vars BY <1>12, <1>14 DEF vars
<1> QED
  BY <1>4, <1>5, <1>6, <1>7, <1>9, <1>10, <1>11, <1>13, <1>14 DEF Next, CallStep, SettleStep, AnyKey

(* On one connection no balance movement is lost: the rows of a user chain  *)
(* from the initial points to the balance, through predictions, payouts and *)
(* wallet calls that read the balance before their transaction              *)
(* (insert_ledger_entry and its callers).                                   *)
THEOREM OneConnectionKeepsBooks ==
  ASSUME OneConnection
  PROVE  Spec => []BooksChain
<1>1. Init => ChainInvariant
  <2> SUFFICES ASSUME Init PROVE ChainInvariant OBVIOUS
  <2>1. DOMAIN ledger = {} BY DEF Init
  <2>2. \A u, end : RowsOf(u, end) = {} BY <2>1 DEF RowsOf
  <2>3. BooksChain BY <2>1, <2>2 DEF BooksChain, LeftBefore, Init
  <2>4. ReadIsCurrent BY DEF Init, Idle, ReadIsCurrent
  <2> QED BY <2>3, <2>4, ReconcileInit DEF ChainInvariant
<1>2. ChainInvariant /\ [Next]_vars => ChainInvariant' BY ChainStep
<1>3. ChainInvariant => BooksChain BY DEF ChainInvariant
<1> QED BY <1>1, <1>2, <1>3, PTL DEF Spec

-----------------------------------------------------------------------------
(* The books of any number of connections.  What a wallet call has read is  *)
(* what some row of its user left, however many rows follow it.             *)
Left == [u \in Users |-> {LeftBefore(u, k) : k \in 1 .. Len(ledger) + 1}]

ReadsFollow ==
  \A w \in Workers : work[w].task = "read" => work[w].before \in Left[work[w].call.user]

FollowInvariant == ReconcileInvariant /\ ReadsFollow /\ BalancesFollowRows

(* A row more, and the balance it leaves.  A wallet call may start from any *)
(* balance a row of the user left.                                          *)
LEMMA MoveFollows ==
  ASSUME TypeOK, BalancesFollowRows, ReadsFollow,
         NEW u \in Users, NEW type, NEW n, NEW from, NEW k, NEW ref, NEW note,
         Moves(u, type, n, from, k, ref, note), NewRow(u, type, n, from, k, ref, note) \in Row,
         IF type \in WalletTypes THEN from \in Left[u] ELSE from = balance[u],
         \A v \in Workers : work'[v].task = "read" => work'[v] = work[v]
  PROVE  BalancesFollowRows' /\ ReadsFollow'
<1> DEFINE r == NewRow(u, type, n, from, k, ref, note)
<1>0. ledger \in Seq(Row) /\ balance \in [Users -> Int] BY DEF TypeOK
<1> PICK new \in Nat : new = Len(ledger) + 1 BY <1>0
<1>1. r \in Row /\ ledger' = Append(ledger, r) /\ balance' = [balance EXCEPT ![u] = r.after]
  BY DEF Moves, NewRow
<1>2. r.user = u /\ r.before = from /\ r.type = type BY DEF NewRow
<1> HIDE DEF r
<1>3. /\ \A j \in DOMAIN ledger' : (j \in DOMAIN ledger /\ ledger'[j] = ledger[j]) \/ (j = new /\ ledger'[j] = r)
      /\ Len(ledger') = new
  BY <1>0, <1>1, Appended
<1>4. \A j \in DOMAIN ledger' : j \in 1 .. new BY <1>0, <1>1
<1>5. ASSUME NEW v
      PROVE  /\ \A end \in 1 .. new : LeftBefore(v, end)' = LeftBefore(v, end)
             /\ LeftBefore(v, new + 1)' = IF r.user = v THEN r.after ELSE LeftBefore(v, new)
  BY <1>0, <1>1, LeftBeforeAfter
<1>6. \A v \in Users : balance[v] = LeftBefore(v, new) BY DEF BalancesFollowRows
<1>7. ASSUME NEW v \in Users, NEW b \in Left[v]
      PROVE  b \in Left'[v] /\ \E e \in 1 .. new : b = LeftBefore(v, e)'
  <2>1. PICK e \in 1 .. new : b = LeftBefore(v, e) BY DEF Left
  <2>2. b = LeftBefore(v, e)' BY <1>5, <2>1
  <2>3. Left'[v] = {LeftBefore(v, d)' : d \in 1 .. new + 1} BY <1>3 DEF Left
  <2>4. e \in 1 .. new + 1 OBVIOUS
  <2> QED BY <2>2, <2>3, <2>4
<1>8. ASSUME NEW v \in Users, NEW j \in DOMAIN ledger', ledger'[j].user = v
      PROVE  IF ledger'[j].type \in WalletTypes
             THEN \E i \in 1 .. j : ledger'[j].before = LeftBefore(v, i)'
             ELSE ledger'[j].before = LeftBefore(v, j)'
  <2>1. j \in 1 .. new BY <1>4
  <2>2. LeftBefore(v, j)' = LeftBefore(v, j) BY <1>5, <2>1
  <2>3. CASE j \in DOMAIN ledger /\ ledger'[j] = ledger[j]
    <3>1. IF ledger[j].type \in WalletTypes THEN \E i \in 1 .. j : ledger[j].before = LeftBefore(v, i)
          ELSE ledger[j].before = LeftBefore(v, j)
      BY <1>8, <2>3 DEF BalancesFollowRows
    <3>2. CASE ledger[j].type \in WalletTypes
      <4>1. PICK i \in 1 .. j : ledger[j].before = LeftBefore(v, i) BY <3>1, <3>2
      <4>2. i \in 1 .. new BY <2>1
      <4>3. LeftBefore(v, i)' = LeftBefore(v, i) BY <1>5, <4>2
      <4> QED BY <2>3, <3>2, <4>1, <4>3
    <3>3. CASE ledger[j].type \notin WalletTypes BY <2>2, <2>3, <3>1, <3>3
    <3> QED BY <3>2, <3>3
  <2>4. CASE j = new /\ ledger'[j] = r
    <3>1. v = u BY <1>2, <1>8, <2>4
    <3>2. CASE type \in WalletTypes
      <4>0. from \in Left[v] /\ v \in Users BY <3>1, <3>2
      <4>1. \E i \in 1 .. new : from = LeftBefore(v, i)' BY <1>7, <4>0
      <4> QED BY <1>2, <2>4, <3>2, <4>1
    <3>3. CASE type \notin WalletTypes BY <1>2, <1>6, <2>2, <2>4, <3>1, <3>3
    <3> QED BY <3>2, <3>3
  <2> QED BY <1>3, <2>3, <2>4
<1>9. ASSUME NEW v \in Users PROVE balance'[v] = LeftBefore(v, new + 1)'
  BY <1>0, <1>1, <1>2, <1>5, <1>6
<1>10. ASSUME NEW v \in Users PROVE balance'[v] = LeftBefore(v, Len(ledger) + 1)' BY <1>3, <1>9
<1>11. BalancesFollowRows' BY <1>8, <1>10 DEF BalancesFollowRows
<1>12. ASSUME NEW w \in Workers, work'[w].task = "read" PROVE work'[w].before \in Left'[work'[w].call.user]
  <2>1. work'[w] = work[w] BY <1>12
  <2>2. work[w] \in HasRead
    <3>1. work[w] \in Tasks BY DEF TypeOK, Tasks
    <3> QED BY <1>12, <2>1, <3>1, TaskTells
  <2>3. work[w].call.user \in Users BY <2>2 DEF HasRead, Call
  <2>4. work[w].before \in Left[work[w].call.user] BY <1>12, <2>1 DEF ReadsFollow
  <2> QED BY <1>7, <2>1, <2>3, <2>4
<1>13. ReadsFollow' BY <1>12 DEF ReadsFollow
<1> QED BY <1>11, <1>13

LEMMA FollowStep ==
  ASSUME FollowInvariant, [Next]_vars
  PROVE  FollowInvariant'
<1>0. /\ ReconcileInvariant /\ TypeOK /\ WholeAmounts /\ BalancesFollowRows /\ ReadsFollow
      /\ work \in [Workers -> Tasks] /\ balance \in [Users -> Int]
  BY DEF FollowInvariant, ReconcileInvariant, TypeOK, Tasks
<1>1. ReconcileInvariant' BY <1>0, ReconcileStep
<1>2. ASSUME UNCHANGED <<balance, ledger>>,
             \A v \in Workers : work'[v].task = "read" =>
               \/ work'[v] = work[v]
               \/ work'[v].call.user \in Users /\ work'[v].before = balance[work'[v].call.user]
      PROVE  FollowInvariant'
  <2>1. \A u, end : RowsOf(u, end)' = RowsOf(u, end) BY <1>2 DEF RowsOf
  <2>2. \A u, end : LeftBefore(u, end)' = LeftBefore(u, end) BY <1>2, <2>1 DEF LeftBefore
  <2>3. Len(ledger') = Len(ledger) BY <1>2
  <2>4. \A u : LeftBefore(u, Len(ledger) + 1)' = LeftBefore(u, Len(ledger) + 1)
    BY <2>2, <2>3
  <2>5. BalancesFollowRows' BY <1>0, <1>2, <2>2, <2>4 DEF BalancesFollowRows
  <2>6. \A u \in Users : balance[u] \in Left[u]
    <3>1. ledger \in Seq(Row) BY <1>0 DEF TypeOK
    <3>2. Len(ledger) + 1 \in 1 .. Len(ledger) + 1 BY <3>1
    <3> QED BY <1>0, <3>2 DEF BalancesFollowRows, Left
  <2>7. Left' = Left BY <2>2, <2>3 DEF Left
  <2>8. ReadsFollow' BY <1>0, <1>2, <2>6, <2>7 DEF ReadsFollow
  <2> QED BY <1>1, <2>5, <2>8 DEF FollowInvariant
<1>3. ASSUME NEW w \in Workers, NEW x, Quiet(w, x),
             x.task = "read" => x.call.user \in Users /\ x.before = balance[x.call.user]
      PROVE  FollowInvariant'
  BY <1>0, <1>2, <1>3 DEF Quiet
<1>4. ASSUME NEW w \in Workers, CallStep(w) PROVE FollowInvariant'
  <2>1. PICK call \in Call : Quiet(w, [task |-> "checked", call |-> call]) BY <1>0, <1>4, CallQuiet
  <2> QED BY <1>3, <2>1
<1>5. ASSUME NEW w \in Workers, SettleStep(w) PROVE FollowInvariant'
  <2>1. PICK x \in {Idle} \cup Settling : Quiet(w, x) BY <1>0, <1>5, SettleQuiet
  <2>2. x.task # "read" BY <2>1 DEF Idle, Settling
  <2> QED BY <1>3, <2>1, <2>2
<1>6. ASSUME NEW w \in Workers, ReadBalance(w) PROVE FollowInvariant'
  BY <1>0, <1>3, <1>6, ReadQuiet
<1>7. ASSUME NEW w \in Workers, Abandon(w) PROVE FollowInvariant'
  BY <1>3, <1>7 DEF Abandon, Quiet, Idle
<1>8. ASSUME NEW w \in Workers, NEW x, x.task # "read", work' = [work EXCEPT ![w] = x]
      PROVE  \A v \in Workers : work'[v].task = "read" => work'[v] = work[v]
  BY <1>0, <1>8
<1>9. ASSUME NEW w \in Workers, WriteCall(w) PROVE FollowInvariant'
  <2> DEFINE call == work[w].call
  <2>1. PICK n \in Whole : Moves(call.user, call.type, n, work[w].before, call.key, call.ref, call.note)
    BY <1>0, <1>9, WriteCallMoves
  <2>2. work[w].before \in Int /\ n \in Int /\ call \in Call BY <1>0, <1>9, WriteCallMoves, WholeSums
  <2>3. call.user \in Users /\ call.type \in WalletTypes /\ call.key \in AnyKey /\ call.ref \in Nat
        /\ call.note \in SUBSET Nat
    BY <2>2, AmountsAssumption DEF Call, AnyKey
  <2>4. NewRow(call.user, call.type, n, work[w].before, call.key, call.ref, call.note) \in Row
    BY <2>2, <2>3, NewRowTyped
  <2>5. work[w].before \in Left[call.user] BY <1>0, <1>9 DEF WriteCall, ReadsFollow
  <2>6. \A v \in Workers : work'[v].task = "read" => work'[v] = work[v]
    BY <1>8, <1>9 DEF WriteCall, Idle
  <2>7. BalancesFollowRows' /\ ReadsFollow'
    BY <1>0, <2>1, <2>3, <2>4, <2>5, <2>6, MoveFollows
  <2> QED BY <1>1, <2>7 DEF FollowInvariant
<1>10. ASSUME NEW w \in Workers, NEW u \in Users, NEW m \in Markets, NEW o \in Outcomes,
              NEW n \in Stakes, NEW k \in AnyKey, Predict(w, u, m, o, n, k)
       PROVE  FollowInvariant'
  <2>1. /\ Moves(u, "prediction", -n, balance[u], k, Len(settlements) + 1, {})
        /\ NewRow(u, "prediction", -n, balance[u], k, Len(settlements) + 1, {}) \in Row
    BY <1>0, <1>10, PredictMoves, PredictChanges
  <2>2. "prediction" \notin WalletTypes BY DEF WalletTypes
  <2>3. \A v \in Workers : work'[v].task = "read" => work'[v] = work[v] BY <1>10 DEF Predict
  <2>4. BalancesFollowRows' /\ ReadsFollow' BY <1>0, <2>1, <2>2, <2>3, MoveFollows
  <2> QED BY <1>1, <2>4 DEF FollowInvariant
<1>11. ASSUME NEW w \in Workers, NEW i \in DOMAIN settlements, Commit(w, i) PROVE FollowInvariant'
  <2>1. \A v \in Workers : work'[v].task = "read" => work'[v] = work[v]
    <3>1. PICK x \in {Idle} \cup Settling : work' = [work EXCEPT ![w] = x]
      BY <1>0, <1>11, FinishSettles DEF Commit
    <3>2. x.task # "read" BY <3>1 DEF Idle, Settling
    <3> QED BY <1>8, <3>1, <3>2
  <2>2. CASE UNCHANGED <<balance, ledger>> BY <1>2, <2>1, <2>2
  <2>3. ASSUME NEW u \in Users, NEW type \in SettlementTypes, NEW n \in Whole,
               Moves(u, type, n, balance[u], NoKey, i, {i})
        PROVE  FollowInvariant'
    <3>0. settlements \in Seq(Settlement) BY <1>0 DEF TypeOK
    <3>1. n \in Int /\ balance[u] \in Int /\ i \in Nat /\ {i} \in SUBSET Nat /\ NoKey \in AnyKey
      BY <1>0, <3>0, WholeSums DEF AnyKey
    <3>2. type \in WalletTypes \cup {"prediction", "settlement_win", "settlement_loss"} BY DEF SettlementTypes
    <3>3. NewRow(u, type, n, balance[u], NoKey, i, {i}) \in Row BY <3>1, <3>2, NewRowTyped
    <3>4. type \notin WalletTypes BY DEF SettlementTypes, WalletTypes
    <3>5. BalancesFollowRows' /\ ReadsFollow' BY <1>0, <2>1, <2>3, <3>3, <3>4, MoveFollows
    <3> QED BY <1>1, <3>5 DEF FollowInvariant
  <2> QED BY <1>0, <1>11, <2>2, <2>3, CommitMoves
<1>12. ASSUME UNCHANGED <<balance, ledger, work>> PROVE FollowInvariant'
  BY <1>2, <1>12
<1>13. ASSUME NEW m, NEW o, Observe(m, o) PROVE FollowInvariant' BY <1>12, <1>13 DEF Observe
<1>14. CASE UNCHANGED vars BY <1>12, <1>14 DEF vars
<1> QED
  BY <1>4, <1>5, <1>6, <1>7, <1>9, <1>10, <1>11, <1>13, <1>14 DEF Next, CallStep, SettleStep, AnyKey

(* However many connections write, the balance is what the user's last row  *)
(* left; a prediction or a settlement starts from what the row before it    *)
(* left, a wallet call, which reads the balance before its transaction,     *)
(* from what some earlier row did (insert_ledger_entry and its callers).    *)
THEOREM RowsLeadToBalances == Spec => []BalancesFollowRows
<1>1. Init => FollowInvariant
  <2> SUFFICES ASSUME Init PROVE FollowInvariant OBVIOUS
  <2>1. DOMAIN ledger = {} BY DEF Init
  <2>2. \A u, end : RowsOf(u, end) = {} BY <2>1 DEF RowsOf
  <2>3. BalancesFollowRows BY <2>1, <2>2 DEF BalancesFollowRows, LeftBefore, Init
  <2>4. ReadsFollow BY DEF Init, Idle, ReadsFollow
  <2> QED BY <2>3, <2>4, ReconcileInit DEF FollowInvariant
<1>2. FollowInvariant /\ [Next]_vars => FollowInvariant' BY FollowStep
<1>3. FollowInvariant => BalancesFollowRows BY DEF FollowInvariant
<1> QED BY <1>1, <1>2, <1>3, PTL DEF Spec
=============================================================================
