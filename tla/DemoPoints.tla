----------------------------- MODULE DemoPoints -----------------------------
(***************************************************************************)
(* The V1 demo points: predictions (app/demo_points.py), their settlement  *)
(* from REST evidence (app/settlement.py) and the operators' corrections   *)
(* of a balance (app/demo_wallet.py), over one SQLite database.            *)
(*                                                                         *)
(* A worker is a database connection running one call at a time.  A        *)
(* prediction runs inside BEGIN IMMEDIATE and is one step.  Settling reads *)
(* the pending rows, then for each one asks the market service outside any *)
(* transaction and commits inside BEGIN IMMEDIATE.  A wallet call looks    *)
(* its key up and reads the balance in autocommit mode, and only then      *)
(* opens the transaction that writes.                                      *)
(*                                                                         *)
(* A position and its settlement row are written by the same transaction,  *)
(* one for one, and are one record here.  Amounts are integers: Cent units *)
(* make the hundredth of a point that balances are rounded to.  A note is  *)
(* the set of the numbers it names as settlement_id=<number>.  Audit       *)
(* events are left out, and so is the display classification that may      *)
(* refuse a prediction.                                                    *)
(***************************************************************************)
EXTENDS Integers, Sequences, FiniteSets

CONSTANTS
  Workers,         \* database connections
  Users,           \* rows of demo_users
  Markets,
  Outcomes,        \* outcomes every market has
  Keys, NoKey,     \* idempotency keys, and the call that has none
  None,            \* SQL NULL
  Initial,         \* INITIAL_DEMO_POINTS
  Cent,            \* units in a hundredth of a point
  Odds,            \* 1 / probability of the outcome predicted
  Stakes,          \* stakes users ask for, up to max_demo_stake
  Reports,         \* outcomes the WebSocket may report
  Answers,         \* what the market service may answer: a winner, or see Unclear
  Amounts,         \* amounts operators add, which are rounded; stakes are not
  Corrections,     \* the corrections operators use: see WalletTypes
  Reasons,         \* operators' reasons: the numbers after settlement_id= in each
  MaxSettlements,  \* bound on demo_settlements
  MaxRows          \* no wallet call starts once demo_point_ledger has so many rows

Unclear == {"unavailable", "unresolved", "invalid", "conflict"}
WalletTypes == {"demo_point_add", "demo_balance_reset", "correction_reversal"}

ASSUME WorkersAssumption == Workers # {} /\ None \notin Outcomes
ASSUME AnswersAssumption ==
  Answers \subseteq Outcomes \cup Unclear /\ Reports \subseteq Outcomes /\ Outcomes \cap Unclear = {}
ASSUME AmountsAssumption ==
  /\ Cent \in Nat \ {0} /\ Odds \in Nat \ {0} /\ Initial \in Nat /\ Initial % Cent = 0
  /\ Stakes \subseteq Nat \ {0}
  /\ Amounts \subseteq Nat \ {0} /\ \A n \in Amounts : n % Cent = 0
  /\ NoKey \notin Keys /\ Corrections \subseteq WalletTypes /\ Reasons \subseteq SUBSET Nat
  /\ MaxSettlements \in Nat /\ MaxRows \in Nat

VARIABLES
  balance,       \* demo_users.balance
  settlements,   \* simulated_positions with demo_settlements; the id is the index
  ledger,        \* demo_point_ledger after the initial rows; the id is the index
  evidence,      \* settlement_evidence: settlement and answer
  candidate,     \* latest market_resolved event of the WebSocket, per market
  work           \* what each worker is doing

vars == <<balance, settlements, ledger, evidence, candidate, work>>

Settled == {"settled_win", "settled_loss"}
Pending == {"pending", "settlement_pending", "settlement_unknown"}

Settlement ==
  [user : Users, market : Markets, outcome : Outcomes, key : Keys \cup {NoKey},
   estimated_return : Nat, status : Settled \cup Pending,
   winner : Outcomes \cup {None}, payout : Nat]
Row ==
  [user : Users, type : WalletTypes \cup {"prediction", "settlement_win", "settlement_loss"},
   amount : Int, before : Int, after : Int, key : Keys \cup {NoKey}, ref : Nat,
   note : SUBSET Nat]
Call ==
  [type : WalletTypes, user : Users, amount : Int, key : Keys \cup {NoKey}, ref : Nat,
   note : Reasons]

Idle == [task |-> "idle"]
Settling ==
  [task : {"settle"}, todo : SUBSET (1 .. MaxSettlements), answer : Answers \cup {None}]
Checked == [task : {"checked"}, call : Call]
HasRead == [task : {"read"}, call : Call, before : Int]

TypeOK ==
  /\ balance \in [Users -> Int]
  /\ settlements \in Seq(Settlement) /\ Len(settlements) <= MaxSettlements
  /\ ledger \in Seq(Row)
  /\ evidence \subseteq (1 .. MaxSettlements) \X Answers
  /\ candidate \in [Markets -> Outcomes \cup {None}]
  /\ work \in [Workers -> {Idle} \cup Settling \cup Checked \cup HasRead]

Init ==
  /\ balance = [u \in Users |-> Initial]
  /\ settlements = <<>> /\ ledger = <<>> /\ evidence = {}
  /\ candidate = [m \in Markets |-> None]
  /\ work = [w \in Workers |-> Idle]

-----------------------------------------------------------------------------
(* Definitions whose name ends in _slip are the next one with a plausible   *)
(* mistake; nothing below uses them.                                        *)

Round2(x) == ((2 * x + Cent) \div (2 * Cent)) * Cent   \* round(x, 2); no ties for odd Cent

Record_slip(u, type, n, from, k, ref, note) ==
  ledger' = Append(ledger, [user |-> u, type |-> type, amount |-> n,
              before |-> from, after |-> from, key |-> k, ref |-> ref, note |-> note])

(* insert_ledger_entry, with the balance the caller computed.               *)
Record(u, type, n, from, k, ref, note) ==
  ledger' = Append(ledger, [user |-> u, type |-> type, amount |-> n,
              before |-> from, after |-> Round2(from + n), key |-> k, ref |-> ref, note |-> note])

-----------------------------------------------------------------------------
(* create_demo_prediction.  A key the user has used is a replay or a        *)
(* conflict: neither changes anything.                                      *)
FreshPrediction(u, k) ==
  k # NoKey => \A i \in DOMAIN settlements : <<settlements[i].user, settlements[i].key>> # <<u, k>>

Predict(w, u, m, o, n, k) ==
  /\ work[w] = Idle
  /\ Len(settlements) < MaxSettlements
  /\ FreshPrediction(u, k)
  /\ n <= balance[u]
  /\ balance' = [balance EXCEPT ![u] = Round2(@ - n)]
  /\ settlements' = Append(settlements,
       [user |-> u, market |-> m, outcome |-> o, key |-> k,
        estimated_return |-> Round2(n * Odds),
        status |-> "pending", winner |-> None, payout |-> 0])
  /\ Record(u, "prediction", -n, balance[u], k, Len(settlements) + 1, {})
  /\ UNCHANGED <<evidence, candidate, work>>

-----------------------------------------------------------------------------
(* The market_resolved events of the public WebSocket (apply_ws_events).    *)
Observe(m, o) ==
  /\ candidate' = [candidate EXCEPT ![m] = o]
  /\ UNCHANGED <<balance, settlements, ledger, evidence, work>>

(* settle_pending_positions: list the user's unsettled rows, then settle_one *)
(* each in the order of the ids.                                            *)
ListPending(w, u) ==
  LET todo == {i \in DOMAIN settlements :
                 settlements[i].user = u /\ settlements[i].status \in Pending}
  IN /\ work[w] = Idle
     /\ todo # {}
     /\ work' = [work EXCEPT ![w] = [task |-> "settle", todo |-> todo, answer |-> None]]
     /\ UNCHANGED <<balance, settlements, ledger, evidence, candidate>>

IsNext(w, i) ==
  /\ work[w].task = "settle"
  /\ i \in work[w].todo /\ \A j \in work[w].todo : i <= j

Finish(w, i) ==
  work' = [work EXCEPT ![w] = IF work[w].todo = {i} THEN Idle
             ELSE [task |-> "settle", todo |-> work[w].todo \ {i}, answer |-> None]]

(* settle_one before its transaction: a row somebody else settled since the *)
(* list was made is skipped, for any other the market service is asked.     *)
Skip(w, i) ==
  /\ IsNext(w, i) /\ work[w].answer = None
  /\ settlements[i].status \in Settled
  /\ Finish(w, i)
  /\ UNCHANGED <<balance, settlements, ledger, evidence, candidate>>

Fetch(w, i, a) ==
  /\ IsNext(w, i) /\ work[w].answer = None
  /\ settlements[i].status \notin Settled
  /\ work' = [work EXCEPT ![w].answer = a]
  /\ UNCHANGED <<balance, settlements, ledger, evidence, candidate>>

(* settlement_ledger_entry_exists: some note, of a row of any type and user, *)
(* contains settlement_id=<i>, so i need only begin the number it names.    *)
DecimalPrefix(i, j) == \E d \in 0 .. 9 : j \div 10^d = i

settlement_ledger_entry_exists(i) ==
  \E n \in DOMAIN ledger : \E j \in ledger[n].note : DecimalPrefix(i, j)

update_demo_settlement(i, status, winner, payout) ==
  settlements' = [settlements EXCEPT ![i].status = status,
                    ![i].winner = winner, ![i].payout = payout]

NotConfirmed(i, a) ==
  /\ update_demo_settlement(i, IF a \in {"conflict", "invalid"}
       THEN "settlement_unknown" ELSE "settlement_pending", None, 0)
  /\ UNCHANGED <<balance, ledger>>

Won_slip(i, a) ==
  LET s == settlements[i]
  IN /\ s.outcome = a
     /\ update_demo_settlement(i, "settled_win", a, s.estimated_return)
     /\ balance' = [balance EXCEPT ![s.user] = Round2(@ + s.estimated_return)]
     /\ UNCHANGED ledger

Won(i, a) ==
  LET s == settlements[i]
  IN /\ s.outcome = a
     /\ update_demo_settlement(i, "settled_win", a, s.estimated_return)
     /\ IF settlement_ledger_entry_exists(i) THEN UNCHANGED <<balance, ledger>>
        ELSE /\ balance' = [balance EXCEPT ![s.user] = Round2(@ + s.estimated_return)]
             /\ Record(s.user, "settlement_win", s.estimated_return, balance[s.user], NoKey, i, {i})

Lost(i, a) ==
  LET s == settlements[i]
  IN /\ s.outcome # a
     /\ update_demo_settlement(i, "settled_loss", a, 0)
     /\ UNCHANGED balance
     /\ IF settlement_ledger_entry_exists(i) THEN UNCHANGED ledger
        ELSE Record(s.user, "settlement_loss", 0, balance[s.user], NoKey, i, {i})

StillUnsettled_slip(i) == TRUE

StillUnsettled(i) == settlements[i].status \notin Settled

(* The transaction of settle_one: reads the row again, and leaves it alone  *)
(* when a competing worker settled it during the request.                   *)
Commit(w, i) ==
  LET a == work[w].answer
  IN /\ IsNext(w, i) /\ a # None
     /\ Finish(w, i)
     /\ IF StillUnsettled(i)
        THEN /\ evidence' = evidence \cup {<<i, a>>}
             /\ \/ a \in Unclear /\ NotConfirmed(i, a)
                \/ a \notin Unclear /\ (Won(i, a) \/ Lost(i, a))
        ELSE UNCHANGED <<balance, settlements, ledger, evidence>>
     /\ UNCHANGED candidate

-----------------------------------------------------------------------------
(* The wallet calls: each checks, reads the balance, and writes what it     *)
(* computed, in three separate steps.                                       *)
FreshCall(call) ==
  call.key # NoKey =>
    \A n \in DOMAIN ledger : <<ledger[n].user, ledger[n].type, ledger[n].key>>
                               # <<call.user, call.type, call.key>>

NotReversed(n) ==
  \A j \in DOMAIN ledger : ~(ledger[j].type = "correction_reversal" /\ ledger[j].ref = n)

CheckCall(w, call) ==
  /\ work[w] = Idle
  /\ Len(ledger) < MaxRows
  /\ FreshCall(call)
  /\ work' = [work EXCEPT ![w] = [task |-> "checked", call |-> call]]
  /\ UNCHANGED <<balance, settlements, ledger, evidence, candidate>>

(* The reason an operator gives becomes the row's note, behind a fixed      *)
(* prefix for a reversal.                                                   *)
add_demo_points(w, u, n, k, reason) ==
  /\ "demo_point_add" \in Corrections
  /\ CheckCall(w, [type |-> "demo_point_add", user |-> u, amount |-> n,
                   key |-> k, ref |-> 0, note |-> reason])

reset_demo_balance(w, u, k, reason) ==
  /\ "demo_balance_reset" \in Corrections
  /\ CheckCall(w, [type |-> "demo_balance_reset", user |-> u, amount |-> 0,
                   key |-> k, ref |-> 0, note |-> reason])

reverse_demo_ledger_entry(w, n, k, reason) ==
  /\ "correction_reversal" \in Corrections
  /\ ledger[n].type # "correction_reversal"
  /\ NotReversed(n)
  /\ CheckCall(w, [type |-> "correction_reversal", user |-> ledger[n].user,
                   amount |-> Round2(-ledger[n].amount), key |-> k, ref |-> n, note |-> reason])

ReadBalance(w) ==
  /\ work[w].task = "checked"
  /\ work' = [work EXCEPT ![w] = [task |-> "read", call |-> work[w].call,
                                  before |-> balance[work[w].call.user]]]
  /\ UNCHANGED <<balance, settlements, ledger, evidence, candidate>>

WriteCall_slip(w) ==
  LET call == work[w].call
  IN /\ work[w].task = "read"
     /\ balance' = [balance EXCEPT ![call.user] = Initial]
     /\ Record(call.user, call.type, call.amount, work[w].before, call.key, call.ref, call.note)
     /\ work' = [work EXCEPT ![w] = Idle]
     /\ UNCHANGED <<settlements, evidence, candidate>>

WriteCall(w) ==
  LET call   == work[w].call
      before == work[w].before
      amount == IF call.type = "demo_balance_reset" THEN Round2(Initial - before)
                ELSE call.amount
  IN /\ work[w].task = "read"
     /\ balance' = [balance EXCEPT ![call.user] = Round2(before + amount)]
     /\ Record(call.user, call.type, amount, before, call.key, call.ref, call.note)
     /\ work' = [work EXCEPT ![w] = Idle]
     /\ UNCHANGED <<settlements, evidence, candidate>>

(* The process dies, or a statement fails and its transaction rolls back.   *)
Abandon(w) ==
  /\ work[w] # Idle
  /\ work' = [work EXCEPT ![w] = Idle]
  /\ UNCHANGED <<balance, settlements, ledger, evidence, candidate>>

AnyKey == Keys \cup {NoKey}

Next ==
  \/ \E m \in Markets, o \in Reports : Observe(m, o)
  \/ \E w \in Workers :
       \/ \E u \in Users, m \in Markets, o \in Outcomes, n \in Stakes, k \in AnyKey :
            Predict(w, u, m, o, n, k)
       \/ \E u \in Users : ListPending(w, u)
       \/ \E i \in DOMAIN settlements, a \in Answers : Fetch(w, i, a)
       \/ \E i \in DOMAIN settlements : Skip(w, i) \/ Commit(w, i)
       \/ \E k \in AnyKey, reason \in Reasons :
            \/ \E u \in Users, n \in Amounts : add_demo_points(w, u, n, k, reason)
            \/ \E u \in Users : reset_demo_balance(w, u, k, reason)
            \/ \E n \in DOMAIN ledger : reverse_demo_ledger_entry(w, n, k, reason)
       \/ ReadBalance(w) \/ WriteCall(w) \/ Abandon(w)

Spec == Init /\ [][Next]_vars

-----------------------------------------------------------------------------
(* Properties.                                                             *)

SettlementRows(i) ==
  {n \in DOMAIN ledger :
     ledger[n].type \in {"settlement_win", "settlement_loss"} /\ ledger[n].ref = i}

(* The row settle_one writes for a settlement, and it alone: of its user,   *)
(* with its payout.                                                         *)
HasItsRow(i) ==
  \E n \in DOMAIN ledger :
    /\ SettlementRows(i) = {n}
    /\ <<ledger[n].user, ledger[n].amount>> = <<settlements[i].user, settlements[i].payout>>

(* However many workers settle it, a settlement has at most one ledger row, *)
(* and none before it is settled.  A settled one is without its row only    *)
(* because a note names a number that its own begins: then nothing was paid. *)
PaidUnlessNamed ==
  \A i \in DOMAIN settlements :
    IF settlements[i].status \in Settled
    THEN HasItsRow(i) \/ (SettlementRows(i) = {} /\ settlement_ledger_entry_exists(i))
    ELSE SettlementRows(i) = {}

(* What the docs promise: every win is paid and every loss has its zero     *)
(* row.  settlement_ledger_entry_exists decides about both and breaks it.   *)
SettlementRecordedOnce ==
  \A i \in DOMAIN settlements :
    IF settlements[i].status \in Settled THEN HasItsRow(i) ELSE SettlementRows(i) = {}

(* A settlement rests on the evidence recorded for it: one confirmed winner *)
(* when it is settled, no confirmed winner before.                          *)
EvidenceDecides ==
  \A i \in DOMAIN settlements :
    {a \in Answers : a \notin Unclear /\ <<i, a>> \in evidence} =
      IF settlements[i].status \in Settled THEN {settlements[i].winner} ELSE {}

(* What is settled stays as it is, whatever a worker that asked the market  *)
(* service earlier or later was told.                                       *)
KeepsSettled(i) ==
  settlements[i].status \in Settled => settlements'[i] = settlements[i]

SettledIsFinal == [][\A i \in DOMAIN settlements : KeepsSettled(i)]_vars

(* What the last of a user's rows before position end left as the balance.  *)
RowsOf(u, end) == {n \in DOMAIN ledger : ledger[n].user = u /\ n < end}

LastOf(S) == CHOOSE n \in S : \A k \in S : k <= n

LeftBefore(u, end) ==
  IF RowsOf(u, end) = {} THEN Initial ELSE ledger[LastOf(RowsOf(u, end))].after

(* The balance is what the user's last row left, and a prediction or a      *)
(* settlement starts where the row before it ended, however many            *)
(* connections write.  Only a wallet call, which reads the balance before   *)
(* its transaction, may start from one the user had earlier.                *)
BalancesFollowRows ==
  \A u \in Users :
    /\ balance[u] = LeftBefore(u, Len(ledger) + 1)
    /\ \A n \in DOMAIN ledger : ledger[n].user = u =>
         IF ledger[n].type \in WalletTypes
         THEN \E k \in 1 .. n : ledger[n].before = LeftBefore(u, k)
         ELSE ledger[n].before = LeftBefore(u, n)

(* What the docs say of every new row.                                      *)
RowsAddUp ==
  \A n \in DOMAIN ledger : ledger[n].before + ledger[n].amount = ledger[n].after
=============================================================================
