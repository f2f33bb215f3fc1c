-------------------------- MODULE CollateralLedger --------------------------
(***************************************************************************)
(* The v2 collateral ledger (app/collateral_ledger.py): a treasury issues  *)
(* integer points once and allocates them to participants, an account      *)
(* turns points into complete sets of YES and NO shares and back, and a    *)
(* participant locks points or shares as the collateral of an order.       *)
(*                                                                         *)
(* Every operation runs inside _write_transaction (BEGIN IMMEDIATE, or a   *)
(* savepoint of the caller's transaction) and rolls back on any exception, *)
(* so it is one atomic step.  A call the code refuses, and a call whose    *)
(* idempotency key is already recorded, changes nothing: both are          *)
(* stuttering steps.  A row that is not there yet (an account before its   *)
(* first allocation, a position before the first split) holds nothing, and *)
(* since every amount is positive the code refuses it as it refuses an     *)
(* empty one.                                                              *)
(*                                                                         *)
(* Each operation of the code ends by running verify_collateral_invariants *)
(* and fails when that check fails.  The actions do not have the check as  *)
(* a guard: its parts are invariants below, and hold without it.           *)
(***************************************************************************)
EXTENDS Naturals, Sequences, FiniteSets, UnitSum

CONSTANTS
  Participants,     \* participants with a row in demo_users or user_accounts
  Treasury,         \* the operator account OPERATOR_TREASURY_OWNER_ID
  Markets,          \* source markets whose outcomes are YES and NO
  Point,            \* the asset_type "point"; the others are shares
  Keys,             \* idempotency keys the callers use
  Scale,            \* POINT_SCALE
  IntMax,           \* SQLITE_INTEGER_MAX
  Amounts,          \* amounts of points callers ask for
  Quantities,       \* numbers of shares or sets callers ask for
  MaxReservations   \* bound on order_collateral_reservations

Outcomes == {"YES", "NO"}
Shares   == Markets \X Outcomes
Assets   == Shares \cup {Point}
Accounts == Participants \cup {Treasury}
Holdings == Accounts \X Assets

ASSUME PartiesAssumption ==
  IsFiniteSet(Participants) /\ Treasury \notin Participants

ASSUME MarketsAssumption ==
  IsFiniteSet(Markets) /\ Point \notin Markets \X {"YES", "NO"}

ASSUME NumbersAssumption ==
  /\ Scale \in Nat \ {0} /\ IntMax \in Nat /\ MaxReservations \in Nat
  /\ Amounts \subseteq 1 .. IntMax
  /\ Quantities \subseteq Nat \ {0}

VARIABLES
  issued,            \* point_supply_state.issued_micro (burned_micro stays 0)
  bootstrapped,      \* point_supply_state.bootstrap_completed
  open,              \* collateral_markets rows; the only status written is "open"
  reserve,           \* market_reserves.reserve_micro
  sets,              \* market_reserves.net_complete_sets
  available,         \* point_accounts.available_micro, outcome_positions.available_shares
  locked,            \* point_accounts.locked_micro, outcome_positions.locked_shares
  reservations,      \* order_collateral_reservations, the id is the index
  allocationEvents,  \* point_allocation_events
  setEvents,         \* reserve_events
  orderEvents        \* order_collateral_events

supplyVars == <<issued, bootstrapped>>
marketVars == <<open, reserve, sets>>
orderVars  == <<reservations, orderEvents>>
vars == <<supplyVars, marketVars, available, locked, orderVars,
          allocationEvents, setEvents>>

Reservation ==
  [account : Participants, asset : Assets, amount : Nat \ {0},
   status : {"reserved", "released"}, reason : {"none", "cancelled", "rejected"}]
AllocationEvent == [key : Keys, participant : Participants, amount : Nat \ {0}]
SetEvent ==
  [account : Accounts, key : Keys, type : {"split", "merge"},
   market : Markets, quantity : Nat \ {0}]
OrderEvent ==
  [account : Participants, key : Keys, type : {"reserve", "release"},
   reservation : Nat \ {0}]

TypeOK ==
  /\ issued \in 0 .. IntMax /\ bootstrapped \in BOOLEAN
  /\ open \subseteq Markets
  /\ reserve \in [Markets -> Nat] /\ sets \in [Markets -> Nat]
  /\ available \in [Holdings -> Nat] /\ locked \in [Holdings -> Nat]
  /\ reservations \in Seq(Reservation) /\ Len(reservations) <= MaxReservations
  /\ allocationEvents \subseteq AllocationEvent /\ IsFiniteSet(allocationEvents)
  /\ setEvents \subseteq SetEvent /\ IsFiniteSet(setEvents)
  /\ orderEvents \subseteq OrderEvent /\ IsFiniteSet(orderEvents)

Init ==
  /\ issued = 0 /\ bootstrapped = FALSE
  /\ open = {}
  /\ reserve = [m \in Markets |-> 0] /\ sets = [m \in Markets |-> 0]
  /\ available = [h \in Holdings |-> 0] /\ locked = [h \in Holdings |-> 0]
  /\ reservations = <<>>
  /\ allocationEvents = {} /\ setEvents = {} /\ orderEvents = {}

-----------------------------------------------------------------------------
(* Steps the operations share.  The definitions whose name ends in _slip   *)
(* are the same step with a plausible mistake; nothing below uses them, and *)
(* each breaks a property when it takes the place of the one after it.      *)

Funded_slip(h, n) == available[h] + locked[h] >= n

Funded(h, n) == available[h] >= n
Fits(n, balance) == balance <= IntMax - n

Lock_slip(h, n) == locked' = [locked EXCEPT ![h] = @ + n] /\ UNCHANGED available

Lock(h, n) ==
  /\ available' = [available EXCEPT ![h] = @ - n]
  /\ locked' = [locked EXCEPT ![h] = @ + n]

Unlock_slip(h, n) == available' = [available EXCEPT ![h] = @ + n] /\ UNCHANGED locked

Unlock(h, n) ==
  /\ available' = [available EXCEPT ![h] = @ + n]
  /\ locked' = [locked EXCEPT ![h] = @ - n]

-----------------------------------------------------------------------------
(* bootstrap_v2_point_supply: issue the whole supply to the treasury, once. *)
Bootstrap(n) ==
  /\ ~bootstrapped
  /\ Fits(n, issued)
  /\ Fits(n, available[<<Treasury, Point>>])
  /\ bootstrapped' = TRUE
  /\ issued' = issued + n
  /\ available' = [available EXCEPT ![<<Treasury, Point>>] = @ + n]
  /\ UNCHANGED <<marketVars, locked, orderVars, allocationEvents, setEvents>>

(* allocate_v2_points_to_participant: the key is looked up for the whole    *)
(* engine, not per account.                                                 *)
Allocate(p, n, k) ==
  /\ ~\E e \in allocationEvents : e.key = k
  /\ bootstrapped
  /\ Funded(<<Treasury, Point>>, n)
  /\ Fits(n, available[<<p, Point>>])
  /\ available' = [available EXCEPT ![<<Treasury, Point>>] = @ - n,
                                    ![<<p, Point>>] = @ + n]
  /\ allocationEvents' = allocationEvents \cup
       {[key |-> k, participant |-> p, amount |-> n]}
  /\ UNCHANGED <<supplyVars, marketVars, locked, orderVars, setEvents>>

CreateMarket_slip(m) ==
  /\ open' = open \cup {m}
  /\ reserve' = [reserve EXCEPT ![m] = 0]
  /\ UNCHANGED <<supplyVars, sets, available, locked, orderVars,
                 allocationEvents, setEvents>>

(* create_collateral_market; an existing market is a replay.                *)
CreateMarket(m) ==
  /\ m \notin open
  /\ open' = open \cup {m}
  /\ UNCHANGED <<supplyVars, reserve, sets, available, locked, orderVars,
                 allocationEvents, setEvents>>

-----------------------------------------------------------------------------
(* _complete_set_operation: the key is per account, shared by split and     *)
(* merge.                                                                   *)
FreshSetKey_slip(a, k) == TRUE

FreshSetKey(a, k) == ~\E e \in setEvents : e.account = a /\ e.key = k

RecordSetEvent(type, a, m, q, k) ==
  setEvents' = setEvents \cup
    {[account |-> a, key |-> k, type |-> type, market |-> m, quantity |-> q]}

BackSets_slip(m, q) ==
  /\ reserve' = [reserve EXCEPT ![m] = @ + q]
  /\ sets' = [sets EXCEPT ![m] = @ + q]

BackSets(m, q) ==
  /\ reserve' = [reserve EXCEPT ![m] = @ + q * Scale]
  /\ sets' = [sets EXCEPT ![m] = @ + q]

UnbackSets_slip(m, q) ==
  reserve' = [reserve EXCEPT ![m] = @ - q * Scale] /\ UNCHANGED sets

UnbackSets(m, q) ==
  /\ reserve' = [reserve EXCEPT ![m] = @ - q * Scale]
  /\ sets' = [sets EXCEPT ![m] = @ - q]

Split(a, m, q, k) ==
  /\ q * Scale <= IntMax
  /\ FreshSetKey(a, k)
  /\ m \in open
  /\ Funded(<<a, Point>>, q * Scale)
  /\ Fits(q * Scale, reserve[m])
  /\ \A o \in Outcomes : Fits(q, available[<<a, <<m, o>>>>])
  /\ available' = [available EXCEPT ![<<a, Point>>] = @ - q * Scale,
                                    ![<<a, <<m, "YES">>>>] = @ + q,
                                    ![<<a, <<m, "NO">>>>] = @ + q]
  /\ BackSets(m, q)
  /\ RecordSetEvent("split", a, m, q, k)
  /\ UNCHANGED <<supplyVars, open, locked, orderVars, allocationEvents>>

Merge(a, m, q, k) ==
  /\ q * Scale <= IntMax
  /\ FreshSetKey(a, k)
  /\ m \in open
  /\ \A o \in Outcomes : Funded(<<a, <<m, o>>>>, q)
  /\ reserve[m] >= q * Scale
  /\ Fits(q * Scale, available[<<a, Point>>])
  /\ available' = [available EXCEPT ![<<a, Point>>] = @ + q * Scale,
                                    ![<<a, <<m, "YES">>>>] = @ - q,
                                    ![<<a, <<m, "NO">>>>] = @ - q]
  /\ UnbackSets(m, q)
  /\ RecordSetEvent("merge", a, m, q, k)
  /\ UNCHANGED <<supplyVars, open, locked, orderVars, allocationEvents>>

-----------------------------------------------------------------------------
(* Order collateral.  The key is per account, shared by reserve, cancel and *)
(* reject, and separate from the keys of split and merge.                   *)
FreshOrderKey(a, k) == ~\E e \in orderEvents : e.account = a /\ e.key = k

RecordOrderEvent(type, a, i, k) ==
  orderEvents' = orderEvents \cup
    {[account |-> a, key |-> k, type |-> type, reservation |-> i]}

(* The part of reserve_v2_order_collateral common to both sides: n of asset *)
(* x moves from available to locked.  For a BUY the code also stores the    *)
(* market and the outcome; nothing reads them, and they are left out.       *)
Reserve(p, x, n, k) ==
  /\ FreshOrderKey(p, k)
  /\ Funded(<<p, x>>, n)
  /\ Fits(n, locked[<<p, x>>])
  /\ Len(reservations) < MaxReservations
  /\ Lock(<<p, x>>, n)
  /\ reservations' = Append(reservations,
       [account |-> p, asset |-> x, amount |-> n,
        status |-> "reserved", reason |-> "none"])
  /\ RecordOrderEvent("reserve", p, Len(reservations) + 1, k)
  /\ UNCHANGED <<supplyVars, marketVars, allocationEvents, setEvents>>

ReserveBuy(p, q, price, k) ==
  /\ open # {}
  /\ q * price <= IntMax
  /\ Reserve(p, Point, q * price, k)

ReserveSell(p, m, o, q, k) ==
  /\ m \in open
  /\ Reserve(p, <<m, o>>, q, k)

Releasable_slip(i) == TRUE

Releasable(i) == reservations[i].status = "reserved"

MarkReleased_slip(i, reason) ==
  reservations' = [reservations EXCEPT ![i].reason = reason]

MarkReleased(i, reason) ==
  reservations' = [reservations EXCEPT ![i].status = "released",
                                       ![i].reason = reason]

(* _release_v2_order_collateral: by the owner (cancel) or an admin (reject). *)
(* There is no overflow check on the way back, and no check of the market.   *)
Release(i, reason, k) ==
  LET h == <<reservations[i].account, reservations[i].asset>>
  IN /\ FreshOrderKey(reservations[i].account, k)
     /\ Releasable(i)
     /\ locked[h] >= reservations[i].amount
     /\ Unlock(h, reservations[i].amount)
     /\ MarkReleased(i, reason)
     /\ RecordOrderEvent("release", reservations[i].account, i, k)
     /\ UNCHANGED <<supplyVars, marketVars, allocationEvents, setEvents>>

Cancel(p, i, k) == reservations[i].account = p /\ Release(i, "cancelled", k)

Reject(i, k) == Release(i, "rejected", k)

Next ==
  \/ \E n \in Amounts : Bootstrap(n)
  \/ \E p \in Participants, n \in Amounts, k \in Keys : Allocate(p, n, k)
  \/ \E m \in Markets : CreateMarket(m)
  \/ \E a \in Accounts, m \in Markets, q \in Quantities, k \in Keys : Split(a, m, q, k)
  \/ \E a \in Accounts, m \in Markets, q \in Quantities, k \in Keys : Merge(a, m, q, k)
  \/ \E p \in Participants, q \in Quantities, price \in 1 .. Scale, k \in Keys :
       ReserveBuy(p, q, price, k)
  \/ \E p \in Participants, m \in Markets, o \in Outcomes, q \in Quantities, k \in Keys :
       ReserveSell(p, m, o, q, k)
  \/ \E p \in Participants, i \in DOMAIN reservations, k \in Keys : Cancel(p, i, k)
  \/ \E i \in DOMAIN reservations, k \in Keys : Reject(i, k)

Spec == Init /\ [][Next]_vars

-----------------------------------------------------------------------------
(* Properties.                                                             *)

Held(h) == available[h] + locked[h]
HeldBy(x) == [a \in Accounts |-> Held(<<a, x>>)]

(* Every issued point is in exactly one place: an account, available or     *)
(* locked, or the reserve of a market (verify_collateral_invariants,        *)
(* "global_point_conservation_failed").                                     *)
PointConservation == issued = Total(HeldBy(Point)) + Total(reserve)

(* A market's reserve is worth exactly its complete sets, and as many YES   *)
(* shares as NO shares as complete sets are held, locked ones included      *)
(* ("reserve_complete_set_mismatch", "yes_supply_mismatch",                 *)
(* "no_supply_mismatch").                                                   *)
SetsFullyBacked ==
  \A m \in Markets :
    /\ reserve[m] = sets[m] * Scale
    /\ \A o \in Outcomes : Total(HeldBy(<<m, o>>)) = sets[m]

(* What is locked on a holding is the sum of the reservations that still    *)
(* claim it ("buy_locked_points_mismatch", "sell_locked_shares_mismatch").  *)
Claim(h) ==
  [i \in DOMAIN reservations |->
     IF reservations[i].status = "reserved"
        /\ <<reservations[i].account, reservations[i].asset>> = h
     THEN reservations[i].amount ELSE 0]

LocksMatchReservations == \A h \in Holdings : locked[h] = Total(Claim(h))

(* verify_collateral_invariants of the markets S: every operation calls it  *)
(* before it commits, reserve also before it starts, and refuses with       *)
(* "invariant_violation" when it objects.  The two ledger entries of each   *)
(* order event, which it compares as well, are left out.                    *)
OrderEventsOf(type, i) == {e \in orderEvents : e.type = type /\ e.reservation = i}

verify_collateral_invariants(S) ==
  /\ PointConservation
  /\ \A m \in S \cap open :
       /\ reserve[m] = sets[m] * Scale
       /\ \A o \in Outcomes : Total(HeldBy(<<m, o>>)) = sets[m]
  /\ \A h \in Holdings : available[h] >= 0 /\ locked[h] >= 0
  /\ \A m \in Markets : reserve[m] >= 0 /\ sets[m] >= 0
  /\ LocksMatchReservations
  /\ \A i \in DOMAIN reservations :
       /\ \E e \in orderEvents : OrderEventsOf("reserve", i) = {e}
       /\ IF reservations[i].status = "reserved" THEN OrderEventsOf("release", i) = {}
          ELSE \E e \in orderEvents : OrderEventsOf("release", i) = {e}

(* The verifier never objects, so the refusal, which the actions leave out, *)
(* is unreachable: one bad row would stop every operation of the engine.    *)
VerifierNeverObjects == verify_collateral_invariants(Markets)

(* The recorded events account for everything an account owns: allocations  *)
(* and splits and merges, and nothing else, move points and shares between  *)
(* owners, and each moved them once.                                        *)
Moved(type, a) ==
  Total([e \in setEvents |-> IF e.type = type /\ e.account = a THEN e.quantity ELSE 0])

MovedIn(type, a, m) ==
  Total([e \in setEvents |->
           IF e.type = type /\ e.account = a /\ e.market = m THEN e.quantity ELSE 0])

Allocated(a) ==
  Total([e \in allocationEvents |-> IF a \in {e.participant, Treasury} THEN e.amount ELSE 0])

PointsExplained(a) ==
  Held(<<a, Point>>) + Moved("split", a) * Scale + (IF a = Treasury THEN Allocated(a) ELSE 0)
    = Moved("merge", a) * Scale + (IF a = Treasury THEN issued ELSE Allocated(a))

SharesExplained(a, m, o) ==
  Held(<<a, <<m, o>>>>) + MovedIn("merge", a, m) = MovedIn("split", a, m)

HistoryExplainsHoldings ==
  \A a \in Accounts :
    PointsExplained(a) /\ \A m \in Markets, o \in Outcomes : SharesExplained(a, m, o)

(* A reservation can always be released: the lock covers it, and giving it  *)
(* back, which the code does without an overflow check, stays in range.     *)
ReleaseNeverFails ==
  \A i \in DOMAIN reservations :
    LET h == <<reservations[i].account, reservations[i].asset>>
    IN reservations[i].status = "reserved" =>
         /\ locked[h] >= reservations[i].amount
         /\ Fits(reservations[i].amount, available[h])

(* Whoever holds q complete sets unlocked can redeem them: the refusals     *)
(* "invariant_violation" and "integer_overflow" of a merge are unreachable. *)
RedemptionNeverFails ==
  \A a \in Accounts, m \in open, q \in Quantities :
    (\A o \in Outcomes : Funded(<<a, <<m, o>>>>, q)) =>
      /\ reserve[m] >= q * Scale
      /\ Fits(q * Scale, available[<<a, Point>>])

(* A reservation never changes except once, from reserved to released, and *)
(* that step returns its amount to the holding it came from.                *)
ReleaseExactly(i) ==
  LET r == reservations[i]
      s == reservations'[i]
      h == <<r.account, r.asset>>
  IN s # r =>
       /\ r.status = "reserved" /\ s.status = "released"
       /\ <<s.account, s.asset, s.amount>> = <<r.account, r.asset, r.amount>>
       /\ available'[h] = available[h] + r.amount
       /\ locked'[h] = locked[h] - r.amount

(* A release is final and exact, whichever of cancel and reject comes first *)
(* and whatever comes between them.                                         *)
ReleaseOnceAndExactly == [][\A i \in DOMAIN reservations : ReleaseExactly(i)]_vars

(* When the locked part of a holding moves, its total and every other       *)
(* holding stay.                                                            *)
KeepsOwnership ==
  \A h \in Holdings : locked'[h] # locked[h] =>
    /\ Held(h)' = Held(h)
    /\ \A g \in Holdings \ {h} : Held(g)' = Held(g)

(* Locking and unlocking never changes who owns what: what reserve, cancel  *)
(* and reject move stays with the account it came from.                     *)
LocksKeepOwnership == [][KeepsOwnership]_vars

(* The ledger implements the bank of complete sets, in which there is no    *)
(* collateral, no key and no event: only who owns what.                     *)
Bank == INSTANCE CompleteSetBank WITH owned <- [h \in Holdings |-> Held(h)]

ImplementsBank == Bank!Spec
=============================================================================
