----------------------- MODULE CollateralLedger_proofs -----------------------
(***************************************************************************)
(* Theorems about the v2 collateral ledger, for all participants, markets, *)
(* keys, amounts and quantities.                                           *)
(***************************************************************************)
EXTENDS CollateralLedger, UnitSum_proofs, SequenceTheorems

ReserveBacksSets == \A m \in Markets : reserve[m] = sets[m] * Scale

LEMMA CancelScale ==
  ASSUME NEW x \in Nat, NEW y \in Nat, x * Scale >= y * Scale
  PROVE  x >= y
<1>1. Scale \in Nat \ {0}
  BY NumbersAssumption
<1> QED
  BY <1>1

LEMMA HoldingFacts ==
  /\ \A a \in Accounts, x \in Assets : <<a, x>> \in Holdings
  /\ \A m \in Markets, o \in Outcomes : <<m, o>> \in Assets /\ <<m, o>> # Point
  /\ Point \in Assets /\ Treasury \in Accounts /\ Participants \subseteq Accounts
BY MarketsAssumption DEF Accounts, Assets, Shares, Outcomes, Holdings

-----------------------------------------------------------------------------
(* Functions changed at one, two or three arguments.                       *)

LEMMA UpdateOne ==
  ASSUME NEW S, NEW f \in [S -> Nat], NEW a \in S, NEW u \in Nat,
         NEW g, g = [f EXCEPT ![a] = u]
  PROVE  g \in [S -> Nat] /\ g[a] = u /\ \A x \in S \ {a} : g[x] = f[x]
OBVIOUS

LEMMA UpdateTwo ==
  ASSUME NEW S, NEW f \in [S -> Nat], NEW a \in S, NEW b \in S, a # b,
         NEW u \in Nat, NEW v \in Nat,
         NEW g, g = [f EXCEPT ![a] = u, ![b] = v]
  PROVE  /\ g \in [S -> Nat] /\ g[a] = u /\ g[b] = v
         /\ \A x \in S \ {a, b} : g[x] = f[x]
OBVIOUS

LEMMA UpdateThree ==
  ASSUME NEW S, NEW f \in [S -> Nat],
         NEW a \in S, NEW b \in S, NEW c \in S, a # b, a # c, b # c,
         NEW u \in Nat, NEW v \in Nat, NEW w \in Nat,
         NEW g, g = [f EXCEPT ![a] = u, ![b] = v, ![c] = w]
  PROVE  /\ g \in [S -> Nat] /\ g[a] = u /\ g[b] = v /\ g[c] = w
         /\ \A x \in S \ {a, b, c} : g[x] = f[x]
OBVIOUS

-----------------------------------------------------------------------------
(* What each operation does to the balances, holding by holding.           *)

LEMMA BootstrapMoves ==
  ASSUME TypeOK, NEW n \in Amounts, Bootstrap(n), NEW t, t = <<Treasury, Point>>
  PROVE  /\ t \in Holdings /\ n \in Nat \ {0}
         /\ available' \in [Holdings -> Nat]
         /\ available'[t] = available[t] + n
         /\ \A h \in Holdings \ {t} : available'[h] = available[h]
<1>1. n \in Nat \ {0} /\ t \in Holdings
  BY NumbersAssumption, HoldingFacts
<1>2. available' = [available EXCEPT ![t] = @ + n]
  BY DEF Bootstrap
<1> QED
  BY <1>1, <1>2 DEF TypeOK

LEMMA AllocateMoves ==
  ASSUME TypeOK, NEW p \in Participants, NEW n \in Amounts, NEW k \in Keys,
         Allocate(p, n, k),
         NEW t, t = <<Treasury, Point>>, NEW d, d = <<p, Point>>
  PROVE  /\ t \in Holdings /\ d \in Holdings /\ t # d
         /\ n \in Nat \ {0} /\ available[t] >= n
         /\ available' \in [Holdings -> Nat]
         /\ available'[t] = available[t] - n
         /\ available'[d] = available[d] + n
         /\ \A h \in Holdings \ {t, d} : available'[h] = available[h]
<1>1. n \in Nat \ {0} /\ t \in Holdings /\ d \in Holdings
  BY NumbersAssumption, HoldingFacts
<1>2. t # d
  BY PartiesAssumption
<1>3. /\ available' = [available EXCEPT ![t] = available[t] - n, ![d] = available[d] + n]
      /\ available[t] >= n
  BY DEF Allocate, Funded
<1>4. available \in [Holdings -> Nat]
  BY DEF TypeOK
<1>5. available[t] - n \in Nat /\ available[d] + n \in Nat
  BY <1>1, <1>3, <1>4
<1> QED
  BY <1>1, <1>2, <1>3, <1>4, <1>5, UpdateTwo

LEMMA SetHoldings ==
  ASSUME NEW a \in Accounts, NEW m \in Markets,
         NEW c, c = <<a, Point>>, NEW y, y = <<a, <<m, "YES">>>>,
         NEW z, z = <<a, <<m, "NO">>>>
  PROVE  /\ c \in Holdings /\ y \in Holdings /\ z \in Holdings
         /\ c # y /\ c # z /\ y # z
<1>1. <<m, "YES">> \in Assets /\ <<m, "NO">> \in Assets
  BY HoldingFacts DEF Outcomes
<1>2. <<m, "YES">> # Point /\ <<m, "NO">> # Point /\ <<m, "YES">> # <<m, "NO">>
  BY HoldingFacts DEF Outcomes
<1> QED
  BY <1>1, <1>2, HoldingFacts

LEMMA SplitMoves ==
  ASSUME TypeOK, ReserveBacksSets, NEW a \in Accounts, NEW m \in Markets,
         NEW q \in Quantities, NEW k \in Keys, Split(a, m, q, k),
         NEW c, c = <<a, Point>>, NEW y, y = <<a, <<m, "YES">>>>,
         NEW z, z = <<a, <<m, "NO">>>>
  PROVE  /\ q \in Nat \ {0} /\ q * Scale \in Nat \ {0}
         /\ available[c] >= q * Scale
         /\ available' \in [Holdings -> Nat]
         /\ available'[c] = available[c] - q * Scale
         /\ available'[y] = available[y] + q
         /\ available'[z] = available[z] + q
         /\ \A h \in Holdings \ {c, y, z} : available'[h] = available[h]
         /\ reserve' \in [Markets -> Nat] /\ reserve'[m] = reserve[m] + q * Scale
         /\ sets' \in [Markets -> Nat] /\ sets'[m] = sets[m] + q
         /\ \A l \in Markets \ {m} : reserve'[l] = reserve[l] /\ sets'[l] = sets[l]
<1> DEFINE v == q * Scale
<1>1. q \in Nat \ {0} /\ v \in Nat \ {0}
  BY NumbersAssumption
<1>2. c \in Holdings /\ y \in Holdings /\ z \in Holdings /\ c # y /\ c # z /\ y # z
  BY SetHoldings
<1>3. /\ available' = [available EXCEPT ![c] = available[c] - v,
                         ![y] = available[y] + q, ![z] = available[z] + q]
      /\ available[c] >= v
      /\ reserve' = [reserve EXCEPT ![m] = reserve[m] + v]
      /\ sets' = [sets EXCEPT ![m] = sets[m] + q]
  BY DEF Split, BackSets, Funded
<1>4. /\ available \in [Holdings -> Nat]
      /\ reserve[m] \in Nat /\ reserve \in [Markets -> Nat]
      /\ sets[m] \in Nat /\ sets \in [Markets -> Nat]
  BY DEF TypeOK
<1> HIDE DEF v
<1>6. /\ available[c] - v \in Nat /\ available[y] + q \in Nat
      /\ available[z] + q \in Nat
      /\ reserve[m] + v \in Nat /\ sets[m] + q \in Nat
  BY <1>1, <1>2, <1>3, <1>4
<1>7. /\ available' \in [Holdings -> Nat]
      /\ available'[c] = available[c] - v
      /\ available'[y] = available[y] + q
      /\ available'[z] = available[z] + q
      /\ \A h \in Holdings \ {c, y, z} : available'[h] = available[h]
  BY <1>2, <1>3, <1>4, <1>6, UpdateThree
<1>8. /\ reserve' \in [Markets -> Nat] /\ reserve'[m] = reserve[m] + v
      /\ sets' \in [Markets -> Nat] /\ sets'[m] = sets[m] + q
      /\ \A l \in Markets \ {m} : reserve'[l] = reserve[l] /\ sets'[l] = sets[l]
  BY <1>3, <1>4, <1>6, UpdateOne
<1> QED
  BY <1>1, <1>3, <1>7, <1>8 DEF v

LEMMA MergeMoves ==
  ASSUME TypeOK, ReserveBacksSets, NEW a \in Accounts, NEW m \in Markets,
         NEW q \in Quantities, NEW k \in Keys, Merge(a, m, q, k),
         NEW c, c = <<a, Point>>, NEW y, y = <<a, <<m, "YES">>>>,
         NEW z, z = <<a, <<m, "NO">>>>
  PROVE  /\ q \in Nat \ {0} /\ q * Scale \in Nat \ {0}
         /\ available[y] >= q /\ available[z] >= q
         /\ available' \in [Holdings -> Nat]
         /\ available'[c] = available[c] + q * Scale
         /\ available'[y] = available[y] - q
         /\ available'[z] = available[z] - q
         /\ \A h \in Holdings \ {c, y, z} : available'[h] = available[h]
         /\ reserve' \in [Markets -> Nat] /\ reserve'[m] = reserve[m] - q * Scale
         /\ sets' \in [Markets -> Nat] /\ sets'[m] = sets[m] - q
         /\ \A l \in Markets \ {m} : reserve'[l] = reserve[l] /\ sets'[l] = sets[l]
<1> DEFINE v == q * Scale
<1>1. q \in Nat \ {0} /\ v \in Nat \ {0}
  BY NumbersAssumption
<1>2. c \in Holdings /\ y \in Holdings /\ z \in Holdings /\ c # y /\ c # z /\ y # z
  BY SetHoldings
<1>3. /\ available' = [available EXCEPT ![c] = available[c] + v,
                         ![y] = available[y] - q, ![z] = available[z] - q]
      /\ available[y] >= q /\ available[z] >= q
      /\ reserve' = [reserve EXCEPT ![m] = reserve[m] - v]
      /\ sets' = [sets EXCEPT ![m] = sets[m] - q]
      /\ reserve[m] >= v
  BY DEF Merge, UnbackSets, Funded, Outcomes
<1>4. /\ available \in [Holdings -> Nat]
      /\ reserve[m] \in Nat /\ reserve \in [Markets -> Nat]
      /\ sets[m] \in Nat /\ sets \in [Markets -> Nat]
  BY DEF TypeOK
<1>5. sets[m] >= q
  BY <1>1, <1>3, <1>4, CancelScale DEF ReserveBacksSets
<1> HIDE DEF v
<1>6. /\ available[c] + v \in Nat /\ available[y] - q \in Nat
      /\ available[z] - q \in Nat
      /\ reserve[m] - v \in Nat /\ sets[m] - q \in Nat
  BY <1>1, <1>2, <1>3, <1>4, <1>5
<1>7. /\ available' \in [Holdings -> Nat]
      /\ available'[c] = available[c] + v
      /\ available'[y] = available[y] - q
      /\ available'[z] = available[z] - q
      /\ \A h \in Holdings \ {c, y, z} : available'[h] = available[h]
  BY <1>2, <1>3, <1>4, <1>6, UpdateThree
<1>8. /\ reserve' \in [Markets -> Nat] /\ reserve'[m] = reserve[m] - v
      /\ sets' \in [Markets -> Nat] /\ sets'[m] = sets[m] - q
      /\ \A l \in Markets \ {m} : reserve'[l] = reserve[l] /\ sets'[l] = sets[l]
  BY <1>3, <1>4, <1>6, UpdateOne
<1> QED
  BY <1>1, <1>3, <1>7, <1>8 DEF v

LEMMA ReserveMoves ==
  ASSUME TypeOK, NEW p \in Participants, NEW x \in Assets, NEW n \in Nat \ {0},
         NEW k \in Keys, Reserve(p, x, n, k), NEW h, h = <<p, x>>
  PROVE  /\ h \in Holdings /\ available[h] >= n
         /\ available' \in [Holdings -> Nat] /\ locked' \in [Holdings -> Nat]
         /\ available'[h] = available[h] - n /\ locked'[h] = locked[h] + n
         /\ \A g \in Holdings \ {h} :
              available'[g] = available[g] /\ locked'[g] = locked[g]
<1>1. h \in Holdings
  BY HoldingFacts
<1>2. /\ available' = [available EXCEPT ![h] = available[h] - n]
      /\ locked' = [locked EXCEPT ![h] = locked[h] + n]
      /\ available[h] >= n
  BY DEF Reserve, Lock, Funded
<1>3. available \in [Holdings -> Nat] /\ locked \in [Holdings -> Nat]
  BY DEF TypeOK
<1>4. available[h] - n \in Nat /\ locked[h] + n \in Nat
  BY <1>1, <1>2, <1>3
<1> QED
  BY <1>1, <1>2, <1>3, <1>4, UpdateOne

LEMMA ReservationFacts ==
  ASSUME TypeOK, NEW i \in DOMAIN reservations
  PROVE  /\ reservations[i] \in Reservation
         /\ reservations[i].amount \in Nat \ {0}
         /\ reservations[i].account \in Participants
         /\ <<reservations[i].account, reservations[i].asset>> \in Holdings
<1>1. reservations[i] \in Reservation
  BY ElementOfSeq, LenProperties DEF TypeOK
<1>2. /\ reservations[i].account \in Accounts /\ reservations[i].asset \in Assets
  BY <1>1, HoldingFacts DEF Reservation
<1> QED
  BY <1>1, <1>2, HoldingFacts DEF Reservation

LEMMA ReleaseMoves ==
  ASSUME TypeOK, NEW i \in DOMAIN reservations, NEW reason, NEW k \in Keys,
         Release(i, reason, k),
         NEW h, h = <<reservations[i].account, reservations[i].asset>>,
         NEW n, n = reservations[i].amount
  PROVE  /\ h \in Holdings /\ n \in Nat \ {0} /\ locked[h] >= n
         /\ available' \in [Holdings -> Nat] /\ locked' \in [Holdings -> Nat]
         /\ available'[h] = available[h] + n /\ locked'[h] = locked[h] - n
         /\ \A g \in Holdings \ {h} :
              available'[g] = available[g] /\ locked'[g] = locked[g]
<1>1. h \in Holdings /\ n \in Nat \ {0}
  BY ReservationFacts
<1>2. /\ available' = [available EXCEPT ![h] = available[h] + n]
      /\ locked' = [locked EXCEPT ![h] = locked[h] - n]
      /\ locked[h] >= n
  BY DEF Release, Unlock
<1>3. available \in [Holdings -> Nat] /\ locked \in [Holdings -> Nat]
  BY DEF TypeOK
<1>4. available[h] + n \in Nat /\ locked[h] - n \in Nat
  BY <1>1, <1>2, <1>3
<1> QED
  BY <1>1, <1>2, <1>3, <1>4, UpdateOne

-----------------------------------------------------------------------------
(* Types, and the reserve that backs a market's sets: sets[m] stays a      *)
(* natural number only because the reserve check of a merge covers it.     *)

LEMMA BootstrapTyped ==
  ASSUME TypeOK, ReserveBacksSets, NEW n \in Amounts, Bootstrap(n)
  PROVE  TypeOK' /\ ReserveBacksSets'
<1>1. available' \in [Holdings -> Nat] /\ n \in Nat \ {0}
  BY BootstrapMoves
<1>2. issued' \in 0 .. IntMax
  BY <1>1, NumbersAssumption DEF TypeOK, Bootstrap, Fits
<1> QED
  BY <1>1, <1>2 DEF TypeOK, ReserveBacksSets, Bootstrap, marketVars, orderVars

LEMMA AllocateTyped ==
  ASSUME TypeOK, ReserveBacksSets, NEW p \in Participants, NEW n \in Amounts,
         NEW k \in Keys, Allocate(p, n, k)
  PROVE  TypeOK' /\ ReserveBacksSets'
<1> DEFINE e == [key |-> k, participant |-> p, amount |-> n]
<1>1. available' \in [Holdings -> Nat] /\ n \in Nat \ {0}
  BY AllocateMoves
<1>2. e \in AllocationEvent
  BY <1>1 DEF AllocationEvent
<1>3. IsFiniteSet(allocationEvents \cup {e})
  BY FS_AddElement DEF TypeOK
<1>4. allocationEvents' = allocationEvents \cup {e}
  BY DEF Allocate
<1> HIDE DEF e
<1> QED
  BY <1>1, <1>2, <1>3, <1>4
  DEF TypeOK, ReserveBacksSets, Allocate, supplyVars, marketVars, orderVars

LEMMA CreateMarketTyped ==
  ASSUME TypeOK, ReserveBacksSets, NEW m \in Markets, CreateMarket(m)
  PROVE  TypeOK' /\ ReserveBacksSets'
BY DEF TypeOK, ReserveBacksSets, CreateMarket, supplyVars, orderVars

LEMMA SetEventTyped ==
  ASSUME TypeOK, NEW a \in Accounts, NEW m \in Markets, NEW q \in Nat \ {0},
         NEW k \in Keys, NEW type \in {"split", "merge"}, RecordSetEvent(type, a, m, q, k)
  PROVE  setEvents' \subseteq SetEvent /\ IsFiniteSet(setEvents')
<1> DEFINE e == [account |-> a, key |-> k, type |-> type, market |-> m, quantity |-> q]
<1>1. e \in SetEvent
  BY DEF SetEvent
<1>2. IsFiniteSet(setEvents \cup {e})
  BY FS_AddElement DEF TypeOK
<1>3. setEvents' = setEvents \cup {e}
  BY DEF RecordSetEvent
<1> HIDE DEF e
<1> QED
  BY <1>1, <1>2, <1>3 DEF TypeOK

LEMMA ScaleDistributes ==
  ASSUME NEW x \in Nat, NEW y \in Nat
  PROVE  /\ (x + y) * Scale = x * Scale + y * Scale
         /\ x >= y => (x - y) * Scale = x * Scale - y * Scale
BY NumbersAssumption

LEMMA SplitTyped ==
  ASSUME TypeOK, ReserveBacksSets, NEW a \in Accounts, NEW m \in Markets,
         NEW q \in Quantities, NEW k \in Keys, Split(a, m, q, k)
  PROVE  TypeOK' /\ ReserveBacksSets'
<1>1. /\ q \in Nat \ {0}
      /\ available' \in [Holdings -> Nat]
      /\ reserve' \in [Markets -> Nat] /\ reserve'[m] = reserve[m] + q * Scale
      /\ sets' \in [Markets -> Nat] /\ sets'[m] = sets[m] + q
      /\ \A l \in Markets \ {m} : reserve'[l] = reserve[l] /\ sets'[l] = sets[l]
  <2>1. PICK c, y, z : c = <<a, Point>> /\ y = <<a, <<m, "YES">>>> /\ z = <<a, <<m, "NO">>>>
    OBVIOUS
  <2> QED
    BY <2>1, SplitMoves
<1>2. setEvents' \subseteq SetEvent /\ IsFiniteSet(setEvents')
  BY <1>1, SetEventTyped DEF Split
<1>3. sets[m] \in Nat /\ (sets[m] + q) * Scale = sets[m] * Scale + q * Scale
  BY <1>1, ScaleDistributes DEF TypeOK
<1>4. ReserveBacksSets'
  BY <1>1, <1>3 DEF ReserveBacksSets
<1> QED
  BY <1>1, <1>2, <1>4 DEF TypeOK, Split, supplyVars, orderVars

LEMMA MergeTyped ==
  ASSUME TypeOK, ReserveBacksSets, NEW a \in Accounts, NEW m \in Markets,
         NEW q \in Quantities, NEW k \in Keys, Merge(a, m, q, k)
  PROVE  TypeOK' /\ ReserveBacksSets'
<1>1. /\ q \in Nat \ {0}
      /\ available' \in [Holdings -> Nat]
      /\ reserve' \in [Markets -> Nat] /\ reserve'[m] = reserve[m] - q * Scale
      /\ sets' \in [Markets -> Nat] /\ sets'[m] = sets[m] - q
      /\ \A l \in Markets \ {m} : reserve'[l] = reserve[l] /\ sets'[l] = sets[l]
  <2>1. PICK c, y, z : c = <<a, Point>> /\ y = <<a, <<m, "YES">>>> /\ z = <<a, <<m, "NO">>>>
    OBVIOUS
  <2> QED
    BY <2>1, MergeMoves
<1>2. setEvents' \subseteq SetEvent /\ IsFiniteSet(setEvents')
  BY <1>1, SetEventTyped DEF Merge
<1>3. sets[m] \in Nat /\ sets[m] - q \in Nat
  BY <1>1 DEF TypeOK
<1>4. (sets[m] - q) * Scale = sets[m] * Scale - q * Scale
  BY <1>1, <1>3, ScaleDistributes
<1>5. ReserveBacksSets'
  BY <1>1, <1>4 DEF ReserveBacksSets
<1> QED
  BY <1>1, <1>2, <1>5 DEF TypeOK, Merge, supplyVars, orderVars

LEMMA OrderEventTyped ==
  ASSUME TypeOK, NEW p \in Participants, NEW i \in Nat \ {0}, NEW k \in Keys,
         NEW type \in {"reserve", "release"}, RecordOrderEvent(type, p, i, k)
  PROVE  orderEvents' \subseteq OrderEvent /\ IsFiniteSet(orderEvents')
<1> DEFINE e == [account |-> p, key |-> k, type |-> type, reservation |-> i]
<1>1. e \in OrderEvent
  BY DEF OrderEvent
<1>2. IsFiniteSet(orderEvents \cup {e})
  BY FS_AddElement DEF TypeOK
<1>3. orderEvents' = orderEvents \cup {e}
  BY DEF RecordOrderEvent
<1> HIDE DEF e
<1> QED
  BY <1>1, <1>2, <1>3 DEF TypeOK

(* The new reservation is appended, and the others stay. *)
LEMMA ReserveAppends ==
  ASSUME TypeOK, NEW p \in Participants, NEW x \in Assets, NEW n \in Nat \ {0},
         NEW k \in Keys, Reserve(p, x, n, k)
  PROVE  /\ reservations' \in Seq(Reservation)
         /\ Len(reservations) \in Nat /\ Len(reservations') = Len(reservations) + 1
         /\ reservations'[Len(reservations) + 1] =
              [account |-> p, asset |-> x, amount |-> n,
               status |-> "reserved", reason |-> "none"]
         /\ \A i \in DOMAIN reservations : reservations'[i] = reservations[i]
<1> DEFINE r == [account |-> p, asset |-> x, amount |-> n,
                 status |-> "reserved", reason |-> "none"]
<1>1. r \in Reservation
  BY DEF Reservation
<1>2. reservations \in Seq(Reservation) /\ reservations' = Append(reservations, r)
  BY DEF TypeOK, Reserve
<1> HIDE DEF r
<1>3. Len(reservations) \in Nat /\ DOMAIN reservations = 1 .. Len(reservations)
  BY <1>2, LenProperties
<1>4. /\ reservations' \in Seq(Reservation)
      /\ Len(reservations') = Len(reservations) + 1
      /\ reservations'[Len(reservations) + 1] = r
      /\ \A i \in DOMAIN reservations : reservations'[i] = reservations[i]
  BY <1>1, <1>2, <1>3, AppendProperties
<1> QED
  BY <1>3, <1>4 DEF r

LEMMA ReserveTyped ==
  ASSUME TypeOK, ReserveBacksSets, NEW p \in Participants, NEW x \in Assets,
         NEW n \in Nat \ {0}, NEW k \in Keys, Reserve(p, x, n, k)
  PROVE  TypeOK' /\ ReserveBacksSets'
<1>1. available' \in [Holdings -> Nat] /\ locked' \in [Holdings -> Nat]
  BY ReserveMoves
<1>2. /\ reservations' \in Seq(Reservation)
      /\ Len(reservations) \in Nat /\ Len(reservations') = Len(reservations) + 1
  BY ReserveAppends
<1>3. Len(reservations') <= MaxReservations
  BY <1>2, NumbersAssumption DEF Reserve
<1>4. orderEvents' \subseteq OrderEvent /\ IsFiniteSet(orderEvents')
  BY <1>2, OrderEventTyped DEF Reserve
<1> QED
  BY <1>1, <1>2, <1>3, <1>4
  DEF TypeOK, ReserveBacksSets, Reserve, supplyVars, marketVars

(* A release changes the status and the reason of one reservation. *)
LEMMA ReleaseMarks ==
  ASSUME TypeOK, NEW i \in DOMAIN reservations,
         NEW reason \in {"cancelled", "rejected"}, NEW k \in Keys,
         Release(i, reason, k)
  PROVE  /\ reservations[i].status = "reserved"
         /\ reservations' \in Seq(Reservation)
         /\ Len(reservations') = Len(reservations)
         /\ reservations'[i].status = "released"
         /\ reservations'[i].account = reservations[i].account
         /\ reservations'[i].asset = reservations[i].asset
         /\ reservations'[i].amount = reservations[i].amount
         /\ \A j \in DOMAIN reservations \ {i} : reservations'[j] = reservations[j]
<1> DEFINE r == reservations[i]
           s == [r EXCEPT !.status = "released", !.reason = reason]
<1>1. r \in Reservation
  BY ReservationFacts
<1>2. /\ s \in Reservation /\ s.status = "released"
      /\ s.account = r.account /\ s.asset = r.asset /\ s.amount = r.amount
  BY <1>1 DEF Reservation
<1>3. reservations \in Seq(Reservation) /\ DOMAIN reservations = 1 .. Len(reservations)
  BY LenProperties DEF TypeOK
<1>4. reservations' = [reservations EXCEPT ![i] = s]
  BY <1>1, <1>3 DEF Release, MarkReleased
<1>5. r.status = "reserved"
  BY DEF Release, Releasable
<1> HIDE DEF s
<1>6. /\ reservations' \in Seq(Reservation)
      /\ Len(reservations') = Len(reservations)
      /\ reservations'[i] = s
      /\ \A j \in DOMAIN reservations \ {i} : reservations'[j] = reservations[j]
  BY <1>2, <1>3, <1>4, ExceptSeq
<1> QED
  BY <1>2, <1>5, <1>6

LEMMA ReleaseTyped ==
  ASSUME TypeOK, ReserveBacksSets, NEW i \in DOMAIN reservations,
         NEW reason \in {"cancelled", "rejected"}, NEW k \in Keys,
         Release(i, reason, k)
  PROVE  TypeOK' /\ ReserveBacksSets'
<1>1. available' \in [Holdings -> Nat] /\ locked' \in [Holdings -> Nat]
  BY ReleaseMoves
<1>2. /\ reservations' \in Seq(Reservation)
      /\ Len(reservations') = Len(reservations)
  BY ReleaseMarks
<1>3. reservations[i].account \in Participants /\ i \in Nat \ {0}
  <2>1. DOMAIN reservations = 1 .. Len(reservations)
    BY LenProperties DEF TypeOK
  <2>2. i \in Nat \ {0}
    BY <2>1
  <2> QED
    BY <2>2, ReservationFacts
<1>4. orderEvents' \subseteq OrderEvent /\ IsFiniteSet(orderEvents')
  BY <1>3, OrderEventTyped DEF Release
<1> QED
  BY <1>1, <1>2, <1>4
  DEF TypeOK, ReserveBacksSets, Release, supplyVars, marketVars

-----------------------------------------------------------------------------
(* Conservation.                                                           *)

LEMMA AccountsFinite == IsFiniteSet(Accounts)
BY PartiesAssumption, FS_AddElement DEF Accounts

LEMMA HeldByFacts ==
  ASSUME TypeOK, NEW x \in Assets
  PROVE  /\ HeldBy(x) \in [Accounts -> Nat]
         /\ \A a \in Accounts : HeldBy(x)[a] = available[<<a, x>>] + locked[<<a, x>>]
BY HoldingFacts DEF TypeOK, HeldBy, Held

LEMMA HeldByFactsNext ==
  ASSUME TypeOK', NEW x \in Assets
  PROVE  /\ HeldBy(x)' \in [Accounts -> Nat]
         /\ \A a \in Accounts : HeldBy(x)'[a] = available'[<<a, x>>] + locked'[<<a, x>>]
BY HoldingFacts DEF TypeOK, HeldBy, Held

LEMMA AllocateConserves ==
  ASSUME TypeOK, TypeOK', PointConservation,
         NEW p \in Participants, NEW n \in Amounts, NEW k \in Keys, Allocate(p, n, k)
  PROVE  PointConservation'
<1> DEFINE F == HeldBy(Point)
           G == HeldBy(Point)'
<1>1. F \in [Accounts -> Nat] /\ G \in [Accounts -> Nat]
  BY HoldingFacts, HeldByFacts, HeldByFactsNext
<1>2. PICK t, d : t = <<Treasury, Point>> /\ d = <<p, Point>>
  OBVIOUS
<1>3. /\ t \in Holdings /\ d \in Holdings /\ n \in Nat
      /\ available'[t] = available[t] - n /\ available'[d] = available[d] + n
      /\ \A h \in Holdings \ {t, d} : available'[h] = available[h]
  BY <1>2, AllocateMoves
<1>4. locked' = locked /\ reserve' = reserve /\ issued' = issued
  BY DEF Allocate, supplyVars, marketVars
<1>5. available[t] \in Nat /\ available[d] \in Nat /\ locked[t] \in Nat /\ locked[d] \in Nat
  BY <1>3 DEF TypeOK
<1>6. Treasury \in Accounts /\ p \in Accounts /\ Treasury # p
  BY HoldingFacts, PartiesAssumption
<1>7. /\ F[Treasury] = available[t] + locked[t] /\ F[p] = available[d] + locked[d]
      /\ G[Treasury] = available'[t] + locked[t] /\ G[p] = available'[d] + locked[d]
  BY <1>2, <1>4, <1>6, HoldingFacts, HeldByFacts, HeldByFactsNext
<1>8. \A a \in Accounts \ {Treasury, p} : G[a] = F[a]
  <2> SUFFICES ASSUME NEW a \in Accounts \ {Treasury, p}
               PROVE  G[a] = F[a]
    OBVIOUS
  <2>1. <<a, Point>> \in Holdings \ {t, d}
    BY <1>2, HoldingFacts
  <2> QED
    BY <1>3, <1>4, <2>1, HoldingFacts, HeldByFacts, HeldByFactsNext
<1> HIDE DEF F, G
<1>9. Total(G) + F[Treasury] + F[p] = Total(F) + G[Treasury] + G[p]
  BY <1>1, <1>6, <1>8, AccountsFinite, TotalUpdateTwo
<1>10. Total(G) \in Nat /\ Total(F) \in Nat
  BY <1>1, AccountsFinite, TotalType
<1>11. Total(G) = Total(F)
  BY <1>3, <1>5, <1>7, <1>9, <1>10
<1> QED
  BY <1>4, <1>11 DEF PointConservation, F, G

(* When one account's holding of an asset changes, what all accounts hold   *)
(* of it changes by as much.                                               *)
LEMMA OneHolderChanges ==
  ASSUME TypeOK, TypeOK', NEW x \in Assets, NEW a \in Accounts,
         NEW h, h = <<a, x>>,
         \A g \in Holdings \ {h} : g[2] = x =>
           available'[g] + locked'[g] = available[g] + locked[g]
  PROVE  /\ Total(HeldBy(x)') + (available[h] + locked[h])
              = Total(HeldBy(x)) + (available'[h] + locked'[h])
         /\ Total(HeldBy(x)) \in Nat /\ Total(HeldBy(x)') \in Nat
         /\ available[h] \in Nat /\ locked[h] \in Nat
         /\ available'[h] \in Nat /\ locked'[h] \in Nat
<1> DEFINE F == HeldBy(x)
           G == HeldBy(x)'
<1>1. F \in [Accounts -> Nat] /\ G \in [Accounts -> Nat]
  BY HeldByFacts, HeldByFactsNext
<1>2. F[a] = available[h] + locked[h] /\ G[a] = available'[h] + locked'[h]
  BY HeldByFacts, HeldByFactsNext
<1>3. \A b \in Accounts \ {a} : G[b] = F[b]
  <2> SUFFICES ASSUME NEW b \in Accounts \ {a}
               PROVE  G[b] = F[b]
    OBVIOUS
  <2>1. <<b, x>> \in Holdings \ {h} /\ <<b, x>>[2] = x
    BY HoldingFacts
  <2> QED
    BY <2>1, HeldByFacts, HeldByFactsNext
<1>4. h \in Holdings
  BY HoldingFacts
<1>5. /\ available[h] \in Nat /\ locked[h] \in Nat
      /\ available'[h] \in Nat /\ locked'[h] \in Nat
  BY <1>4 DEF TypeOK
<1> HIDE DEF F, G
<1>6. Total(G) + F[a] = Total(F) + G[a]
  BY <1>1, <1>3, AccountsFinite, TotalUpdate
<1>7. Total(F) \in Nat /\ Total(G) \in Nat
  BY <1>1, AccountsFinite, TotalType
<1> QED
  BY <1>2, <1>5, <1>6, <1>7 DEF F, G

LEMMA NoHolderChanges ==
  ASSUME TypeOK, TypeOK', NEW x \in Assets,
         \A h \in Holdings : h[2] = x =>
           available'[h] + locked'[h] = available[h] + locked[h]
  PROVE  HeldBy(x)' = HeldBy(x)
<1>1. \A a \in Accounts : HeldBy(x)'[a] = HeldBy(x)[a]
  <2> SUFFICES ASSUME NEW a \in Accounts
               PROVE  HeldBy(x)'[a] = HeldBy(x)[a]
    OBVIOUS
  <2>1. <<a, x>> \in Holdings /\ <<a, x>>[2] = x
    BY HoldingFacts
  <2> QED
    BY <2>1, HeldByFacts, HeldByFactsNext
<1>2. HeldBy(x) \in [Accounts -> Nat] /\ HeldBy(x)' \in [Accounts -> Nat]
  BY HeldByFacts, HeldByFactsNext
<1> DEFINE F == HeldBy(x)
           G == HeldBy(x)'
<1>3. F \in [Accounts -> Nat] /\ G \in [Accounts -> Nat] /\ \A a \in Accounts : G[a] = F[a]
  BY <1>1, <1>2
<1> HIDE DEF F, G
<1>4. G = F
  BY <1>3
<1> QED
  BY <1>4 DEF F, G

(* When one market's reserve changes, the reserves change by as much.      *)
LEMMA OneReserveChanges ==
  ASSUME TypeOK, TypeOK', NEW m \in Markets,
         \A l \in Markets \ {m} : reserve'[l] = reserve[l]
  PROVE  /\ Total(reserve') + reserve[m] = Total(reserve) + reserve'[m]
         /\ Total(reserve) \in Nat /\ Total(reserve') \in Nat
         /\ reserve[m] \in Nat /\ reserve'[m] \in Nat
<1>1. reserve \in [Markets -> Nat] /\ reserve' \in [Markets -> Nat] /\ IsFiniteSet(Markets)
  BY MarketsAssumption DEF TypeOK
<1>2. Total(reserve') + reserve[m] = Total(reserve) + reserve'[m]
  BY <1>1, TotalUpdate
<1>3. Total(reserve) \in Nat /\ Total(reserve') \in Nat
  BY <1>1, TotalType
<1> QED
  BY <1>1, <1>2, <1>3

LEMMA BootstrapConserves ==
  ASSUME TypeOK, TypeOK', PointConservation, NEW n \in Amounts, Bootstrap(n)
  PROVE  PointConservation'
<1>1. PICK t : t = <<Treasury, Point>>
  OBVIOUS
<1>2. /\ n \in Nat \ {0} /\ available'[t] = available[t] + n
      /\ \A h \in Holdings \ {t} : available'[h] = available[h]
  BY <1>1, BootstrapMoves
<1>3. locked' = locked /\ reserve' = reserve /\ issued' = issued + n
  BY DEF Bootstrap, marketVars
<1>4. /\ Total(HeldBy(Point)') + (available[t] + locked[t])
           = Total(HeldBy(Point)) + (available'[t] + locked'[t])
      /\ Total(HeldBy(Point)) \in Nat /\ Total(HeldBy(Point)') \in Nat
      /\ available[t] \in Nat /\ locked[t] \in Nat
  BY <1>1, <1>2, <1>3, HoldingFacts, OneHolderChanges
<1>5. Total(HeldBy(Point)') = Total(HeldBy(Point)) + n
  <2>1. available'[t] = available[t] + n /\ locked'[t] = locked[t] /\ n \in Nat
    BY <1>2, <1>3
  <2> QED
    BY <1>4, <2>1
<1>6. Total(reserve) \in Nat
  BY MarketsAssumption, TotalType DEF TypeOK
<1>7. Total(reserve') = Total(reserve)
  BY <1>3
<1>8. issued = Total(HeldBy(Point)) + Total(reserve)
  BY DEF PointConservation
<1>9. issued' = Total(HeldBy(Point)') + Total(reserve')
  BY <1>2, <1>3, <1>4, <1>5, <1>6, <1>7, <1>8
<1> QED
  BY <1>9 DEF PointConservation

LEMMA SplitConserves ==
  ASSUME TypeOK, TypeOK', ReserveBacksSets, PointConservation,
         NEW a \in Accounts, NEW m \in Markets, NEW q \in Quantities, NEW k \in Keys,
         Split(a, m, q, k)
  PROVE  PointConservation'
<1>1. PICK c, y, z : c = <<a, Point>> /\ y = <<a, <<m, "YES">>>> /\ z = <<a, <<m, "NO">>>>
  OBVIOUS
<1>2. /\ q * Scale \in Nat
      /\ available'[c] = available[c] - q * Scale
      /\ \A h \in Holdings \ {c, y, z} : available'[h] = available[h]
      /\ reserve'[m] = reserve[m] + q * Scale
      /\ \A l \in Markets \ {m} : reserve'[l] = reserve[l]
  BY <1>1, SplitMoves
<1>3. locked' = locked /\ issued' = issued
  BY DEF Split, supplyVars
<1>4. \A g \in Holdings \ {c} : g[2] = Point =>
        available'[g] + locked'[g] = available[g] + locked[g]
  BY <1>1, <1>2, <1>3, HoldingFacts DEF Outcomes
<1>5. /\ Total(HeldBy(Point)') + (available[c] + locked[c])
           = Total(HeldBy(Point)) + (available'[c] + locked'[c])
      /\ Total(HeldBy(Point)) \in Nat /\ Total(HeldBy(Point)') \in Nat
      /\ available[c] \in Nat /\ locked[c] \in Nat
  BY <1>1, <1>4, HoldingFacts, OneHolderChanges
<1>6. /\ Total(reserve') + reserve[m] = Total(reserve) + reserve'[m]
      /\ Total(reserve) \in Nat /\ Total(reserve') \in Nat /\ reserve[m] \in Nat
  BY <1>2, OneReserveChanges
<1>7. Total(HeldBy(Point)') + q * Scale = Total(HeldBy(Point))
  BY <1>2, <1>3, <1>5
<1>8. Total(reserve') = Total(reserve) + q * Scale
  BY <1>2, <1>6
<1> QED
  BY <1>2, <1>3, <1>5, <1>6, <1>7, <1>8 DEF PointConservation

LEMMA MergeConserves ==
  ASSUME TypeOK, TypeOK', ReserveBacksSets, PointConservation,
         NEW a \in Accounts, NEW m \in Markets, NEW q \in Quantities, NEW k \in Keys,
         Merge(a, m, q, k)
  PROVE  PointConservation'
<1>1. PICK c, y, z : c = <<a, Point>> /\ y = <<a, <<m, "YES">>>> /\ z = <<a, <<m, "NO">>>>
  OBVIOUS
<1>2. /\ q * Scale \in Nat
      /\ available'[c] = available[c] + q * Scale
      /\ \A h \in Holdings \ {c, y, z} : available'[h] = available[h]
      /\ reserve'[m] = reserve[m] - q * Scale
      /\ \A l \in Markets \ {m} : reserve'[l] = reserve[l]
  BY <1>1, MergeMoves
<1>3. locked' = locked /\ issued' = issued
  BY DEF Merge, supplyVars
<1>4. \A g \in Holdings \ {c} : g[2] = Point =>
        available'[g] + locked'[g] = available[g] + locked[g]
  BY <1>1, <1>2, <1>3, HoldingFacts DEF Outcomes
<1>5. /\ Total(HeldBy(Point)') + (available[c] + locked[c])
           = Total(HeldBy(Point)) + (available'[c] + locked'[c])
      /\ Total(HeldBy(Point)) \in Nat /\ Total(HeldBy(Point)') \in Nat
      /\ available[c] \in Nat /\ locked[c] \in Nat
  BY <1>1, <1>4, HoldingFacts, OneHolderChanges
<1>6. /\ Total(reserve') + reserve[m] = Total(reserve) + reserve'[m]
      /\ Total(reserve) \in Nat /\ Total(reserve') \in Nat /\ reserve[m] \in Nat
  BY <1>2, OneReserveChanges
<1>7. Total(HeldBy(Point)') = Total(HeldBy(Point)) + q * Scale
  BY <1>2, <1>3, <1>5
<1>8. Total(reserve') + q * Scale = Total(reserve)
  BY <1>2, <1>6
<1> QED
  BY <1>2, <1>3, <1>5, <1>6, <1>7, <1>8 DEF PointConservation

(* Locking and unlocking only moves an amount within one holding.          *)
LEMMA LocksConserve ==
  ASSUME TypeOK, TypeOK', PointConservation, UNCHANGED <<issued, reserve>>,
         \A h \in Holdings : available'[h] + locked'[h] = available[h] + locked[h]
  PROVE  PointConservation'
<1>1. HeldBy(Point)' = HeldBy(Point)
  BY HoldingFacts, NoHolderChanges
<1> QED
  BY <1>1 DEF PointConservation

-----------------------------------------------------------------------------
(* The supply of shares.                                                   *)

SharesMatchSets ==
  \A m \in Markets, o \in Outcomes : Total(HeldBy(<<m, o>>)) = sets[m]

LEMMA SharesStay ==
  ASSUME TypeOK, TypeOK', SharesMatchSets, sets' = sets,
         \A h \in Holdings : h[2] # Point =>
           available'[h] + locked'[h] = available[h] + locked[h]
  PROVE  SharesMatchSets'
<1> SUFFICES ASSUME NEW m \in Markets, NEW o \in Outcomes
             PROVE  Total(HeldBy(<<m, o>>)') = sets'[m]
  BY DEF SharesMatchSets
<1>1. <<m, o>> \in Assets /\ <<m, o>> # Point
  BY HoldingFacts
<1>2. HeldBy(<<m, o>>)' = HeldBy(<<m, o>>)
  BY <1>1, NoHolderChanges
<1> QED
  BY <1>2 DEF SharesMatchSets

LEMMA SplitSupplies ==
  ASSUME TypeOK, TypeOK', ReserveBacksSets, SharesMatchSets,
         NEW a \in Accounts, NEW m \in Markets, NEW q \in Quantities, NEW k \in Keys,
         Split(a, m, q, k)
  PROVE  SharesMatchSets'
<1>1. PICK c, y, z : c = <<a, Point>> /\ y = <<a, <<m, "YES">>>> /\ z = <<a, <<m, "NO">>>>
  OBVIOUS
<1>2. /\ q \in Nat
      /\ available'[y] = available[y] + q /\ available'[z] = available[z] + q
      /\ \A h \in Holdings \ {c, y, z} : available'[h] = available[h]
      /\ sets'[m] = sets[m] + q
      /\ \A l \in Markets \ {m} : sets'[l] = sets[l]
  BY <1>1, SplitMoves
<1>3. locked' = locked
  BY DEF Split
<1> SUFFICES ASSUME NEW l \in Markets, NEW o \in Outcomes
             PROVE  Total(HeldBy(<<l, o>>)') = sets'[l]
  BY DEF SharesMatchSets
<1>4. Total(HeldBy(<<l, o>>)) = sets[l] /\ <<l, o>> \in Assets /\ sets[l] \in Nat
  BY HoldingFacts DEF SharesMatchSets, TypeOK
<1>5. CASE l # m
  <2>1. \A h \in Holdings : h[2] = <<l, o>> =>
          available'[h] + locked'[h] = available[h] + locked[h]
    <3> SUFFICES ASSUME NEW h \in Holdings, h[2] = <<l, o>>
                 PROVE  available'[h] = available[h]
      BY <1>3
    <3>1. c[2] # <<l, o>> /\ y[2] # <<l, o>> /\ z[2] # <<l, o>>
      BY <1>1, <1>5, HoldingFacts
    <3> QED
      BY <1>2, <3>1
  <2>2. HeldBy(<<l, o>>)' = HeldBy(<<l, o>>)
    BY <1>4, <2>1, NoHolderChanges
  <2> QED
    BY <1>2, <1>4, <1>5, <2>2
<1>6. CASE l = m
  <2>1. PICK g : g = <<a, <<l, o>>>>
    OBVIOUS
  <2>2. g = y \/ g = z
    BY <1>1, <1>6, <2>1 DEF Outcomes
  <2>3. available'[g] = available[g] + q /\ locked'[g] = locked[g]
    BY <1>2, <1>3, <2>2
  <2>4. \A h \in Holdings \ {g} : h[2] = <<l, o>> =>
          available'[h] + locked'[h] = available[h] + locked[h]
    <3> SUFFICES ASSUME NEW h \in Holdings \ {g}, h[2] = <<l, o>>
                 PROVE  available'[h] = available[h]
      BY <1>3
    <3>1. h # c /\ h # y /\ h # z
      BY <1>1, <2>1, HoldingFacts DEF Holdings
    <3> QED
      BY <1>2, <3>1
  <2>5. /\ Total(HeldBy(<<l, o>>)') + (available[g] + locked[g])
             = Total(HeldBy(<<l, o>>)) + (available'[g] + locked'[g])
        /\ Total(HeldBy(<<l, o>>)') \in Nat
        /\ available[g] \in Nat /\ locked[g] \in Nat
    BY <1>4, <2>1, <2>4, OneHolderChanges
  <2>6. Total(HeldBy(<<l, o>>)') = Total(HeldBy(<<l, o>>)) + q
    BY <1>2, <1>4, <2>3, <2>5
  <2> QED
    BY <1>2, <1>4, <1>6, <2>6
<1> QED
  BY <1>5, <1>6

LEMMA MergeSupplies ==
  ASSUME TypeOK, TypeOK', ReserveBacksSets, SharesMatchSets,
         NEW a \in Accounts, NEW m \in Markets, NEW q \in Quantities, NEW k \in Keys,
         Merge(a, m, q, k)
  PROVE  SharesMatchSets'
<1>1. PICK c, y, z : c = <<a, Point>> /\ y = <<a, <<m, "YES">>>> /\ z = <<a, <<m, "NO">>>>
  OBVIOUS
<1>2. /\ q \in Nat
      /\ available'[y] = available[y] - q /\ available'[z] = available[z] - q
      /\ \A h \in Holdings \ {c, y, z} : available'[h] = available[h]
      /\ sets'[m] = sets[m] - q
      /\ \A l \in Markets \ {m} : sets'[l] = sets[l]
  BY <1>1, MergeMoves
<1>3. locked' = locked
  BY DEF Merge
<1> SUFFICES ASSUME NEW l \in Markets, NEW o \in Outcomes
             PROVE  Total(HeldBy(<<l, o>>)') = sets'[l]
  BY DEF SharesMatchSets
<1>4. Total(HeldBy(<<l, o>>)) = sets[l] /\ <<l, o>> \in Assets /\ sets[l] \in Nat
  BY HoldingFacts DEF SharesMatchSets, TypeOK
<1>5. CASE l # m
  <2>1. \A h \in Holdings : h[2] = <<l, o>> =>
          available'[h] + locked'[h] = available[h] + locked[h]
    <3> SUFFICES ASSUME NEW h \in Holdings, h[2] = <<l, o>>
                 PROVE  available'[h] = available[h]
      BY <1>3
    <3>1. c[2] # <<l, o>> /\ y[2] # <<l, o>> /\ z[2] # <<l, o>>
      BY <1>1, <1>5, HoldingFacts
    <3> QED
      BY <1>2, <3>1
  <2>2. HeldBy(<<l, o>>)' = HeldBy(<<l, o>>)
    BY <1>4, <2>1, NoHolderChanges
  <2> QED
    BY <1>2, <1>4, <1>5, <2>2
<1>6. CASE l = m
  <2>1. PICK g : g = <<a, <<l, o>>>>
    OBVIOUS
  <2>2. g = y \/ g = z
    BY <1>1, <1>6, <2>1 DEF Outcomes
  <2>3. available'[g] = available[g] - q /\ locked'[g] = locked[g]
    BY <1>2, <1>3, <2>2
  <2>4. \A h \in Holdings \ {g} : h[2] = <<l, o>> =>
          available'[h] + locked'[h] = available[h] + locked[h]
    <3> SUFFICES ASSUME NEW h \in Holdings \ {g}, h[2] = <<l, o>>
                 PROVE  available'[h] = available[h]
      BY <1>3
    <3>1. h # c /\ h # y /\ h # z
      BY <1>1, <2>1, HoldingFacts DEF Holdings
    <3> QED
      BY <1>2, <3>1
  <2>5. /\ Total(HeldBy(<<l, o>>)') + (available[g] + locked[g])
             = Total(HeldBy(<<l, o>>)) + (available'[g] + locked'[g])
        /\ Total(HeldBy(<<l, o>>)') \in Nat
        /\ available[g] \in Nat /\ locked[g] \in Nat
    BY <1>4, <2>1, <2>4, OneHolderChanges
  <2>6. Total(HeldBy(<<l, o>>)') = Total(HeldBy(<<l, o>>)) - q
    BY <1>2, <1>4, <2>3, <2>5
  <2> QED
    BY <1>2, <1>4, <1>6, <2>6
<1> QED
  BY <1>5, <1>6

-----------------------------------------------------------------------------
(* Locks and reservations.                                                 *)

LEMMA ReservationsFinite ==
  ASSUME TypeOK
  PROVE  /\ Len(reservations) \in Nat
         /\ DOMAIN reservations = 1 .. Len(reservations)
         /\ IsFiniteSet(DOMAIN reservations)
<1>1. Len(reservations) \in Nat /\ DOMAIN reservations = 1 .. Len(reservations)
  BY LenProperties DEF TypeOK
<1> QED
  BY <1>1, FS_Interval

LEMMA ReservationsNext ==
  ASSUME TypeOK'
  PROVE  DOMAIN reservations' = 1 .. Len(reservations')
<1>1. reservations' \in Seq(Reservation)
  BY DEF TypeOK
<1> QED
  BY <1>1, LenProperties

LEMMA ClaimType ==
  ASSUME TypeOK, NEW h \in Holdings
  PROVE  Claim(h) \in [DOMAIN reservations -> Nat]
<1>1. \A i \in DOMAIN reservations : reservations[i].amount \in Nat
  BY ReservationFacts
<1> QED
  BY <1>1 DEF Claim

LEMMA ClaimTypeNext ==
  ASSUME TypeOK', NEW h \in Holdings
  PROVE  Claim(h)' \in [DOMAIN reservations' -> Nat]
<1>1. DOMAIN reservations' = 1 .. Len(reservations') /\ reservations' \in Seq(Reservation)
  BY ReservationsNext DEF TypeOK
<1>2. ASSUME NEW i \in DOMAIN reservations'
      PROVE  reservations'[i].amount \in Nat
  <2>1. reservations'[i] \in Reservation
    BY <1>1, ElementOfSeq
  <2> QED
    BY <2>1 DEF Reservation
<1> QED
  BY <1>2 DEF Claim

LEMMA ReserveLocks ==
  ASSUME TypeOK, TypeOK', LocksMatchReservations,
         NEW p \in Participants, NEW x \in Assets, NEW n \in Nat \ {0}, NEW k \in Keys,
         Reserve(p, x, n, k)
  PROVE  LocksMatchReservations'
<1> SUFFICES ASSUME NEW h \in Holdings
             PROVE  locked'[h] = Total(Claim(h)')
  BY DEF LocksMatchReservations
<1> DEFINE S == DOMAIN reservations
           e == Len(reservations) + 1
           F == Claim(h)
           G == Claim(h)'
<1>1. PICK g : g = <<p, x>>
  OBVIOUS
<1>2. /\ locked'[g] = locked[g] + n
      /\ \A f \in Holdings \ {g} : locked'[f] = locked[f]
  BY <1>1, ReserveMoves
<1>3. /\ Len(reservations') = e
      /\ reservations'[e].status = "reserved" /\ reservations'[e].amount = n
      /\ <<reservations'[e].account, reservations'[e].asset>> = g
      /\ \A i \in S : reservations'[i] = reservations[i]
  <2>1. /\ Len(reservations') = e
        /\ reservations'[e] = [account |-> p, asset |-> x, amount |-> n,
                               status |-> "reserved", reason |-> "none"]
        /\ \A i \in S : reservations'[i] = reservations[i]
    BY ReserveAppends
  <2> HIDE DEF e
  <2> QED
    BY <1>1, <2>1
<1>4. IsFiniteSet(S) /\ S = 1 .. Len(reservations) /\ Len(reservations) \in Nat
  BY ReservationsFinite
<1>5. DOMAIN reservations' = S \cup {e} /\ e \notin S
  <2>1. DOMAIN reservations' = 1 .. Len(reservations')
    BY ReservationsNext
  <2> QED
    BY <1>3, <1>4, <2>1
<1>6. F \in [S -> Nat] /\ G \in [S \cup {e} -> Nat]
  BY <1>5, ClaimType, ClaimTypeNext
<1>7. \A i \in S : G[i] = F[i]
  BY <1>3, <1>5 DEF Claim
<1>8. G[e] = IF g = h THEN n ELSE 0
  BY <1>3, <1>5 DEF Claim
<1>9. locked[h] = Total(F) /\ locked[h] \in Nat
  BY DEF LocksMatchReservations, TypeOK
<1> HIDE DEF F, G, S, e
<1>10. Total(G) = Total(F) + G[e]
  <2>1. IsFiniteSet(S) /\ e \notin S
    BY <1>4, <1>5
  <2> QED
    BY <1>6, <1>7, <2>1, TotalExtend
<1>11. locked'[h] = Total(G)
  BY <1>2, <1>8, <1>9, <1>10
<1> QED
  BY <1>11 DEF G

LEMMA ReleaseLocks ==
  ASSUME TypeOK, TypeOK', LocksMatchReservations,
         NEW i \in DOMAIN reservations, NEW reason \in {"cancelled", "rejected"},
         NEW k \in Keys, Release(i, reason, k)
  PROVE  LocksMatchReservations'
<1> SUFFICES ASSUME NEW h \in Holdings
             PROVE  locked'[h] = Total(Claim(h)')
  BY DEF LocksMatchReservations
<1> DEFINE S == DOMAIN reservations
           F == Claim(h)
           G == Claim(h)'
<1>1. PICK g, n : g = <<reservations[i].account, reservations[i].asset>>
                  /\ n = reservations[i].amount
  OBVIOUS
<1>2. /\ g \in Holdings /\ n \in Nat /\ locked[g] >= n
      /\ locked'[g] = locked[g] - n
      /\ \A f \in Holdings \ {g} : locked'[f] = locked[f]
  BY <1>1, ReleaseMoves
<1>3. /\ reservations[i].status = "reserved"
      /\ Len(reservations') = Len(reservations)
      /\ reservations'[i].status = "released"
      /\ \A j \in S \ {i} : reservations'[j] = reservations[j]
  BY ReleaseMarks
<1>4. IsFiniteSet(S) /\ S = 1 .. Len(reservations)
  BY ReservationsFinite
<1>5. DOMAIN reservations' = S
  <2>1. DOMAIN reservations' = 1 .. Len(reservations')
    BY ReservationsNext
  <2> QED
    BY <1>3, <1>4, <2>1
<1>6. F \in [S -> Nat] /\ G \in [S -> Nat]
  BY <1>5, ClaimType, ClaimTypeNext
<1>7. \A j \in S \ {i} : G[j] = F[j]
  BY <1>3, <1>5 DEF Claim
<1>8. (F[i] = IF g = h THEN n ELSE 0) /\ G[i] = 0
  BY <1>1, <1>3, <1>5 DEF Claim
<1>9. locked[h] = Total(F) /\ locked[h] \in Nat
  BY DEF LocksMatchReservations, TypeOK
<1> HIDE DEF F, G, S
<1>10. Total(G) + F[i] = Total(F) + G[i] /\ Total(G) \in Nat
  <2>1. i \in S /\ IsFiniteSet(S)
    BY <1>4 DEF S
  <2>2. Total(G) + F[i] = Total(F) + G[i]
    BY <1>6, <1>7, <2>1, TotalUpdate
  <2> QED
    BY <1>6, <2>1, <2>2, TotalType
<1>11. locked'[h] = Total(G)
  BY <1>2, <1>8, <1>9, <1>10
<1> QED
  BY <1>11 DEF G

LEMMA LocksStay ==
  ASSUME LocksMatchReservations, locked' = locked, reservations' = reservations
  PROVE  LocksMatchReservations'
<1> SUFFICES ASSUME NEW h \in Holdings
             PROVE  locked'[h] = Total(Claim(h)')
  BY DEF LocksMatchReservations
<1>1. Claim(h)' = Claim(h)
  BY DEF Claim
<1> QED
  BY <1>1 DEF LocksMatchReservations

-----------------------------------------------------------------------------
(* The inductive invariant.  TypeOK alone is not inductive: a merge keeps   *)
(* sets[m] from going below 0 only by checking the reserve, and a release   *)
(* finds its amount locked only because the claims add up to the locks.     *)

IInv == TypeOK /\ PointConservation /\ SetsFullyBacked /\ LocksMatchReservations

LEMMA BackedParts == SetsFullyBacked <=> ReserveBacksSets /\ SharesMatchSets
BY DEF SetsFullyBacked, ReserveBacksSets, SharesMatchSets

LEMMA InitEstablishes ==
  ASSUME Init
  PROVE  IInv
<1>1. TypeOK
  <2>1. <<>> \in Seq(Reservation) /\ Len(<<>>) = 0
    OBVIOUS
  <2>2. IsFiniteSet({})
    BY FS_EmptySet
  <2>3. issued \in 0 .. IntMax /\ Len(reservations) <= MaxReservations
    BY <2>1, NumbersAssumption DEF Init
  <2>4. reservations \in Seq(Reservation)
    BY <2>1 DEF Init
  <2>5. /\ reserve \in [Markets -> Nat] /\ sets \in [Markets -> Nat]
        /\ available \in [Holdings -> Nat] /\ locked \in [Holdings -> Nat]
        /\ bootstrapped \in BOOLEAN /\ open \subseteq Markets
    BY DEF Init
  <2>6. allocationEvents = {} /\ setEvents = {} /\ orderEvents = {}
    BY DEF Init
  <2> QED
    BY <2>2, <2>3, <2>4, <2>5, <2>6 DEF TypeOK
<1>2. ASSUME NEW x \in Assets
      PROVE  Total(HeldBy(x)) = 0
  <2>1. \A a \in DOMAIN HeldBy(x) : HeldBy(x)[a] = 0
    BY HoldingFacts DEF HeldBy, Held, Init
  <2> QED
    BY <2>1, TotalZero
<1>3. Total(reserve) = 0
  BY TotalZero DEF Init
<1>4. PointConservation
  BY <1>2, <1>3, HoldingFacts DEF PointConservation, Init
<1>5. ReserveBacksSets
  BY NumbersAssumption DEF ReserveBacksSets, Init
<1>6. SharesMatchSets
  BY <1>2, HoldingFacts DEF SharesMatchSets, Init
<1>7. ASSUME NEW h \in Holdings
      PROVE  Total(Claim(h)) = 0
  <2>1. DOMAIN Claim(h) = {}
    BY DEF Claim, Init
  <2> QED
    BY <2>1, TotalZero
<1>8. LocksMatchReservations
  BY <1>7 DEF LocksMatchReservations, Init
<1> QED
  BY <1>1, <1>4, <1>5, <1>6, <1>8, BackedParts DEF IInv

(* The two halves of the order operations, for both sides and reasons.     *)
LEMMA ReserveKeeps ==
  ASSUME IInv, NEW p \in Participants, NEW x \in Assets, NEW n \in Nat \ {0},
         NEW k \in Keys, Reserve(p, x, n, k)
  PROVE  IInv'
<1>1. TypeOK /\ PointConservation /\ ReserveBacksSets /\ SharesMatchSets /\ LocksMatchReservations
  BY BackedParts DEF IInv
<1>2. TypeOK' /\ ReserveBacksSets'
  BY <1>1, ReserveTyped
<1>3. ASSUME NEW h \in Holdings
      PROVE  available'[h] + locked'[h] = available[h] + locked[h]
  <2>1. PICK g : g = <<p, x>>
    OBVIOUS
  <2>2. /\ available'[g] = available[g] - n /\ locked'[g] = locked[g] + n
        /\ \A f \in Holdings \ {g} :
             available'[f] = available[f] /\ locked'[f] = locked[f]
    BY <1>1, <2>1, ReserveMoves
  <2>3. available[h] \in Nat /\ locked[h] \in Nat
    BY <1>1 DEF TypeOK
  <2> QED
    BY <2>2, <2>3
<1>4. issued' = issued /\ reserve' = reserve /\ sets' = sets
  BY DEF Reserve, supplyVars, marketVars
<1>5. PointConservation'
  BY <1>1, <1>2, <1>3, <1>4, LocksConserve
<1>6. SharesMatchSets'
  BY <1>1, <1>2, <1>3, <1>4, SharesStay
<1>7. LocksMatchReservations'
  BY <1>1, <1>2, ReserveLocks
<1> QED
  BY <1>2, <1>5, <1>6, <1>7, BackedParts
  DEF IInv, SetsFullyBacked, ReserveBacksSets, SharesMatchSets

LEMMA ReleaseKeeps ==
  ASSUME IInv, NEW i \in DOMAIN reservations,
         NEW reason \in {"cancelled", "rejected"}, NEW k \in Keys,
         Release(i, reason, k)
  PROVE  IInv'
<1>1. TypeOK /\ PointConservation /\ ReserveBacksSets /\ SharesMatchSets /\ LocksMatchReservations
  BY BackedParts DEF IInv
<1>2. TypeOK' /\ ReserveBacksSets'
  BY <1>1, ReleaseTyped
<1>3. ASSUME NEW h \in Holdings
      PROVE  available'[h] + locked'[h] = available[h] + locked[h]
  <2>1. PICK g, n : g = <<reservations[i].account, reservations[i].asset>>
                    /\ n = reservations[i].amount
    OBVIOUS
  <2>2. /\ n \in Nat /\ g \in Holdings
        /\ available'[g] = available[g] + n /\ locked'[g] = locked[g] - n
        /\ \A f \in Holdings \ {g} :
             available'[f] = available[f] /\ locked'[f] = locked[f]
    BY <1>1, <2>1, ReleaseMoves
  <2>3. available[h] \in Nat /\ locked[h] \in Nat
    BY <1>1 DEF TypeOK
  <2> QED
    BY <2>2, <2>3
<1>4. issued' = issued /\ reserve' = reserve /\ sets' = sets
  BY DEF Release, supplyVars, marketVars
<1>5. PointConservation'
  BY <1>1, <1>2, <1>3, <1>4, LocksConserve
<1>6. SharesMatchSets'
  BY <1>1, <1>2, <1>3, <1>4, SharesStay
<1>7. LocksMatchReservations'
  BY <1>1, <1>2, ReleaseLocks
<1> QED
  BY <1>2, <1>5, <1>6, <1>7, BackedParts
  DEF IInv, SetsFullyBacked, ReserveBacksSets, SharesMatchSets

(* Every step keeps the invariant: one case per operation.                 *)
LEMMA StepKeeps ==
  ASSUME IInv, [Next]_vars
  PROVE  IInv'
<1>1. TypeOK /\ PointConservation /\ ReserveBacksSets /\ SharesMatchSets /\ LocksMatchReservations
  BY BackedParts DEF IInv
<1>2. ASSUME TypeOK' /\ ReserveBacksSets', PointConservation',
             SharesMatchSets', LocksMatchReservations'
      PROVE  IInv'
  BY <1>2 DEF IInv, SetsFullyBacked, ReserveBacksSets, SharesMatchSets
<1>3. ASSUME NEW n \in Amounts, Bootstrap(n)
      PROVE  IInv'
  <2>1. TypeOK' /\ ReserveBacksSets'
    BY <1>1, <1>3, BootstrapTyped
  <2>2. PointConservation'
    BY <1>1, <1>3, <2>1, BootstrapConserves
  <2>3. ASSUME NEW h \in Holdings, h[2] # Point
        PROVE  available'[h] + locked'[h] = available[h] + locked[h]
    <3>1. PICK t : t = <<Treasury, Point>>
      OBVIOUS
    <3>2. h # t
      BY <2>3, <3>1
    <3>3. available'[h] = available[h] /\ locked' = locked
      BY <1>1, <1>3, <3>1, <3>2, BootstrapMoves DEF Bootstrap
    <3> QED
      BY <3>3
  <2>4. SharesMatchSets'
    BY <1>1, <1>3, <2>1, <2>3, SharesStay DEF Bootstrap, marketVars
  <2>5. LocksMatchReservations'
    BY <1>1, <1>3, LocksStay DEF Bootstrap, orderVars
  <2> QED
    BY <1>2, <2>1, <2>2, <2>4, <2>5
<1>4. ASSUME NEW p \in Participants, NEW n \in Amounts, NEW k \in Keys, Allocate(p, n, k)
      PROVE  IInv'
  <2>1. TypeOK' /\ ReserveBacksSets'
    BY <1>1, <1>4, AllocateTyped
  <2>2. PointConservation'
    BY <1>1, <1>4, <2>1, AllocateConserves
  <2>3. ASSUME NEW h \in Holdings, h[2] # Point
        PROVE  available'[h] + locked'[h] = available[h] + locked[h]
    <3>1. PICK t, d : t = <<Treasury, Point>> /\ d = <<p, Point>>
      OBVIOUS
    <3>2. h # t /\ h # d
      BY <2>3, <3>1
    <3>3. available'[h] = available[h] /\ locked' = locked
      BY <1>1, <1>4, <3>1, <3>2, AllocateMoves DEF Allocate
    <3> QED
      BY <3>3
  <2>4. SharesMatchSets'
    BY <1>1, <1>4, <2>1, <2>3, SharesStay DEF Allocate, marketVars
  <2>5. LocksMatchReservations'
    BY <1>1, <1>4, LocksStay DEF Allocate, orderVars
  <2> QED
    BY <1>2, <2>1, <2>2, <2>4, <2>5
<1>5. ASSUME NEW m \in Markets, CreateMarket(m)
      PROVE  IInv'
  <2>1. TypeOK' /\ ReserveBacksSets'
    BY <1>1, <1>5, CreateMarketTyped
  <2>2. /\ available' = available /\ locked' = locked /\ reservations' = reservations
        /\ issued' = issued /\ reserve' = reserve /\ sets' = sets
    BY <1>5 DEF CreateMarket, supplyVars, orderVars
  <2>3. PointConservation'
    BY <1>1, <2>1, <2>2, LocksConserve
  <2>4. SharesMatchSets'
    BY <1>1, <2>1, <2>2, SharesStay
  <2>5. LocksMatchReservations'
    BY <1>1, <2>2, LocksStay
  <2> QED
    BY <1>2, <2>1, <2>3, <2>4, <2>5
<1>6. ASSUME NEW a \in Accounts, NEW m \in Markets, NEW q \in Quantities, NEW k \in Keys,
             Split(a, m, q, k)
      PROVE  IInv'
  <2>1. TypeOK' /\ ReserveBacksSets'
    BY <1>1, <1>6, SplitTyped
  <2>2. PointConservation' /\ SharesMatchSets'
    BY <1>1, <1>6, <2>1, SplitConserves, SplitSupplies
  <2>3. LocksMatchReservations'
    BY <1>1, <1>6, LocksStay DEF Split, orderVars
  <2> QED
    BY <1>2, <2>1, <2>2, <2>3
<1>7. ASSUME NEW a \in Accounts, NEW m \in Markets, NEW q \in Quantities, NEW k \in Keys,
             Merge(a, m, q, k)
      PROVE  IInv'
  <2>1. TypeOK' /\ ReserveBacksSets'
    BY <1>1, <1>7, MergeTyped
  <2>2. PointConservation' /\ SharesMatchSets'
    BY <1>1, <1>7, <2>1, MergeConserves, MergeSupplies
  <2>3. LocksMatchReservations'
    BY <1>1, <1>7, LocksStay DEF Merge, orderVars
  <2> QED
    BY <1>2, <2>1, <2>2, <2>3
<1>8. ASSUME NEW p \in Participants, NEW q \in Quantities, NEW price \in 1 .. Scale,
             NEW k \in Keys, ReserveBuy(p, q, price, k)
      PROVE  IInv'
  <2>1. q * price \in Nat \ {0}
    BY NumbersAssumption
  <2> QED
    BY <1>8, <2>1, HoldingFacts, ReserveKeeps DEF ReserveBuy
<1>9. ASSUME NEW p \in Participants, NEW m \in Markets, NEW o \in Outcomes,
             NEW q \in Quantities, NEW k \in Keys, ReserveSell(p, m, o, q, k)
      PROVE  IInv'
  <2>1. q \in Nat \ {0} /\ <<m, o>> \in Assets
    BY NumbersAssumption, HoldingFacts
  <2> QED
    BY <1>9, <2>1, ReserveKeeps DEF ReserveSell
<1>10. ASSUME NEW p \in Participants, NEW i \in DOMAIN reservations, NEW k \in Keys,
              Cancel(p, i, k)
       PROVE  IInv'
  BY <1>10, ReleaseKeeps DEF Cancel
<1>11. ASSUME NEW i \in DOMAIN reservations, NEW k \in Keys, Reject(i, k)
       PROVE  IInv'
  BY <1>11, ReleaseKeeps DEF Reject
<1>12. CASE UNCHANGED vars
  <2>1. /\ issued' = issued /\ bootstrapped' = bootstrapped /\ open' = open
        /\ reserve' = reserve /\ sets' = sets
        /\ available' = available /\ locked' = locked /\ reservations' = reservations
        /\ allocationEvents' = allocationEvents /\ setEvents' = setEvents
        /\ orderEvents' = orderEvents
    BY <1>12 DEF vars, supplyVars, marketVars, orderVars
  <2>2. TypeOK' /\ ReserveBacksSets'
    BY <1>1, <2>1 DEF TypeOK, ReserveBacksSets
  <2>3. PointConservation'
    BY <1>1, <2>1, <2>2, LocksConserve
  <2>4. SharesMatchSets'
    BY <1>1, <2>1, <2>2, SharesStay
  <2>5. LocksMatchReservations'
    BY <1>1, <2>1, LocksStay
  <2> QED
    BY <1>2, <2>2, <2>3, <2>4, <2>5
<1> QED
  BY <1>3, <1>4, <1>5, <1>6, <1>7, <1>8, <1>9, <1>10, <1>11, <1>12 DEF Next

(* The invariant holds in every reachable state.                           *)
THEOREM Invariance == Spec => []IInv
<1>1. Init => IInv
  BY InitEstablishes
<1>2. IInv /\ [Next]_vars => IInv'
  BY StepKeeps
<1> QED
  BY <1>1, <1>2, PTL DEF Spec

(* Every reachable state is well typed; that net_complete_sets and the      *)
(* locked balances never go below 0 is part of it.                          *)
THEOREM TypeCorrect == Spec => []TypeOK
BY Invariance, PTL DEF IInv

(* verify_collateral_invariants never raises                                *)
(* "global_point_conservation_failed".                                      *)
THEOREM Conservation == Spec => []PointConservation
BY Invariance, PTL DEF IInv

(* verify_collateral_invariants never raises "reserve_complete_set_mismatch" *)
(* or "yes_supply_mismatch" or "no_supply_mismatch".                         *)
THEOREM Backing == Spec => []SetsFullyBacked
BY Invariance, PTL DEF IInv

(* verify_collateral_invariants never raises "buy_locked_points_mismatch"   *)
(* or "sell_locked_shares_mismatch".                                        *)
THEOREM Locking == Spec => []LocksMatchReservations
BY Invariance, PTL DEF IInv

-----------------------------------------------------------------------------
(* The order events, which tell of every reservation what became of it.     *)

EventsWithin == \A e \in orderEvents : e.reservation \in DOMAIN reservations

Recorded(i) ==
  /\ \E e \in orderEvents : OrderEventsOf("reserve", i) = {e}
  /\ IF reservations[i].status = "reserved" THEN OrderEventsOf("release", i) = {}
     ELSE \E e \in orderEvents : OrderEventsOf("release", i) = {e}

EInv == EventsWithin /\ (\A i \in DOMAIN reservations : Recorded(i))

(* A new event is the event of its own type and reservation, and of no other. *)
LEMMA EventAdded ==
  ASSUME NEW type, NEW a, NEW i, NEW k, RecordOrderEvent(type, a, i, k)
  PROVE  \E e \in orderEvents' :
           /\ orderEvents' = orderEvents \cup {e}
           /\ e.type = type /\ e.reservation = i
           /\ OrderEventsOf(type, i) = {} => OrderEventsOf(type, i)' = {e}
           /\ \A t, j : <<t, j>> # <<type, i>> => OrderEventsOf(t, j)' = OrderEventsOf(t, j)
<1> DEFINE e == [account |-> a, key |-> k, type |-> type, reservation |-> i]
<1>1. e.type = type /\ e.reservation = i
  OBVIOUS
<1>2. orderEvents' = orderEvents \cup {e}
  BY DEF RecordOrderEvent
<1> HIDE DEF e
<1>3. OrderEventsOf(type, i) = {} => OrderEventsOf(type, i)' = {e}
  BY <1>1, <1>2 DEF OrderEventsOf
<1>4. ASSUME NEW t, NEW j, <<t, j>> # <<type, i>>
      PROVE  OrderEventsOf(t, j)' = OrderEventsOf(t, j)
  BY <1>1, <1>2, <1>4 DEF OrderEventsOf
<1> QED
  BY <1>1, <1>2, <1>3, <1>4

LEMMA ReserveRecords ==
  ASSUME TypeOK, EInv, NEW p \in Participants, NEW x \in Assets, NEW n \in Nat \ {0},
         NEW k \in Keys, Reserve(p, x, n, k)
  PROVE  EInv'
<1>1. PICK l : l = Len(reservations) + 1
  OBVIOUS
<1>2. /\ Len(reservations) \in Nat
      /\ DOMAIN reservations = 1 .. Len(reservations)
      /\ DOMAIN reservations' = 1 .. l /\ l \notin DOMAIN reservations
      /\ reservations'[l].status = "reserved"
      /\ \A i \in DOMAIN reservations : reservations'[i] = reservations[i]
  <2>1. reservations \in Seq(Reservation)
    BY DEF TypeOK
  <2>2. /\ reservations' \in Seq(Reservation) /\ Len(reservations') = l
        /\ reservations'[l] = [account |-> p, asset |-> x, amount |-> n,
                               status |-> "reserved", reason |-> "none"]
        /\ \A i \in DOMAIN reservations : reservations'[i] = reservations[i]
    BY <1>1, ReserveAppends
  <2>3. Len(reservations) \in Nat /\ DOMAIN reservations = 1 .. Len(reservations)
    BY <2>1, LenProperties
  <2>4. DOMAIN reservations' = 1 .. l
    BY <2>2, LenProperties
  <2>5. reservations'[l].status = "reserved"
    BY <2>2
  <2> QED
    BY <1>1, <2>2, <2>3, <2>4, <2>5
<1>3. PICK e \in orderEvents' :
        /\ orderEvents' = orderEvents \cup {e}
        /\ e.reservation = l
        /\ OrderEventsOf("reserve", l) = {} => OrderEventsOf("reserve", l)' = {e}
        /\ \A t, j : <<t, j>> # <<"reserve", l>> => OrderEventsOf(t, j)' = OrderEventsOf(t, j)
  BY <1>1, EventAdded DEF Reserve
<1>4. OrderEventsOf("reserve", l) = {} /\ OrderEventsOf("release", l) = {}
  BY <1>2 DEF EInv, EventsWithin, OrderEventsOf
<1>5. EventsWithin'
  BY <1>1, <1>2, <1>3 DEF EInv, EventsWithin
<1>6. Recorded(l)'
  BY <1>2, <1>3, <1>4 DEF Recorded
<1>7. ASSUME NEW i \in DOMAIN reservations
      PROVE  Recorded(i)'
  <2>1. /\ OrderEventsOf("reserve", i)' = OrderEventsOf("reserve", i)
        /\ OrderEventsOf("release", i)' = OrderEventsOf("release", i)
        /\ orderEvents \subseteq orderEvents'
    BY <1>2, <1>3
  <2> QED
    BY <1>2, <2>1 DEF EInv, Recorded
<1>8. DOMAIN reservations' = DOMAIN reservations \cup {l}
  BY <1>1, <1>2
<1> QED
  BY <1>5, <1>6, <1>7, <1>8 DEF EInv

LEMMA ReleaseRecords ==
  ASSUME TypeOK, EInv, NEW i \in DOMAIN reservations,
         NEW reason \in {"cancelled", "rejected"}, NEW k \in Keys,
         Release(i, reason, k)
  PROVE  EInv'
<1>1. /\ DOMAIN reservations' = DOMAIN reservations
      /\ reservations[i].status = "reserved" /\ reservations'[i].status = "released"
      /\ \A j \in DOMAIN reservations \ {i} : reservations'[j] = reservations[j]
  <2>1. /\ reservations' \in Seq(Reservation) /\ Len(reservations') = Len(reservations)
        /\ reservations \in Seq(Reservation)
    BY ReleaseMarks DEF TypeOK
  <2> QED
    BY <2>1, ReleaseMarks, LenProperties
<1>2. PICK e \in orderEvents' :
        /\ orderEvents' = orderEvents \cup {e}
        /\ e.reservation = i
        /\ OrderEventsOf("release", i) = {} => OrderEventsOf("release", i)' = {e}
        /\ \A t, j : <<t, j>> # <<"release", i>> => OrderEventsOf(t, j)' = OrderEventsOf(t, j)
  BY EventAdded DEF Release
<1>3. EventsWithin'
  BY <1>1, <1>2 DEF EInv, EventsWithin
<1>4. ASSUME NEW j \in DOMAIN reservations
      PROVE  Recorded(j)'
  <2>1. /\ OrderEventsOf("reserve", j)' = OrderEventsOf("reserve", j)
        /\ orderEvents \subseteq orderEvents'
    BY <1>2
  <2>2. CASE j = i
    BY <1>1, <1>2, <2>1, <2>2 DEF EInv, Recorded
  <2>3. CASE j # i
    <3>1. OrderEventsOf("release", j)' = OrderEventsOf("release", j)
      BY <1>2, <2>3
    <3> QED
      BY <1>1, <2>1, <2>3, <3>1 DEF EInv, Recorded
  <2> QED
    BY <2>2, <2>3
<1> QED
  BY <1>1, <1>3, <1>4 DEF EInv

LEMMA StepRecords ==
  ASSUME TypeOK, EInv, [Next]_vars
  PROVE  EInv'
<1>1. ASSUME UNCHANGED orderVars
      PROVE  EInv'
  BY <1>1 DEF EInv, EventsWithin, Recorded, OrderEventsOf, orderVars
<1>2. ASSUME NEW p \in Participants, NEW q \in Quantities, NEW price \in 1 .. Scale,
             NEW k \in Keys, ReserveBuy(p, q, price, k)
      PROVE  EInv'
  <2>1. q * price \in Nat \ {0}
    BY NumbersAssumption
  <2> QED
    BY <1>2, <2>1, HoldingFacts, ReserveRecords DEF ReserveBuy
<1>3. ASSUME NEW p \in Participants, NEW m \in Markets, NEW o \in Outcomes,
             NEW q \in Quantities, NEW k \in Keys, ReserveSell(p, m, o, q, k)
      PROVE  EInv'
  <2>1. q \in Nat \ {0} /\ <<m, o>> \in Assets
    BY NumbersAssumption, HoldingFacts
  <2> QED
    BY <1>3, <2>1, ReserveRecords DEF ReserveSell
<1>4. ASSUME NEW p \in Participants, NEW i \in DOMAIN reservations, NEW k \in Keys,
             Cancel(p, i, k)
      PROVE  EInv'
  BY <1>4, ReleaseRecords DEF Cancel
<1>5. ASSUME NEW i \in DOMAIN reservations, NEW k \in Keys, Reject(i, k)
      PROVE  EInv'
  BY <1>5, ReleaseRecords DEF Reject
<1>6. ASSUME NEW n \in Amounts, Bootstrap(n)
      PROVE  EInv'
  BY <1>1, <1>6 DEF Bootstrap
<1>7. ASSUME NEW p \in Participants, NEW n \in Amounts, NEW k \in Keys, Allocate(p, n, k)
      PROVE  EInv'
  BY <1>1, <1>7 DEF Allocate
<1>8. ASSUME NEW m \in Markets, CreateMarket(m)
      PROVE  EInv'
  BY <1>1, <1>8 DEF CreateMarket
<1>9. ASSUME NEW a \in Accounts, NEW m \in Markets, NEW q \in Quantities, NEW k \in Keys,
             Split(a, m, q, k) \/ Merge(a, m, q, k)
      PROVE  EInv'
  BY <1>1, <1>9 DEF Split, Merge
<1>10. CASE UNCHANGED vars
  BY <1>1, <1>10 DEF vars
<1> QED
  BY <1>2, <1>3, <1>4, <1>5, <1>6, <1>7, <1>8, <1>9, <1>10 DEF Next

LEMMA VerifierParts ==
  ASSUME IInv, EInv
  PROVE  VerifierNeverObjects
<1>1. \A h \in Holdings : available[h] >= 0 /\ locked[h] >= 0
  BY DEF IInv, TypeOK
<1>2. \A m \in Markets : reserve[m] >= 0 /\ sets[m] >= 0
  BY DEF IInv, TypeOK
<1>3. \A i \in DOMAIN reservations : Recorded(i)
  BY DEF EInv
<1> QED
  BY <1>1, <1>2, <1>3
  DEF IInv, VerifierNeverObjects, verify_collateral_invariants, SetsFullyBacked, Recorded

(* The refusal "invariant_violation" of every operation, which asks         *)
(* verify_collateral_invariants before it commits, is unreachable.          *)
THEOREM Unobjectionable == Spec => []VerifierNeverObjects
<1>1. Init => EInv
  BY DEF Init, EInv, EventsWithin
<1>2. TypeOK /\ EInv /\ [Next]_vars => EInv'
  BY StepRecords
<1>3. IInv /\ EInv => VerifierNeverObjects
  BY VerifierParts
<1> QED
  BY <1>1, <1>2, <1>3, Invariance, TypeCorrect, PTL DEF Spec

-----------------------------------------------------------------------------
(* What the invariant makes unreachable.                                   *)

(* What an account holds of an asset is part of what all hold.             *)
LEMMA HoldingWithinTotal ==
  ASSUME TypeOK, NEW a \in Accounts, NEW x \in Assets, NEW h, h = <<a, x>>
  PROVE  /\ available[h] \in Nat /\ locked[h] \in Nat
         /\ Total(HeldBy(x)) \in Nat
         /\ available[h] + locked[h] <= Total(HeldBy(x))
<1> DEFINE F == HeldBy(x)
<1>1. F \in [Accounts -> Nat] /\ F[a] = available[h] + locked[h]
  BY HeldByFacts
<1>2. available[h] \in Nat /\ locked[h] \in Nat
  BY HoldingFacts DEF TypeOK
<1> HIDE DEF F
<1>3. Total(F) \in Nat /\ F[a] <= Total(F)
  BY <1>1, AccountsFinite, TotalType, TotalBounds
<1> QED
  BY <1>1, <1>2, <1>3 DEF F

LEMMA ReserveWithinTotal ==
  ASSUME TypeOK, NEW m \in Markets
  PROVE  reserve[m] \in Nat /\ Total(reserve) \in Nat /\ reserve[m] <= Total(reserve)
<1>1. reserve \in [Markets -> Nat] /\ IsFiniteSet(Markets)
  BY MarketsAssumption DEF TypeOK
<1> QED
  BY <1>1, TotalType, TotalBounds

(* No holding can leave the range of a SQLite integer: points are bounded  *)
(* by the issue, and shares by the reserve that backs them.                *)
LEMMA HoldingsInRange ==
  ASSUME IInv, NEW a \in Accounts, NEW x \in Assets, NEW h, h = <<a, x>>
  PROVE  available[h] + locked[h] <= IntMax
<1>1. TypeOK /\ PointConservation /\ ReserveBacksSets /\ SharesMatchSets
  BY BackedParts DEF IInv
<1>2. /\ available[h] \in Nat /\ locked[h] \in Nat
      /\ Total(HeldBy(x)) \in Nat
      /\ available[h] + locked[h] <= Total(HeldBy(x))
  BY <1>1, HoldingWithinTotal
<1>3. /\ issued \in Nat /\ IntMax \in Nat /\ issued <= IntMax
      /\ Total(HeldBy(Point)) \in Nat /\ Total(reserve) \in Nat
      /\ issued = Total(HeldBy(Point)) + Total(reserve)
  <2>1. issued \in 0 .. IntMax /\ IntMax \in Nat
    BY <1>1, NumbersAssumption DEF TypeOK
  <2>2. Total(HeldBy(Point)) \in Nat
    BY <1>1, HoldingFacts, HoldingWithinTotal
  <2>3. Total(reserve) \in Nat
    BY <1>1, MarketsAssumption, TotalType DEF TypeOK
  <2> QED
    BY <1>1, <2>1, <2>2, <2>3 DEF PointConservation
<1>4. CASE x = Point
  BY <1>2, <1>3, <1>4
<1>5. CASE x # Point
  <2>1. PICK m \in Markets, o \in Outcomes : x = <<m, o>>
    BY <1>5 DEF Assets, Shares
  <2>2. Total(HeldBy(x)) = sets[m] /\ reserve[m] = sets[m] * Scale /\ sets[m] \in Nat
    BY <1>1, <2>1 DEF SharesMatchSets, ReserveBacksSets, TypeOK
  <2>3. reserve[m] \in Nat /\ reserve[m] <= Total(reserve)
    BY <1>1, ReserveWithinTotal
  <2>4. sets[m] <= sets[m] * Scale
    BY <2>2, NumbersAssumption
  <2> QED
    BY <1>2, <1>3, <2>2, <2>3, <2>4
<1> QED
  BY <1>4, <1>5

LEMMA ReleaseFits ==
  ASSUME IInv
  PROVE  ReleaseNeverFails
<1> SUFFICES ASSUME NEW i \in DOMAIN reservations, reservations[i].status = "reserved",
                    NEW h, h = <<reservations[i].account, reservations[i].asset>>,
                    NEW n, n = reservations[i].amount
             PROVE  locked[h] >= n /\ Fits(n, available[h])
  BY DEF ReleaseNeverFails
<1>1. TypeOK /\ LocksMatchReservations
  BY DEF IInv
<1>2. h \in Holdings /\ n \in Nat
  BY <1>1, ReservationFacts
<1>3. available[h] \in Nat /\ locked[h] \in Nat /\ IntMax \in Nat
  BY <1>1, <1>2, NumbersAssumption DEF TypeOK
<1>4. Claim(h)[i] = n
  BY DEF Claim
<1>5. Claim(h) \in [DOMAIN reservations -> Nat] /\ IsFiniteSet(DOMAIN reservations)
  BY <1>1, <1>2, ClaimType, ReservationsFinite
<1>6. n <= Total(Claim(h))
  BY <1>4, <1>5, TotalBounds
<1>7. n <= locked[h]
  BY <1>1, <1>2, <1>6 DEF LocksMatchReservations
<1>8. available[h] + locked[h] <= IntMax
  <2>1. PICK a \in Accounts, x \in Assets : h = <<a, x>>
    BY <1>2 DEF Holdings
  <2> QED
    BY <2>1, HoldingsInRange
<1> QED
  BY <1>2, <1>3, <1>7, <1>8 DEF Fits

LEMMA RedemptionFits ==
  ASSUME IInv
  PROVE  RedemptionNeverFails
<1>1. TypeOK /\ PointConservation /\ ReserveBacksSets /\ SharesMatchSets
  BY BackedParts DEF IInv
<1> SUFFICES ASSUME NEW a \in Accounts, NEW m \in open, NEW q \in Quantities,
                    \A o \in Outcomes : Funded(<<a, <<m, o>>>>, q),
                    NEW c, c = <<a, Point>>
             PROVE  reserve[m] >= q * Scale /\ Fits(q * Scale, available[c])
  BY DEF RedemptionNeverFails
<1>2. m \in Markets /\ q \in Nat /\ q * Scale \in Nat
  BY <1>1, NumbersAssumption DEF TypeOK
<1>3. PICK y : y = <<a, <<m, "YES">>>>
  OBVIOUS
<1>4. /\ available[y] >= q /\ <<m, "YES">> \in Assets
      /\ Total(HeldBy(<<m, "YES">>)) = sets[m]
  BY <1>1, <1>2, <1>3, HoldingFacts DEF Funded, Outcomes, SharesMatchSets
<1>5. /\ available[y] \in Nat /\ locked[y] \in Nat
      /\ Total(HeldBy(<<m, "YES">>)) \in Nat
      /\ available[y] + locked[y] <= Total(HeldBy(<<m, "YES">>))
  BY <1>1, <1>3, <1>4, HoldingWithinTotal
<1>6. sets[m] \in Nat /\ sets[m] >= q
  BY <1>2, <1>4, <1>5
<1>7. sets[m] * Scale >= q * Scale
  BY <1>2, <1>6, NumbersAssumption
<1>8. reserve[m] >= q * Scale
  BY <1>1, <1>2, <1>7 DEF ReserveBacksSets
<1>9. reserve[m] \in Nat /\ Total(reserve) \in Nat /\ reserve[m] <= Total(reserve)
  BY <1>1, <1>2, ReserveWithinTotal
<1>10. /\ available[c] \in Nat /\ locked[c] \in Nat
       /\ Total(HeldBy(Point)) \in Nat
       /\ available[c] + locked[c] <= Total(HeldBy(Point))
  BY <1>1, HoldingFacts, HoldingWithinTotal
<1>11. issued \in Nat /\ IntMax \in Nat /\ issued <= IntMax
  BY <1>1, NumbersAssumption DEF TypeOK
<1>12. issued = Total(HeldBy(Point)) + Total(reserve)
  BY <1>1 DEF PointConservation
<1> QED
  BY <1>2, <1>8, <1>9, <1>10, <1>11, <1>12 DEF Fits

(* The refusal "invariant_violation" of a cancel or a reject is unreachable, *)
(* and the addition it makes without a check stays in range.                 *)
THEOREM ReleaseIsSafe == Spec => []ReleaseNeverFails
BY Invariance, ReleaseFits, PTL

(* A merge by someone who holds the shares is never refused for the reserve *)
(* or for an overflow.                                                      *)
THEOREM RedemptionIsSafe == Spec => []RedemptionNeverFails
BY Invariance, RedemptionFits, PTL

-----------------------------------------------------------------------------
(* What a step may never do.                                               *)

LEMMA ReleaseIsExact ==
  ASSUME TypeOK, NEW i \in DOMAIN reservations, NEW j \in DOMAIN reservations,
         NEW reason \in {"cancelled", "rejected"}, NEW k \in Keys,
         Release(j, reason, k)
  PROVE  ReleaseExactly(i)
<1>1. CASE i # j
  <2>1. reservations'[i] = reservations[i]
    BY <1>1, ReleaseMarks
  <2> QED
    BY <2>1 DEF ReleaseExactly
<1>2. CASE i = j
  <2>1. PICK h, n : h = <<reservations[i].account, reservations[i].asset>>
                    /\ n = reservations[i].amount
    OBVIOUS
  <2>2. available'[h] = available[h] + n /\ locked'[h] = locked[h] - n
    BY <1>2, <2>1, ReleaseMoves
  <2>3. /\ reservations[i].status = "reserved" /\ reservations'[i].status = "released"
        /\ reservations'[i].account = reservations[i].account
        /\ reservations'[i].asset = reservations[i].asset
        /\ reservations'[i].amount = reservations[i].amount
    BY <1>2, ReleaseMarks
  <2> QED
    BY <2>1, <2>2, <2>3 DEF ReleaseExactly
<1> QED
  BY <1>1, <1>2

LEMMA StepReleasesExactly ==
  ASSUME TypeOK, [Next]_vars, NEW i \in DOMAIN reservations
  PROVE  ReleaseExactly(i)
<1>1. ASSUME reservations' = reservations
      PROVE  ReleaseExactly(i)
  BY <1>1 DEF ReleaseExactly
<1>2. ASSUME NEW p \in Participants, NEW x \in Assets, NEW n \in Nat \ {0}, NEW k \in Keys,
             Reserve(p, x, n, k)
      PROVE  ReleaseExactly(i)
  BY <1>2, ReserveAppends DEF ReleaseExactly
<1>3. ASSUME NEW n \in Amounts, Bootstrap(n)
      PROVE  ReleaseExactly(i)
  BY <1>1, <1>3 DEF Bootstrap, orderVars
<1>4. ASSUME NEW p \in Participants, NEW n \in Amounts, NEW k \in Keys, Allocate(p, n, k)
      PROVE  ReleaseExactly(i)
  BY <1>1, <1>4 DEF Allocate, orderVars
<1>5. ASSUME NEW m \in Markets, CreateMarket(m)
      PROVE  ReleaseExactly(i)
  BY <1>1, <1>5 DEF CreateMarket, orderVars
<1>6. ASSUME NEW a \in Accounts, NEW m \in Markets, NEW q \in Quantities, NEW k \in Keys,
             Split(a, m, q, k) \/ Merge(a, m, q, k)
      PROVE  ReleaseExactly(i)
  BY <1>1, <1>6 DEF Split, Merge, orderVars
<1>7. ASSUME NEW p \in Participants, NEW q \in Quantities, NEW price \in 1 .. Scale,
             NEW k \in Keys, ReserveBuy(p, q, price, k)
      PROVE  ReleaseExactly(i)
  <2>1. q * price \in Nat \ {0}
    BY NumbersAssumption
  <2> QED
    BY <1>2, <1>7, <2>1, HoldingFacts DEF ReserveBuy
<1>8. ASSUME NEW p \in Participants, NEW m \in Markets, NEW o \in Outcomes,
             NEW q \in Quantities, NEW k \in Keys, ReserveSell(p, m, o, q, k)
      PROVE  ReleaseExactly(i)
  <2>1. q \in Nat \ {0} /\ <<m, o>> \in Assets
    BY NumbersAssumption, HoldingFacts
  <2> QED
    BY <1>2, <1>8, <2>1 DEF ReserveSell
<1>9. ASSUME NEW p \in Participants, NEW j \in DOMAIN reservations, NEW k \in Keys,
             Cancel(p, j, k)
      PROVE  ReleaseExactly(i)
  BY <1>9, ReleaseIsExact DEF Cancel
<1>10. ASSUME NEW j \in DOMAIN reservations, NEW k \in Keys, Reject(j, k)
       PROVE  ReleaseExactly(i)
  BY <1>10, ReleaseIsExact DEF Reject
<1>11. CASE UNCHANGED vars
  BY <1>1, <1>11 DEF vars, orderVars
<1> QED
  BY <1>3, <1>4, <1>5, <1>6, <1>7, <1>8, <1>9, <1>10, <1>11 DEF Next

(* A cancel and a reject of the same reservation can never both give back   *)
(* its amount, whatever comes between them.                                 *)
THEOREM ReleaseOnce == Spec => ReleaseOnceAndExactly
<1>1. IInv /\ [Next]_vars => \A i \in DOMAIN reservations : ReleaseExactly(i)
  BY StepReleasesExactly DEF IInv
<1> QED
  BY <1>1, Invariance, PTL DEF Spec, ReleaseOnceAndExactly

-----------------------------------------------------------------------------
(* Locks and ownership.                                                    *)

LEMMA ReserveKeepsOwnership ==
  ASSUME TypeOK, NEW p \in Participants, NEW x \in Assets, NEW n \in Nat \ {0},
         NEW k \in Keys, Reserve(p, x, n, k)
  PROVE  KeepsOwnership
<1>1. PICK g : g = <<p, x>>
  OBVIOUS
<1>2. /\ available'[g] = available[g] - n /\ locked'[g] = locked[g] + n
      /\ \A f \in Holdings \ {g} : available'[f] = available[f] /\ locked'[f] = locked[f]
  BY <1>1, ReserveMoves
<1>3. \A h \in Holdings : available[h] \in Nat /\ locked[h] \in Nat
  BY DEF TypeOK
<1>4. \A h \in Holdings : available'[h] + locked'[h] = available[h] + locked[h]
  BY <1>2, <1>3
<1> QED
  BY <1>4 DEF KeepsOwnership, Held

LEMMA ReleaseKeepsOwnership ==
  ASSUME TypeOK, NEW i \in DOMAIN reservations, NEW reason, NEW k \in Keys,
         Release(i, reason, k)
  PROVE  KeepsOwnership
<1>1. PICK g, n : g = <<reservations[i].account, reservations[i].asset>>
                  /\ n = reservations[i].amount
  OBVIOUS
<1>2. /\ n \in Nat /\ available'[g] = available[g] + n /\ locked'[g] = locked[g] - n
      /\ \A f \in Holdings \ {g} : available'[f] = available[f] /\ locked'[f] = locked[f]
  BY <1>1, ReleaseMoves
<1>3. \A h \in Holdings : available[h] \in Nat /\ locked[h] \in Nat
  BY DEF TypeOK
<1>4. \A h \in Holdings : available'[h] + locked'[h] = available[h] + locked[h]
  BY <1>2, <1>3
<1> QED
  BY <1>4 DEF KeepsOwnership, Held

LEMMA StepKeepsOwnership ==
  ASSUME TypeOK, [Next]_vars
  PROVE  KeepsOwnership
<1>1. ASSUME locked' = locked
      PROVE  KeepsOwnership
  BY <1>1 DEF KeepsOwnership
<1>2. ASSUME NEW n \in Amounts, Bootstrap(n)
      PROVE  KeepsOwnership
  BY <1>1, <1>2 DEF Bootstrap
<1>3. ASSUME NEW p \in Participants, NEW n \in Amounts, NEW k \in Keys, Allocate(p, n, k)
      PROVE  KeepsOwnership
  BY <1>1, <1>3 DEF Allocate
<1>4. ASSUME NEW m \in Markets, CreateMarket(m)
      PROVE  KeepsOwnership
  BY <1>1, <1>4 DEF CreateMarket
<1>5. ASSUME NEW a \in Accounts, NEW m \in Markets, NEW q \in Quantities, NEW k \in Keys,
             Split(a, m, q, k) \/ Merge(a, m, q, k)
      PROVE  KeepsOwnership
  BY <1>1, <1>5 DEF Split, Merge
<1>6. ASSUME NEW p \in Participants, NEW q \in Quantities, NEW price \in 1 .. Scale,
             NEW k \in Keys, ReserveBuy(p, q, price, k)
      PROVE  KeepsOwnership
  <2>1. q * price \in Nat \ {0}
    BY NumbersAssumption
  <2> QED
    BY <1>6, <2>1, HoldingFacts, ReserveKeepsOwnership DEF ReserveBuy
<1>7. ASSUME NEW p \in Participants, NEW m \in Markets, NEW o \in Outcomes,
             NEW q \in Quantities, NEW k \in Keys, ReserveSell(p, m, o, q, k)
      PROVE  KeepsOwnership
  <2>1. q \in Nat \ {0} /\ <<m, o>> \in Assets
    BY NumbersAssumption, HoldingFacts
  <2> QED
    BY <1>7, <2>1, ReserveKeepsOwnership DEF ReserveSell
<1>8. ASSUME NEW p \in Participants, NEW i \in DOMAIN reservations, NEW k \in Keys,
             Cancel(p, i, k) \/ Reject(i, k)
      PROVE  KeepsOwnership
  BY <1>8, ReleaseKeepsOwnership DEF Cancel, Reject
<1>9. ASSUME NEW i \in DOMAIN reservations, NEW k \in Keys, Reject(i, k)
      PROVE  KeepsOwnership
  BY <1>9, ReleaseKeepsOwnership DEF Reject
<1>10. CASE UNCHANGED vars
  BY <1>1, <1>10 DEF vars
<1> QED
  BY <1>2, <1>3, <1>4, <1>5, <1>6, <1>7, <1>8, <1>9, <1>10 DEF Next

(* No reserve, cancel or reject changes what anybody owns.                  *)
THEOREM Ownership == Spec => LocksKeepOwnership
<1>1. IInv /\ [Next]_vars => KeepsOwnership
  BY StepKeepsOwnership DEF IInv
<1> QED
  BY <1>1, Invariance, PTL DEF Spec, LocksKeepOwnership

-----------------------------------------------------------------------------
(* The events tell the whole story: each adds its amount to one sum, and    *)
(* the step that records it moves as much.                                  *)

LEMMA SetEventCounts ==
  ASSUME TypeOK, NEW type \in {"split", "merge"}, NEW a \in Accounts, NEW m \in Markets,
         NEW q \in Nat \ {0}, NEW k \in Keys,
         FreshSetKey(a, k), RecordSetEvent(type, a, m, q, k)
  PROVE  /\ \A t, b : /\ Moved(t, b) \in Nat
                      /\ Moved(t, b)' = Moved(t, b) + (IF t = type /\ b = a THEN q ELSE 0)
         /\ \A t, b, l : /\ MovedIn(t, b, l) \in Nat
                         /\ MovedIn(t, b, l)' =
                              MovedIn(t, b, l) + (IF t = type /\ b = a /\ l = m THEN q ELSE 0)
<1>1. PICK e : e = [account |-> a, key |-> k, type |-> type, market |-> m, quantity |-> q]
  OBVIOUS
<1>2. e.account = a /\ e.key = k /\ e.type = type /\ e.market = m /\ e.quantity = q
  BY <1>1
<1>3. setEvents' = setEvents \cup {e} /\ e \notin setEvents
  BY <1>1, <1>2 DEF RecordSetEvent, FreshSetKey
<1>4. IsFiniteSet(setEvents) /\ \A x \in setEvents \cup {e} : x.quantity \in Nat
  BY <1>2 DEF TypeOK, SetEvent
<1>5. ASSUME NEW t, NEW b
      PROVE  /\ Moved(t, b) \in Nat
             /\ Moved(t, b)' = Moved(t, b) + (IF t = type /\ b = a THEN q ELSE 0)
  <2> DEFINE worth(x) == IF x.type = t /\ x.account = b THEN x.quantity ELSE 0
             f == [x \in setEvents |-> worth(x)]
             g == [x \in setEvents \cup {e} |-> worth(x)]
  <2>1. \A x \in setEvents \cup {e} : worth(x) \in Nat
    BY <1>4
  <2>2. worth(e) = IF t = type /\ b = a THEN q ELSE 0
    BY <1>2
  <2>3. Moved(t, b) = Total(f) /\ Moved(t, b)' = Total(g)
    BY <1>3 DEF Moved
  <2> HIDE DEF worth
  <2>4. /\ f \in [setEvents -> Nat] /\ g \in [setEvents \cup {e} -> Nat]
        /\ g[e] = worth(e) /\ \A x \in setEvents : g[x] = f[x]
    BY <2>1
  <2> HIDE DEF f, g
  <2>5. Total(g) = Total(f) + g[e] /\ Total(f) \in Nat
    <3>1. f \in [setEvents -> Nat] /\ g \in [setEvents \cup {e} -> Nat]
      BY <2>4
    <3>2. \A x \in setEvents : g[x] = f[x]
      BY <2>4
    <3>3. IsFiniteSet(setEvents) /\ e \notin setEvents
      BY <1>3, <1>4
    <3>4. Total(g) = Total(f) + g[e]
      BY <3>1, <3>2, <3>3, TotalExtend
    <3>5. Total(f) \in Nat
      BY <3>1, <3>3, TotalType
    <3> QED
      BY <3>4, <3>5
  <2> QED
    BY <2>2, <2>3, <2>4, <2>5
<1>6. ASSUME NEW t, NEW b, NEW l
      PROVE  /\ MovedIn(t, b, l) \in Nat
             /\ MovedIn(t, b, l)' =
                  MovedIn(t, b, l) + (IF t = type /\ b = a /\ l = m THEN q ELSE 0)
  <2> DEFINE worth(x) == IF x.type = t /\ x.account = b /\ x.market = l THEN x.quantity ELSE 0
             f == [x \in setEvents |-> worth(x)]
             g == [x \in setEvents \cup {e} |-> worth(x)]
  <2>1. \A x \in setEvents \cup {e} : worth(x) \in Nat
    BY <1>4
  <2>2. worth(e) = IF t = type /\ b = a /\ l = m THEN q ELSE 0
    BY <1>2
  <2>3. MovedIn(t, b, l) = Total(f) /\ MovedIn(t, b, l)' = Total(g)
    BY <1>3 DEF MovedIn
  <2> HIDE DEF worth
  <2>4. /\ f \in [setEvents -> Nat] /\ g \in [setEvents \cup {e} -> Nat]
        /\ g[e] = worth(e) /\ \A x \in setEvents : g[x] = f[x]
    BY <2>1
  <2> HIDE DEF f, g
  <2>5. Total(g) = Total(f) + g[e] /\ Total(f) \in Nat
    <3>1. f \in [setEvents -> Nat] /\ g \in [setEvents \cup {e} -> Nat]
      BY <2>4
    <3>2. \A x \in setEvents : g[x] = f[x]
      BY <2>4
    <3>3. IsFiniteSet(setEvents) /\ e \notin setEvents
      BY <1>3, <1>4
    <3>4. Total(g) = Total(f) + g[e]
      BY <3>1, <3>2, <3>3, TotalExtend
    <3>5. Total(f) \in Nat
      BY <3>1, <3>3, TotalType
    <3> QED
      BY <3>4, <3>5
  <2> QED
    BY <2>2, <2>3, <2>4, <2>5
<1> QED
  BY <1>5, <1>6

LEMMA AllocationCounts ==
  ASSUME TypeOK, NEW p \in Participants, NEW n \in Amounts, NEW k \in Keys, Allocate(p, n, k)
  PROVE  \A b : /\ Allocated(b) \in Nat
                /\ Allocated(b)' = Allocated(b) + (IF b \in {p, Treasury} THEN n ELSE 0)
<1>1. PICK e : e = [key |-> k, participant |-> p, amount |-> n]
  OBVIOUS
<1>2. e.key = k /\ e.participant = p /\ e.amount = n /\ n \in Nat
  BY <1>1, NumbersAssumption
<1>3. allocationEvents' = allocationEvents \cup {e} /\ e \notin allocationEvents
  BY <1>1, <1>2 DEF Allocate
<1>4. IsFiniteSet(allocationEvents) /\ \A x \in allocationEvents \cup {e} : x.amount \in Nat
  BY <1>2 DEF TypeOK, AllocationEvent
<1> SUFFICES ASSUME NEW b
             PROVE  /\ Allocated(b) \in Nat
                    /\ Allocated(b)' = Allocated(b) + (IF b \in {p, Treasury} THEN n ELSE 0)
  OBVIOUS
<1> DEFINE worth(x) == IF b \in {x.participant, Treasury} THEN x.amount ELSE 0
           f == [x \in allocationEvents |-> worth(x)]
           g == [x \in allocationEvents \cup {e} |-> worth(x)]
<1>5. \A x \in allocationEvents \cup {e} : worth(x) \in Nat
  BY <1>4
<1>6. worth(e) = IF b \in {p, Treasury} THEN n ELSE 0
  BY <1>2
<1>7. Allocated(b) = Total(f) /\ Allocated(b)' = Total(g)
  BY <1>3 DEF Allocated
<1> HIDE DEF worth
<1>8. /\ f \in [allocationEvents -> Nat] /\ g \in [allocationEvents \cup {e} -> Nat]
      /\ g[e] = worth(e) /\ \A x \in allocationEvents : g[x] = f[x]
  BY <1>5
<1> HIDE DEF f, g
<1>9. Total(g) = Total(f) + g[e] /\ Total(f) \in Nat
  <2>1. f \in [allocationEvents -> Nat] /\ g \in [allocationEvents \cup {e} -> Nat]
    BY <1>8
  <2>2. \A x \in allocationEvents : g[x] = f[x]
    BY <1>8
  <2>3. IsFiniteSet(allocationEvents) /\ e \notin allocationEvents
    BY <1>3, <1>4
  <2>4. Total(g) = Total(f) + g[e]
    BY <2>1, <2>2, <2>3, TotalExtend
  <2>5. Total(f) \in Nat
    BY <2>1, <2>3, TotalType
  <2> QED
    BY <2>4, <2>5
<1> QED
  BY <1>6, <1>7, <1>8, <1>9

LEMMA HistoryTyped ==
  ASSUME TypeOK
  PROVE  /\ \A t, b : Moved(t, b) \in Nat
         /\ \A t, b, l : MovedIn(t, b, l) \in Nat
         /\ \A b : Allocated(b) \in Nat
         /\ \A h \in Holdings : Held(h) \in Nat
         /\ issued \in Nat
<1>1. /\ IsFiniteSet(setEvents) /\ \A e \in setEvents : e.quantity \in Nat
      /\ IsFiniteSet(allocationEvents) /\ \A e \in allocationEvents : e.amount \in Nat
  BY DEF TypeOK, SetEvent, AllocationEvent
<1>2. ASSUME NEW t, NEW b PROVE Moved(t, b) \in Nat
  BY <1>1, TotalType DEF Moved
<1>3. ASSUME NEW t, NEW b, NEW l PROVE MovedIn(t, b, l) \in Nat
  BY <1>1, TotalType DEF MovedIn
<1>4. ASSUME NEW b PROVE Allocated(b) \in Nat
  BY <1>1, TotalType DEF Allocated
<1>5. \A h \in Holdings : Held(h) \in Nat
  BY DEF TypeOK, Held
<1>6. issued \in Nat
  BY NumbersAssumption DEF TypeOK
<1> QED
  BY <1>2, <1>3, <1>4, <1>5, <1>6

(* A step that records nothing and moves nothing between owners.            *)
LEMMA HistoryStays ==
  ASSUME HistoryExplainsHoldings, UNCHANGED <<issued, setEvents, allocationEvents>>,
         \A h \in Holdings : Held(h)' = Held(h)
  PROVE  HistoryExplainsHoldings'
<1>1. /\ \A t, b : Moved(t, b)' = Moved(t, b)
      /\ \A t, b, l : MovedIn(t, b, l)' = MovedIn(t, b, l)
      /\ \A b : Allocated(b)' = Allocated(b)
  BY DEF Moved, MovedIn, Allocated
<1>2. ASSUME NEW a \in Accounts PROVE PointsExplained(a)'
  <2>1. Held(<<a, Point>>)' = Held(<<a, Point>>)
    BY HoldingFacts
  <2> QED
    BY <1>1, <2>1 DEF HistoryExplainsHoldings, PointsExplained
<1>3. ASSUME NEW a \in Accounts, NEW m \in Markets, NEW o \in Outcomes
      PROVE  SharesExplained(a, m, o)'
  <2>1. Held(<<a, <<m, o>>>>)' = Held(<<a, <<m, o>>>>)
    BY HoldingFacts
  <2> QED
    BY <1>1, <2>1 DEF HistoryExplainsHoldings, SharesExplained
<1> QED
  BY <1>2, <1>3 DEF HistoryExplainsHoldings

LEMMA BootstrapExplained ==
  ASSUME TypeOK, HistoryExplainsHoldings, NEW n \in Amounts, Bootstrap(n)
  PROVE  HistoryExplainsHoldings'
<1>1. PICK t : t = <<Treasury, Point>>
  OBVIOUS
<1>2. /\ t \in Holdings /\ n \in Nat /\ available'[t] = available[t] + n
      /\ \A h \in Holdings \ {t} : available'[h] = available[h]
  BY <1>1, BootstrapMoves
<1>3. locked' = locked /\ issued' = issued + n /\ UNCHANGED <<setEvents, allocationEvents>>
  BY DEF Bootstrap
<1>4. \A h \in Holdings : available[h] \in Nat /\ locked[h] \in Nat
  BY DEF TypeOK
<1>5. Held(t)' = Held(t) + n /\ \A h \in Holdings \ {t} : Held(h)' = Held(h)
  BY <1>2, <1>3, <1>4 DEF Held
<1>6. /\ \A c, b : Moved(c, b)' = Moved(c, b)
      /\ \A c, b, l : MovedIn(c, b, l)' = MovedIn(c, b, l)
      /\ \A b : Allocated(b)' = Allocated(b)
  BY <1>3 DEF Moved, MovedIn, Allocated
<1>7. ASSUME NEW a \in Accounts PROVE PointsExplained(a)'
  <2>1. PointsExplained(a)
    BY DEF HistoryExplainsHoldings
  <2>2. /\ Moved("split", a) * Scale \in Nat /\ Moved("merge", a) * Scale \in Nat
        /\ Allocated(a) \in Nat /\ Held(<<a, Point>>) \in Nat /\ issued \in Nat
    BY HistoryTyped, HoldingFacts, NumbersAssumption
  <2>3. CASE a = Treasury
    BY <1>1, <1>2, <1>3, <1>5, <1>6, <2>1, <2>2, <2>3 DEF PointsExplained
  <2>4. CASE a # Treasury
    <3>1. Held(<<a, Point>>)' = Held(<<a, Point>>)
      BY <1>1, <1>5, <2>4, HoldingFacts
    <3> QED
      BY <1>6, <2>1, <2>4, <3>1 DEF PointsExplained
  <2> QED
    BY <2>3, <2>4
<1>8. ASSUME NEW a \in Accounts, NEW m \in Markets, NEW o \in Outcomes
      PROVE  SharesExplained(a, m, o)'
  <2>1. Held(<<a, <<m, o>>>>)' = Held(<<a, <<m, o>>>>)
    BY <1>1, <1>5, HoldingFacts
  <2> QED
    BY <1>6, <2>1 DEF HistoryExplainsHoldings, SharesExplained
<1> QED
  BY <1>7, <1>8 DEF HistoryExplainsHoldings

LEMMA AllocateExplained ==
  ASSUME TypeOK, HistoryExplainsHoldings, NEW p \in Participants, NEW n \in Amounts, NEW k \in Keys,
         Allocate(p, n, k)
  PROVE  HistoryExplainsHoldings'
<1>1. PICK t, d : t = <<Treasury, Point>> /\ d = <<p, Point>>
  OBVIOUS
<1>2. /\ t \in Holdings /\ d \in Holdings /\ t # d /\ n \in Nat /\ available[t] >= n
      /\ available'[t] = available[t] - n /\ available'[d] = available[d] + n
      /\ \A h \in Holdings \ {t, d} : available'[h] = available[h]
  BY <1>1, AllocateMoves
<1>3. locked' = locked /\ issued' = issued /\ setEvents' = setEvents
  BY DEF Allocate, supplyVars
<1>4. \A h \in Holdings : available[h] \in Nat /\ locked[h] \in Nat
  BY DEF TypeOK
<1>5. /\ Held(t)' + n = Held(t) /\ Held(d)' = Held(d) + n /\ Held(t)' \in Nat
      /\ \A h \in Holdings \ {t, d} : Held(h)' = Held(h)
  BY <1>2, <1>3, <1>4 DEF Held
<1>6. /\ \A c, b : Moved(c, b)' = Moved(c, b)
      /\ \A c, b, l : MovedIn(c, b, l)' = MovedIn(c, b, l)
  BY <1>3 DEF Moved, MovedIn
<1>7. ASSUME NEW a \in Accounts PROVE PointsExplained(a)'
  <2>1. PointsExplained(a)
    BY DEF HistoryExplainsHoldings
  <2>2. /\ Moved("split", a) * Scale \in Nat /\ Moved("merge", a) * Scale \in Nat
        /\ Allocated(a) \in Nat /\ Held(<<a, Point>>) \in Nat /\ issued \in Nat
    BY HistoryTyped, HoldingFacts, NumbersAssumption
  <2>3. Allocated(a)' = Allocated(a) + (IF a \in {p, Treasury} THEN n ELSE 0)
    BY AllocationCounts
  <2>4. CASE a = Treasury
    BY <1>1, <1>2, <1>3, <1>5, <1>6, <2>1, <2>2, <2>3, <2>4 DEF PointsExplained
  <2>5. CASE a # Treasury /\ a = p
    BY <1>1, <1>2, <1>5, <1>6, <2>1, <2>2, <2>3, <2>5 DEF PointsExplained
  <2>6. CASE a # Treasury /\ a # p
    <3>1. Held(<<a, Point>>)' = Held(<<a, Point>>)
      BY <1>1, <1>5, <2>6, HoldingFacts
    <3>2. Allocated(a)' = Allocated(a)
      BY <2>2, <2>3, <2>6
    <3> QED
      BY <1>6, <2>1, <2>6, <3>1, <3>2 DEF PointsExplained
  <2> QED
    BY <2>4, <2>5, <2>6
<1>8. ASSUME NEW a \in Accounts, NEW m \in Markets, NEW o \in Outcomes
      PROVE  SharesExplained(a, m, o)'
  <2>1. Held(<<a, <<m, o>>>>)' = Held(<<a, <<m, o>>>>)
    BY <1>1, <1>5, HoldingFacts
  <2> QED
    BY <1>6, <2>1 DEF HistoryExplainsHoldings, SharesExplained
<1> QED
  BY <1>7, <1>8 DEF HistoryExplainsHoldings

(* A split moves points into shares and a merge shares into points: the     *)
(* same sums, with the roles exchanged.                                     *)
LEMMA SetsExplained ==
  ASSUME TypeOK, TypeOK', HistoryExplainsHoldings, NEW a \in Accounts, NEW m \in Markets,
         NEW q \in Nat \ {0}, NEW k \in Keys, NEW type \in {"split", "merge"},
         FreshSetKey(a, k), RecordSetEvent(type, a, m, q, k),
         UNCHANGED <<issued, allocationEvents>>,
         IF type = "split" THEN Held(<<a, Point>>)' + q * Scale = Held(<<a, Point>>)
         ELSE Held(<<a, Point>>)' = Held(<<a, Point>>) + q * Scale,
         \A o \in Outcomes : IF type = "split" THEN Held(<<a, <<m, o>>>>)' = Held(<<a, <<m, o>>>>) + q
                             ELSE Held(<<a, <<m, o>>>>)' + q = Held(<<a, <<m, o>>>>),
         \A h \in Holdings : h \notin {<<a, Point>>, <<a, <<m, "YES">>>>, <<a, <<m, "NO">>>>} =>
           Held(h)' = Held(h)
  PROVE  HistoryExplainsHoldings'
<1>1. /\ \A t, b : Moved(t, b)' = Moved(t, b) + (IF t = type /\ b = a THEN q ELSE 0)
      /\ \A t, b, l : MovedIn(t, b, l)' =
           MovedIn(t, b, l) + (IF t = type /\ b = a /\ l = m THEN q ELSE 0)
  BY SetEventCounts
<1>2. /\ \A t, b : Moved(t, b) \in Nat
      /\ \A t, b, l : MovedIn(t, b, l) \in Nat
      /\ \A b : Allocated(b) \in Nat
      /\ \A h \in Holdings : Held(h) \in Nat
  BY HistoryTyped
<1>3. \A b : Allocated(b)' = Allocated(b)
  BY DEF Allocated
<1>4. \A h \in Holdings : Held(h)' \in Nat
  BY DEF TypeOK, Held
<1>5. ASSUME NEW b \in Accounts PROVE PointsExplained(b)'
  <2> DEFINE split == Moved("split", b) * Scale
             merge == Moved("merge", b) * Scale
             v == q * Scale
  <2>1. PointsExplained(b)
    BY DEF HistoryExplainsHoldings
  <2>2. CASE b # a
    <3>1. Held(<<b, Point>>)' = Held(<<b, Point>>)
      BY <2>2, HoldingFacts
    <3>2. Moved("split", b)' = Moved("split", b) /\ Moved("merge", b)' = Moved("merge", b)
      BY <1>1, <1>2, <2>2
    <3> QED
      BY <1>3, <2>1, <3>1, <3>2 DEF PointsExplained
  <2>3. CASE b = a
    <3>1. split \in Nat /\ merge \in Nat /\ v \in Nat /\ issued \in Nat
      BY <1>2, NumbersAssumption, HistoryTyped
    <3>2. /\ type = "split" => Moved("split", b)' = Moved("split", b) + q /\ Moved("merge", b)' = Moved("merge", b)
          /\ type = "merge" => Moved("merge", b)' = Moved("merge", b) + q /\ Moved("split", b)' = Moved("split", b)
      BY <1>1, <1>2, <2>3
    <3>3. /\ type = "split" => Moved("split", b)' * Scale = split + v /\ Moved("merge", b)' * Scale = merge
          /\ type = "merge" => Moved("merge", b)' * Scale = merge + v /\ Moved("split", b)' * Scale = split
      BY <1>2, <3>2, ScaleDistributes
    <3>4. Held(<<b, Point>>) \in Nat /\ Held(<<b, Point>>)' \in Nat /\ Allocated(b) \in Nat
      BY <1>2, <1>4, HoldingFacts
    <3>5. Held(<<b, Point>>) + split + (IF b = Treasury THEN Allocated(b) ELSE 0)
            = merge + (IF b = Treasury THEN issued ELSE Allocated(b))
      BY <2>1 DEF PointsExplained
    <3>6. /\ type = "split" => Held(<<b, Point>>)' + v = Held(<<b, Point>>)
          /\ type = "merge" => Held(<<b, Point>>)' = Held(<<b, Point>>) + v
      BY <2>3
    <3> HIDE DEF split, merge, v
    <3>7. Held(<<b, Point>>)' + Moved("split", b)' * Scale + (IF b = Treasury THEN Allocated(b) ELSE 0)
            = Moved("merge", b)' * Scale + (IF b = Treasury THEN issued ELSE Allocated(b))
      <4>1. CASE type = "split"
        BY <3>1, <3>3, <3>4, <3>5, <3>6, <4>1
      <4>2. CASE type = "merge"
        BY <3>1, <3>3, <3>4, <3>5, <3>6, <4>2
      <4> QED
        BY <4>1, <4>2
    <3> QED
      BY <1>3, <3>7 DEF PointsExplained
  <2> QED
    BY <2>2, <2>3
<1>6. ASSUME NEW b \in Accounts, NEW l \in Markets, NEW o \in Outcomes
      PROVE  SharesExplained(b, l, o)'
  <2>1. SharesExplained(b, l, o)
    BY DEF HistoryExplainsHoldings
  <2>2. CASE b # a \/ l # m
    <3>1. Held(<<b, <<l, o>>>>)' = Held(<<b, <<l, o>>>>)
      BY <2>2, HoldingFacts
    <3>2. MovedIn("split", b, l)' = MovedIn("split", b, l) /\ MovedIn("merge", b, l)' = MovedIn("merge", b, l)
      BY <1>1, <1>2, <2>2
    <3> QED
      BY <2>1, <3>1, <3>2 DEF SharesExplained
  <2>3. CASE b = a /\ l = m
    <3>1. /\ type = "split" => MovedIn("split", b, l)' = MovedIn("split", b, l) + q
                               /\ MovedIn("merge", b, l)' = MovedIn("merge", b, l)
          /\ type = "merge" => MovedIn("merge", b, l)' = MovedIn("merge", b, l) + q
                               /\ MovedIn("split", b, l)' = MovedIn("split", b, l)
      BY <1>1, <1>2, <2>3
    <3>2. Held(<<b, <<l, o>>>>) \in Nat /\ Held(<<b, <<l, o>>>>)' \in Nat
      BY <1>2, <1>4, HoldingFacts
    <3>3. /\ type = "split" => Held(<<b, <<l, o>>>>)' = Held(<<b, <<l, o>>>>) + q
          /\ type = "merge" => Held(<<b, <<l, o>>>>)' + q = Held(<<b, <<l, o>>>>)
      BY <2>3
    <3> QED
      BY <1>2, <2>1, <3>1, <3>2, <3>3 DEF SharesExplained
  <2> QED
    BY <2>2, <2>3
<1> QED
  BY <1>5, <1>6 DEF HistoryExplainsHoldings

LEMMA SplitOrMergeExplained ==
  ASSUME TypeOK, TypeOK', ReserveBacksSets, HistoryExplainsHoldings,
         NEW a \in Accounts, NEW m \in Markets, NEW q \in Quantities, NEW k \in Keys,
         Split(a, m, q, k) \/ Merge(a, m, q, k)
  PROVE  HistoryExplainsHoldings'
<1>1. PICK c, y, z : c = <<a, Point>> /\ y = <<a, <<m, "YES">>>> /\ z = <<a, <<m, "NO">>>>
  OBVIOUS
<1>2. c \in Holdings /\ y \in Holdings /\ z \in Holdings
  BY <1>1, SetHoldings
<1>3. \A h \in Holdings : available[h] \in Nat /\ locked[h] \in Nat /\ available'[h] \in Nat
  BY DEF TypeOK
<1>4. locked' = locked /\ UNCHANGED <<issued, allocationEvents>> /\ FreshSetKey(a, k)
  BY DEF Split, Merge, supplyVars
<1>5. CASE Split(a, m, q, k)
  <2>1. /\ q \in Nat \ {0} /\ q * Scale \in Nat
        /\ available[c] >= q * Scale /\ available'[c] = available[c] - q * Scale
        /\ available'[y] = available[y] + q /\ available'[z] = available[z] + q
        /\ \A h \in Holdings \ {c, y, z} : available'[h] = available[h]
    BY <1>1, <1>5, SplitMoves
  <2>2. /\ Held(c)' + q * Scale = Held(c)
        /\ Held(y)' = Held(y) + q /\ Held(z)' = Held(z) + q
        /\ \A h \in Holdings \ {c, y, z} : Held(h)' = Held(h)
    BY <1>2, <1>3, <1>4, <2>1 DEF Held
  <2>3. RecordSetEvent("split", a, m, q, k)
    BY <1>5 DEF Split
  <2> QED
    BY <1>1, <1>4, <2>1, <2>2, <2>3, SetsExplained DEF Outcomes
<1>6. CASE Merge(a, m, q, k)
  <2>1. /\ q \in Nat \ {0} /\ q * Scale \in Nat
        /\ available'[c] = available[c] + q * Scale
        /\ available[y] >= q /\ available[z] >= q
        /\ available'[y] = available[y] - q /\ available'[z] = available[z] - q
        /\ \A h \in Holdings \ {c, y, z} : available'[h] = available[h]
    BY <1>1, <1>6, MergeMoves
  <2>2. /\ Held(c)' = Held(c) + q * Scale
        /\ Held(y)' + q = Held(y) /\ Held(z)' + q = Held(z)
        /\ \A h \in Holdings \ {c, y, z} : Held(h)' = Held(h)
    <3>1. PICK v : v = q * Scale
      OBVIOUS
    <3>2. locked'[c] = locked[c] /\ locked'[y] = locked[y] /\ locked'[z] = locked[z]
      BY <1>4
    <3>3. Held(c)' = Held(c) + v
      BY <1>2, <1>3, <2>1, <3>1, <3>2 DEF Held
    <3>4. Held(y)' + q = Held(y)
      BY <1>2, <1>3, <2>1, <3>2 DEF Held
    <3>5. Held(z)' + q = Held(z)
      BY <1>2, <1>3, <2>1, <3>2 DEF Held
    <3>6. \A h \in Holdings \ {c, y, z} : Held(h)' = Held(h)
      BY <1>4, <2>1 DEF Held
    <3> QED
      BY <3>1, <3>3, <3>4, <3>5, <3>6
  <2>3. RecordSetEvent("merge", a, m, q, k)
    BY <1>6 DEF Merge
  <2> QED
    BY <1>1, <1>4, <2>1, <2>2, <2>3, SetsExplained DEF Outcomes
<1> QED
  BY <1>5, <1>6

LEMMA StepExplained ==
  ASSUME TypeOK, TypeOK', ReserveBacksSets, HistoryExplainsHoldings, [Next]_vars
  PROVE  HistoryExplainsHoldings'
<1>1. \A h \in Holdings : available[h] \in Nat /\ locked[h] \in Nat
  BY DEF TypeOK
<1>2. ASSUME NEW m \in Markets, CreateMarket(m)
      PROVE  HistoryExplainsHoldings'
  BY <1>2, HistoryStays DEF CreateMarket, supplyVars, Held
<1>3. ASSUME NEW p \in Participants, NEW x \in Assets, NEW n \in Nat \ {0}, NEW k \in Keys,
             Reserve(p, x, n, k)
      PROVE  HistoryExplainsHoldings'
  <2>1. PICK g : g = <<p, x>>
    OBVIOUS
  <2>2. /\ available[g] >= n /\ available'[g] = available[g] - n /\ locked'[g] = locked[g] + n
        /\ g \in Holdings
        /\ \A f \in Holdings \ {g} : available'[f] = available[f] /\ locked'[f] = locked[f]
    BY <1>3, <2>1, ReserveMoves
  <2>3. \A h \in Holdings : Held(h)' = Held(h)
    BY <1>1, <2>2 DEF Held
  <2> QED
    BY <1>3, <2>3, HistoryStays DEF Reserve, supplyVars
<1>4. ASSUME NEW i \in DOMAIN reservations, NEW reason, NEW k \in Keys, Release(i, reason, k)
      PROVE  HistoryExplainsHoldings'
  <2>1. PICK g, n : g = <<reservations[i].account, reservations[i].asset>>
                    /\ n = reservations[i].amount
    OBVIOUS
  <2>2. /\ n \in Nat /\ locked[g] >= n /\ available'[g] = available[g] + n /\ locked'[g] = locked[g] - n
        /\ g \in Holdings
        /\ \A f \in Holdings \ {g} : available'[f] = available[f] /\ locked'[f] = locked[f]
    BY <1>4, <2>1, ReleaseMoves
  <2>3. \A h \in Holdings : Held(h)' = Held(h)
    BY <1>1, <2>2 DEF Held
  <2> QED
    BY <1>4, <2>3, HistoryStays DEF Release, supplyVars
<1>5. ASSUME NEW p \in Participants, NEW q \in Quantities, NEW price \in 1 .. Scale,
             NEW k \in Keys, ReserveBuy(p, q, price, k)
      PROVE  HistoryExplainsHoldings'
  <2>1. q * price \in Nat \ {0}
    BY NumbersAssumption
  <2> QED
    BY <1>3, <1>5, <2>1, HoldingFacts DEF ReserveBuy
<1>6. ASSUME NEW p \in Participants, NEW m \in Markets, NEW o \in Outcomes,
             NEW q \in Quantities, NEW k \in Keys, ReserveSell(p, m, o, q, k)
      PROVE  HistoryExplainsHoldings'
  <2>1. q \in Nat \ {0} /\ <<m, o>> \in Assets
    BY NumbersAssumption, HoldingFacts
  <2> QED
    BY <1>3, <1>6, <2>1 DEF ReserveSell
<1>7. CASE UNCHANGED vars
  BY <1>7, HistoryStays DEF vars, supplyVars, Held
<1> QED
  BY <1>2, <1>4, <1>5, <1>6, <1>7, BootstrapExplained, AllocateExplained, SplitOrMergeExplained
  DEF Next, Cancel, Reject

(* What an account owns is what its events say: no allocation, split or     *)
(* merge moved points or shares twice, whatever was retried, and nothing    *)
(* else moved any (point_allocation_events, reserve_events).                *)
THEOREM HistoryIsComplete == Spec => []HistoryExplainsHoldings
<1>1. Init => HistoryExplainsHoldings
  <2> SUFFICES ASSUME Init
               PROVE  HistoryExplainsHoldings
    OBVIOUS
  <2>1. Scale \in Nat
    BY NumbersAssumption
  <2>2. /\ \A t, b : Moved(t, b) = 0
        /\ \A t, b, l : MovedIn(t, b, l) = 0
        /\ \A b : Allocated(b) = 0
    BY TotalZero DEF Init, Moved, MovedIn, Allocated
  <2>3. \A h \in Holdings : Held(h) = 0
    BY DEF Init, Held
  <2>4. ASSUME NEW a \in Accounts PROVE PointsExplained(a)
    BY <2>1, <2>2, <2>3, HoldingFacts DEF PointsExplained, Init
  <2>5. ASSUME NEW a \in Accounts, NEW m \in Markets, NEW o \in Outcomes PROVE SharesExplained(a, m, o)
    BY <2>2, <2>3, HoldingFacts DEF SharesExplained
  <2> QED
    BY <2>4, <2>5 DEF HistoryExplainsHoldings
<1>2. IInv /\ IInv' /\ HistoryExplainsHoldings /\ [Next]_vars => HistoryExplainsHoldings'
  BY StepExplained, BackedParts DEF IInv
<1> QED
  BY <1>1, <1>2, Invariance, PTL DEF Spec

-----------------------------------------------------------------------------
(* The refinement: the bank sees what an account has, available or locked,  *)
(* and nothing of keys, events, reserves and reservations.                  *)

Owned == [h \in Holdings |-> available[h] + locked[h]]

LEMMA OwnedIsHeld ==
  /\ [h \in Holdings |-> Held(h)] = Owned
  /\ [h \in Holdings |-> Held(h)]' = Owned'
BY DEF Owned, Held

LEMMA OwnedType ==
  ASSUME TypeOK
  PROVE  Owned \in [Holdings -> Nat] /\ \A h \in Holdings : Owned[h] = available[h] + locked[h]
BY DEF TypeOK, Owned

LEMMA OwnedTypeNext ==
  ASSUME TypeOK'
  PROVE  Owned' \in [Holdings -> Nat]
         /\ \A h \in Holdings : Owned'[h] = available'[h] + locked'[h]
BY DEF TypeOK, Owned

LEMMA TwoDiffer ==
  ASSUME NEW S, NEW f \in [S -> Nat], NEW g \in [S -> Nat],
         NEW a \in S, NEW b \in S, a # b,
         \A x \in S \ {a, b} : g[x] = f[x]
  PROVE  g = [f EXCEPT ![a] = g[a], ![b] = g[b]]
OBVIOUS

LEMMA ThreeDiffer ==
  ASSUME NEW S, NEW f \in [S -> Nat], NEW g \in [S -> Nat],
         NEW a \in S, NEW b \in S, NEW c \in S, a # b, a # c, b # c,
         \A x \in S \ {a, b, c} : g[x] = f[x]
  PROVE  g = [f EXCEPT ![a] = g[a], ![b] = g[b], ![c] = g[c]]
OBVIOUS

(* Nothing is issued before the bootstrap, so it may issue but once.        *)
Unissued == ~bootstrapped => issued = 0

LEMMA StepKeepsUnissued ==
  ASSUME Unissued, [Next]_vars
  PROVE  Unissued'
<1>1. ASSUME NEW n \in Amounts, Bootstrap(n)
      PROVE  bootstrapped' = TRUE
  BY <1>1 DEF Bootstrap
<1>2. ASSUME NEW p \in Participants, NEW n \in Amounts, NEW k \in Keys, Allocate(p, n, k)
      PROVE  UNCHANGED supplyVars
  BY <1>2 DEF Allocate
<1>3. ASSUME NEW m \in Markets, CreateMarket(m)
      PROVE  UNCHANGED supplyVars
  BY <1>3 DEF CreateMarket
<1>4. ASSUME NEW a \in Accounts, NEW m \in Markets, NEW q \in Quantities, NEW k \in Keys,
             Split(a, m, q, k) \/ Merge(a, m, q, k)
      PROVE  UNCHANGED supplyVars
  BY <1>4 DEF Split, Merge
<1>5. ASSUME NEW p \in Participants, NEW q \in Quantities, NEW price \in 1 .. Scale,
             NEW k \in Keys, ReserveBuy(p, q, price, k)
      PROVE  UNCHANGED supplyVars
  BY <1>5 DEF ReserveBuy, Reserve
<1>6. ASSUME NEW p \in Participants, NEW m \in Markets, NEW o \in Outcomes,
             NEW q \in Quantities, NEW k \in Keys, ReserveSell(p, m, o, q, k)
      PROVE  UNCHANGED supplyVars
  BY <1>6 DEF ReserveSell, Reserve
<1>7. ASSUME NEW p \in Participants, NEW i \in DOMAIN reservations, NEW k \in Keys,
             Cancel(p, i, k)
      PROVE  UNCHANGED supplyVars
  BY <1>7 DEF Cancel, Release
<1>8. ASSUME NEW i \in DOMAIN reservations, NEW k \in Keys, Reject(i, k)
      PROVE  UNCHANGED supplyVars
  BY <1>8 DEF Reject, Release
<1>9. CASE UNCHANGED vars
  BY <1>9 DEF vars, Unissued, supplyVars
<1>10. bootstrapped' = TRUE \/ UNCHANGED supplyVars \/ Unissued'
  BY <1>1, <1>2, <1>3, <1>4, <1>5, <1>6, <1>7, <1>8, <1>9 DEF Next
<1> QED
  BY <1>10 DEF Unissued, supplyVars

LEMMA BootstrapIssues ==
  ASSUME IInv, IInv', Unissued, NEW n \in Amounts, Bootstrap(n)
  PROVE  Bank!Issue
<1>1. TypeOK /\ TypeOK' /\ PointConservation
  BY DEF IInv
<1>2. PICK t : t = <<Treasury, Point>>
  OBVIOUS
<1>3. /\ t \in Holdings /\ n \in Nat \ {0}
      /\ available'[t] = available[t] + n
      /\ \A h \in Holdings \ {t} : available'[h] = available[h]
  BY <1>1, <1>2, BootstrapMoves
<1>4. issued = 0 /\ issued' = n /\ locked' = locked
  BY <1>3 DEF Bootstrap, Unissued
<1>5. Owned \in [Holdings -> Nat] /\ Owned' \in [Holdings -> Nat]
  BY <1>1, OwnedType, OwnedTypeNext
<1>6. Owned[t] = 0
  <2>1. Owned[t] <= Total(HeldBy(Point))
    BY <1>1, <1>2, HoldingFacts, HoldingWithinTotal, OwnedType DEF Held
  <2>2. Total(HeldBy(Point)) \in Nat /\ Total(reserve) \in Nat
    <3>1. HeldBy(Point) \in [Accounts -> Nat]
      BY <1>1, HoldingFacts, HeldByFacts
    <3> QED
      BY <1>1, <3>1, AccountsFinite, MarketsAssumption, TotalType DEF TypeOK
  <2>3. Total(HeldBy(Point)) = 0
    BY <1>1, <1>4, <2>2 DEF PointConservation
  <2> QED
    BY <1>3, <1>5, <2>1, <2>3
<1>7. Owned'[t] = n
  <2>1. available[t] \in Nat /\ locked[t] \in Nat
    BY <1>1, <1>3 DEF TypeOK
  <2> QED
    BY <1>1, <1>3, <1>4, <1>6, <2>1, OwnedType, OwnedTypeNext
<1>8. \A h \in Holdings \ {t} : Owned'[h] = Owned[h]
  BY <1>1, <1>3, <1>4, OwnedType, OwnedTypeNext
<1>9. Owned' = [Owned EXCEPT ![t] = issued']
  BY <1>3, <1>4, <1>5, <1>7, <1>8
<1> QED
  BY <1>2, <1>3, <1>4, <1>9, OwnedIsHeld DEF Bank!Issue

LEMMA AllocateGives ==
  ASSUME TypeOK, TypeOK', NEW p \in Participants, NEW n \in Amounts, NEW k \in Keys,
         Allocate(p, n, k)
  PROVE  Bank!Give(p)
<1>1. PICK t, d : t = <<Treasury, Point>> /\ d = <<p, Point>>
  OBVIOUS
<1>2. /\ t \in Holdings /\ d \in Holdings /\ t # d
      /\ n \in Nat \ {0} /\ available[t] >= n
      /\ available'[t] = available[t] - n /\ available'[d] = available[d] + n
      /\ \A h \in Holdings \ {t, d} : available'[h] = available[h]
  BY <1>1, AllocateMoves
<1>3. locked' = locked /\ UNCHANGED issued
  BY DEF Allocate, supplyVars
<1>4. Owned \in [Holdings -> Nat] /\ Owned' \in [Holdings -> Nat]
  BY OwnedType, OwnedTypeNext
<1>5. \A h \in Holdings : available[h] \in Nat /\ locked[h] \in Nat
  BY DEF TypeOK
<1>6. /\ Owned'[t] = Owned[t] - n /\ Owned'[d] = Owned[d] + n
      /\ n \in 1 .. Owned[t]
      /\ \A h \in Holdings \ {t, d} : Owned'[h] = Owned[h]
  BY <1>2, <1>3, <1>5, OwnedType, OwnedTypeNext
<1>7. Owned' = [Owned EXCEPT ![t] = Owned[t] - n, ![d] = Owned[d] + n]
  BY <1>2, <1>4, <1>6, TwoDiffer
<1> QED
  BY <1>1, <1>3, <1>6, <1>7, OwnedIsHeld DEF Bank!Give

LEMMA SplitSplits ==
  ASSUME TypeOK, TypeOK', ReserveBacksSets, NEW a \in Accounts, NEW m \in Markets,
         NEW q \in Quantities, NEW k \in Keys, Split(a, m, q, k)
  PROVE  Bank!Split(a, m)
<1> DEFINE v == q * Scale
<1>1. PICK c, y, z : c = <<a, Point>> /\ y = <<a, <<m, "YES">>>> /\ z = <<a, <<m, "NO">>>>
  OBVIOUS
<1>2. /\ q \in Nat \ {0} /\ v \in Nat \ {0} /\ available[c] >= v
      /\ available'[c] = available[c] - v
      /\ available'[y] = available[y] + q /\ available'[z] = available[z] + q
      /\ \A h \in Holdings \ {c, y, z} : available'[h] = available[h]
  BY <1>1, SplitMoves
<1>3. /\ c \in Holdings /\ y \in Holdings /\ z \in Holdings
      /\ c # y /\ c # z /\ y # z
  BY <1>1, SetHoldings
<1>4. v >= q
  BY <1>2, NumbersAssumption
<1>5. locked' = locked /\ UNCHANGED issued
  BY DEF Split, supplyVars
<1>6. Owned \in [Holdings -> Nat] /\ Owned' \in [Holdings -> Nat]
  BY OwnedType, OwnedTypeNext
<1>7. \A h \in Holdings : available[h] \in Nat /\ locked[h] \in Nat
  BY DEF TypeOK
<1> HIDE DEF v
<1>8. /\ Owned'[c] = Owned[c] - v /\ Owned'[y] = Owned[y] + q /\ Owned'[z] = Owned[z] + q
      /\ v <= Owned[c] /\ q \in 1 .. Owned[c]
      /\ \A h \in Holdings \ {c, y, z} : Owned'[h] = Owned[h]
  BY <1>2, <1>3, <1>4, <1>5, <1>7, OwnedType, OwnedTypeNext
<1>9. Owned' = [Owned EXCEPT ![c] = Owned[c] - v, ![y] = Owned[y] + q, ![z] = Owned[z] + q]
  BY <1>3, <1>6, <1>8, ThreeDiffer
<1> QED
  BY <1>1, <1>5, <1>8, <1>9, OwnedIsHeld DEF Bank!Split, v

LEMMA MergeMerges ==
  ASSUME TypeOK, TypeOK', ReserveBacksSets, NEW a \in Accounts, NEW m \in Markets,
         NEW q \in Quantities, NEW k \in Keys, Merge(a, m, q, k)
  PROVE  Bank!Merge(a, m)
<1> DEFINE v == q * Scale
<1>1. PICK c, y, z : c = <<a, Point>> /\ y = <<a, <<m, "YES">>>> /\ z = <<a, <<m, "NO">>>>
  OBVIOUS
<1>2. /\ q \in Nat \ {0} /\ v \in Nat \ {0} /\ available[y] >= q /\ available[z] >= q
      /\ available'[c] = available[c] + v
      /\ available'[y] = available[y] - q /\ available'[z] = available[z] - q
      /\ \A h \in Holdings \ {c, y, z} : available'[h] = available[h]
  BY <1>1, MergeMoves
<1>3. /\ c \in Holdings /\ y \in Holdings /\ z \in Holdings
      /\ c # y /\ c # z /\ y # z
  BY <1>1, SetHoldings
<1>4. locked' = locked /\ UNCHANGED issued
  BY DEF Merge, supplyVars
<1>5. Owned \in [Holdings -> Nat] /\ Owned' \in [Holdings -> Nat]
  BY OwnedType, OwnedTypeNext
<1>6. \A h \in Holdings : available[h] \in Nat /\ locked[h] \in Nat
  BY DEF TypeOK
<1> HIDE DEF v
<1>7. /\ Owned'[c] = Owned[c] + v /\ Owned'[y] = Owned[y] - q /\ Owned'[z] = Owned[z] - q
      /\ q \in 1 .. Owned[y] /\ q <= Owned[z]
      /\ \A h \in Holdings \ {c, y, z} : Owned'[h] = Owned[h]
  BY <1>2, <1>3, <1>4, <1>6, OwnedType, OwnedTypeNext
<1>8. Owned' = [Owned EXCEPT ![c] = Owned[c] + v, ![y] = Owned[y] - q, ![z] = Owned[z] - q]
  BY <1>3, <1>5, <1>7, ThreeDiffer
<1> QED
  BY <1>1, <1>4, <1>7, <1>8, OwnedIsHeld DEF Bank!Merge, v

LEMMA StepImplements ==
  ASSUME IInv, IInv', Unissued, [Next]_vars
  PROVE  [Bank!Next]_<<issued, [h \in Holdings |-> Held(h)]>>
<1>1. TypeOK /\ TypeOK' /\ ReserveBacksSets
  BY BackedParts DEF IInv
<1>2. KeepsOwnership
  BY <1>1, StepKeepsOwnership
<1>3. ASSUME issued' = issued, Owned' = Owned
      PROVE  UNCHANGED <<issued, [h \in Holdings |-> Held(h)]>>
  BY <1>3, OwnedIsHeld
<1>4. ASSUME NEW n \in Amounts, Bootstrap(n)
      PROVE  Bank!Next
  BY <1>4, BootstrapIssues DEF Bank!Next
<1>5. ASSUME NEW p \in Participants, NEW n \in Amounts, NEW k \in Keys, Allocate(p, n, k)
      PROVE  Bank!Next
  BY <1>1, <1>5, AllocateGives DEF Bank!Next
<1>6. ASSUME NEW a \in Accounts, NEW m \in Markets, NEW q \in Quantities, NEW k \in Keys,
             Split(a, m, q, k) \/ Merge(a, m, q, k)
      PROVE  Bank!Next
  BY <1>1, <1>6, SplitSplits, MergeMerges DEF Bank!Next, Bank!Accounts, Accounts
<1>7. ASSUME NEW m \in Markets, CreateMarket(m)
      PROVE  UNCHANGED <<issued, [h \in Holdings |-> Held(h)]>>
  BY <1>3, <1>7 DEF CreateMarket, supplyVars, Owned
<1>8. ASSUME issued' = issued,
             NEW g \in Holdings, locked'[g] # locked[g]
      PROVE  UNCHANGED <<issued, [h \in Holdings |-> Held(h)]>>
  <2>1. \A h \in Holdings : available'[h] + locked'[h] = available[h] + locked[h]
    BY <1>2, <1>8 DEF KeepsOwnership, Held
  <2>2. Owned' = Owned
    BY <2>1 DEF Owned
  <2> QED
    BY <1>3, <1>8, <2>2
<1>9. ASSUME NEW p \in Participants, NEW x \in Assets, NEW n \in Nat \ {0}, NEW k \in Keys,
             Reserve(p, x, n, k)
      PROVE  UNCHANGED <<issued, [h \in Holdings |-> Held(h)]>>
  <2>1. PICK g : g = <<p, x>>
    OBVIOUS
  <2>2. g \in Holdings /\ locked'[g] = locked[g] + n
    BY <1>1, <1>9, <2>1, ReserveMoves
  <2>3. locked[g] \in Nat /\ issued' = issued
    BY <1>1, <1>9, <2>2 DEF TypeOK, Reserve, supplyVars
  <2> QED
    BY <1>8, <2>2, <2>3
<1>10. ASSUME NEW i \in DOMAIN reservations, NEW reason, NEW k \in Keys, Release(i, reason, k)
       PROVE  UNCHANGED <<issued, [h \in Holdings |-> Held(h)]>>
  <2>1. PICK g, n : g = <<reservations[i].account, reservations[i].asset>>
                    /\ n = reservations[i].amount
    OBVIOUS
  <2>2. g \in Holdings /\ n \in Nat \ {0} /\ locked'[g] = locked[g] - n
    BY <1>1, <1>10, <2>1, ReleaseMoves
  <2>3. locked[g] \in Nat /\ issued' = issued
    BY <1>1, <1>10, <2>2 DEF TypeOK, Release, supplyVars
  <2> QED
    BY <1>8, <2>2, <2>3
<1>11. ASSUME NEW p \in Participants, NEW q \in Quantities, NEW price \in 1 .. Scale,
              NEW k \in Keys, ReserveBuy(p, q, price, k)
       PROVE  UNCHANGED <<issued, [h \in Holdings |-> Held(h)]>>
  <2>1. q * price \in Nat \ {0}
    BY NumbersAssumption
  <2> QED
    BY <1>9, <1>11, <2>1, HoldingFacts DEF ReserveBuy
<1>12. ASSUME NEW p \in Participants, NEW m \in Markets, NEW o \in Outcomes,
              NEW q \in Quantities, NEW k \in Keys, ReserveSell(p, m, o, q, k)
       PROVE  UNCHANGED <<issued, [h \in Holdings |-> Held(h)]>>
  <2>1. q \in Nat \ {0} /\ <<m, o>> \in Assets
    BY NumbersAssumption, HoldingFacts
  <2> QED
    BY <1>9, <1>12, <2>1 DEF ReserveSell
<1>13. ASSUME NEW p \in Participants, NEW i \in DOMAIN reservations, NEW k \in Keys,
              Cancel(p, i, k) \/ Reject(i, k)
       PROVE  UNCHANGED <<issued, [h \in Holdings |-> Held(h)]>>
  BY <1>10, <1>13 DEF Cancel, Reject
<1>14. ASSUME NEW i \in DOMAIN reservations, NEW k \in Keys, Reject(i, k)
       PROVE  UNCHANGED <<issued, [h \in Holdings |-> Held(h)]>>
  BY <1>10, <1>14 DEF Reject
<1>15. CASE UNCHANGED vars
  BY <1>3, <1>15 DEF vars, supplyVars, Owned
<1> QED
  BY <1>4, <1>5, <1>6, <1>7, <1>11, <1>12, <1>13, <1>14, <1>15 DEF Next

LEMMA InitImplements ==
  ASSUME Init
  PROVE  Bank!Init /\ Unissued
<1>1. [h \in Holdings |-> Held(h)] = [h \in Holdings |-> 0]
  BY DEF Init, Held
<1>2. Holdings = Bank!Accounts \X Bank!Assets
  BY DEF Holdings, Accounts, Assets, Shares, Outcomes, Bank!Accounts, Bank!Assets
<1> QED
  BY <1>1, <1>2 DEF Init, Bank!Init, Unissued

(* The ledger implements the bank: however operations, refusals, replays    *)
(* and reservations interleave, points enter once, leave the treasury only  *)
(* by an allocation, and turn into complete sets and back at Scale points.  *)
THEOREM Refinement == Spec => ImplementsBank
<1>1. Init => Bank!Init /\ Unissued
  BY InitImplements
<1>2. Unissued /\ [Next]_vars => Unissued'
  BY StepKeepsUnissued
<1>3. IInv /\ IInv' /\ Unissued /\ [Next]_vars
        => [Bank!Next]_<<issued, [h \in Holdings |-> Held(h)]>>
  BY StepImplements
<1> QED
  BY <1>1, <1>2, <1>3, Invariance, PTL DEF Spec, ImplementsBank, Bank!Spec
=============================================================================
