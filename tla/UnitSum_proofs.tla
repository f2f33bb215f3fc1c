--------------------------- MODULE UnitSum_proofs ---------------------------
(***************************************************************************)
(* How Total changes when a function changes at one argument, grows by one *)
(* argument, or not at all.  Every argument contributes its units          *)
(* separately, so the proofs need only the cardinality of a disjoint union *)
(* and of an interval.                                                     *)
(***************************************************************************)
EXTENDS UnitSum, FiniteSetTheorems, TLAPS

(* One argument contributes as many units as its value. *)
LEMMA UnitsOfOne ==
  ASSUME NEW x, NEW n \in Nat
  PROVE  IsFiniteSet({x} \X (1 .. n)) /\ Cardinality({x} \X (1 .. n)) = n
<1>1. IsFiniteSet(1 .. n) /\ Cardinality(1 .. n) = n
  BY FS_Interval
<1>2. IsFiniteSet({x}) /\ Cardinality({x}) = 1
  BY FS_Singleton
<1>3. IsFiniteSet({x} \X (1 .. n)) /\ Cardinality({x} \X (1 .. n)) = 1 * n
  BY <1>1, <1>2, FS_Product
<1> QED
  BY <1>3

(* The units of a natural-valued function on a finite domain are finite. *)
LEMMA TotalType ==
  ASSUME NEW S, IsFiniteSet(S), NEW f \in [S -> Nat]
  PROVE  IsFiniteSet(Units(f)) /\ Total(f) \in Nat
<1> DEFINE Parts == {{x} \X (1 .. f[x]) : x \in S}
<1>1. IsFiniteSet(Parts)
  <2> DEFINE g == [x \in S |-> {x} \X (1 .. f[x])]
  <2>1. g \in Surjection(S, Parts)
    BY DEF Surjection
  <2> QED
    BY <2>1, FS_Surjection
<1>2. ASSUME NEW P \in Parts
      PROVE  IsFiniteSet(P)
  <2>1. PICK x \in S : P = {x} \X (1 .. f[x])
    OBVIOUS
  <2>2. f[x] \in Nat
    OBVIOUS
  <2> QED
    BY <2>1, <2>2, UnitsOfOne
<1> HIDE DEF Parts
<1>3. IsFiniteSet(UNION Parts)
  BY <1>1, <1>2, FS_UNION
<1>4. Units(f) = UNION Parts
  BY DEF Units, Parts
<1> QED
  BY <1>3, <1>4, FS_CardinalityType DEF Total

(* One argument's units can be counted apart from the others'. *)
LEMMA TotalSplit ==
  ASSUME NEW S, IsFiniteSet(S), NEW f \in [S -> Nat], NEW a \in S
  PROVE  Total(f) = Total([x \in S \ {a} |-> f[x]]) + f[a]
<1> DEFINE R == S \ {a}
           g == [x \in R |-> f[x]]
           A == {a} \X (1 .. f[a])
<1>1. IsFiniteSet(R)
  BY FS_Difference
<1>2. g \in [R -> Nat]
  OBVIOUS
<1>3. IsFiniteSet(Units(g)) /\ Total(g) \in Nat
  BY <1>1, <1>2, TotalType
<1>4. f[a] \in Nat
  OBVIOUS
<1>5. IsFiniteSet(A) /\ Cardinality(A) = f[a]
  BY <1>4, UnitsOfOne
<1>6. Units(f) = Units(g) \cup A
  BY DEF Units
<1>7. Units(g) \cap A = {}
  BY DEF Units
<1>8. Cardinality(Units(f)) =
        Cardinality(Units(g)) + Cardinality(A) - Cardinality(Units(g) \cap A)
  BY <1>3, <1>5, <1>6, FS_Union
<1>9. Cardinality(Units(g) \cap A) = 0
  BY <1>7, FS_EmptySet
<1>10. Cardinality(Units(g)) \in Nat
  BY <1>3 DEF Total
<1>11. Cardinality(Units(f)) = Cardinality(Units(g)) + f[a]
  <2> HIDE DEF g, A
  <2> QED
    BY <1>4, <1>5, <1>8, <1>9, <1>10
<1> QED
  BY <1>11 DEF Total

(* Changing one value changes the sum by the same amount. *)
LEMMA TotalUpdate ==
  ASSUME NEW S, IsFiniteSet(S), NEW f \in [S -> Nat], NEW g \in [S -> Nat],
         NEW a \in S, \A x \in S \ {a} : g[x] = f[x]
  PROVE  Total(g) + f[a] = Total(f) + g[a]
<1>1. [x \in S \ {a} |-> f[x]] = [x \in S \ {a} |-> g[x]]
  OBVIOUS
<1>2. /\ Total(f) = Total([x \in S \ {a} |-> f[x]]) + f[a]
      /\ Total(g) = Total([x \in S \ {a} |-> g[x]]) + g[a]
  BY TotalSplit
<1>3. f[a] \in Nat /\ g[a] \in Nat
  OBVIOUS
<1>4. IsFiniteSet(S \ {a}) /\ [x \in S \ {a} |-> f[x]] \in [S \ {a} -> Nat]
  BY FS_Difference
<1>5. Total([x \in S \ {a} |-> f[x]]) \in Nat
  BY <1>4, TotalType
<1> QED
  BY <1>1, <1>2, <1>3, <1>5

(* A new argument adds its value to the sum. *)
LEMMA TotalExtend ==
  ASSUME NEW S, IsFiniteSet(S), NEW a, a \notin S,
         NEW f \in [S -> Nat], NEW g \in [S \cup {a} -> Nat],
         \A x \in S : g[x] = f[x]
  PROVE  Total(g) = Total(f) + g[a]
<1>1. IsFiniteSet(S \cup {a})
  BY FS_AddElement
<1>2. Total(g) = Total([x \in (S \cup {a}) \ {a} |-> g[x]]) + g[a]
  BY <1>1, TotalSplit
<1>3. [x \in (S \cup {a}) \ {a} |-> g[x]] = f
  OBVIOUS
<1> QED
  BY <1>2, <1>3

(* A sum of zeros is zero. *)
LEMMA TotalZero ==
  ASSUME NEW f, \A x \in DOMAIN f : f[x] = 0
  PROVE  Total(f) = 0
<1>1. Units(f) = {}
  BY DEF Units
<1> QED
  BY <1>1, FS_EmptySet DEF Total

(* No value exceeds the sum it is part of. *)
LEMMA TotalBounds ==
  ASSUME NEW S, IsFiniteSet(S), NEW f \in [S -> Nat], NEW a \in S
  PROVE  f[a] <= Total(f)
<1>1. IsFiniteSet(S \ {a}) /\ [x \in S \ {a} |-> f[x]] \in [S \ {a} -> Nat]
  BY FS_Difference
<1>2. Total([x \in S \ {a} |-> f[x]]) \in Nat
  BY <1>1, TotalType
<1>3. f[a] \in Nat
  OBVIOUS
<1>4. Total(f) = Total([x \in S \ {a} |-> f[x]]) + f[a]
  BY TotalSplit
<1> QED
  BY <1>2, <1>3, <1>4

(* Changing two values changes the sum by both amounts. *)
LEMMA TotalUpdateTwo ==
  ASSUME NEW S, IsFiniteSet(S), NEW f \in [S -> Nat], NEW g \in [S -> Nat],
         NEW a \in S, NEW b \in S, a # b,
         \A x \in S \ {a, b} : g[x] = f[x]
  PROVE  Total(g) + f[a] + f[b] = Total(f) + g[a] + g[b]
<1> DEFINE h == [f EXCEPT ![a] = g[a]]
<1>1. h \in [S -> Nat] /\ h[a] = g[a] /\ h[b] = f[b]
  OBVIOUS
<1>2. (\A x \in S \ {a} : h[x] = f[x]) /\ (\A x \in S \ {b} : g[x] = h[x])
  OBVIOUS
<1> HIDE DEF h
<1>3. Total(h) + f[a] = Total(f) + h[a]
  BY <1>1, <1>2, TotalUpdate
<1>4. Total(g) + h[b] = Total(h) + g[b]
  BY <1>1, <1>2, TotalUpdate
<1>5. Total(f) \in Nat /\ Total(g) \in Nat /\ Total(h) \in Nat
  BY <1>1, TotalType
<1>6. f[a] \in Nat /\ f[b] \in Nat /\ g[a] \in Nat /\ g[b] \in Nat
  OBVIOUS
<1> QED
  BY <1>1, <1>3, <1>4, <1>5, <1>6

(* Two values of a sum do not exceed it together. *)
LEMMA TotalBoundsTwo ==
  ASSUME NEW S, IsFiniteSet(S), NEW f \in [S -> Nat],
         NEW a \in S, NEW b \in S, a # b
  PROVE  f[a] + f[b] <= Total(f)
<1> DEFINE g == [x \in S \ {a} |-> f[x]]
<1>1. IsFiniteSet(S \ {a}) /\ g \in [S \ {a} -> Nat] /\ b \in S \ {a} /\ g[b] = f[b]
  BY FS_Difference
<1>2. Total(f) = Total(g) + f[a]
  BY TotalSplit
<1> HIDE DEF g
<1>3. g[b] <= Total(g) /\ Total(g) \in Nat
  BY <1>1, TotalBounds, TotalType
<1>4. f[a] \in Nat /\ f[b] \in Nat
  OBVIOUS
<1> QED
  BY <1>1, <1>2, <1>3, <1>4

(* A part of a sum, of values that are no greater, is no greater.           *)
LEMMA TotalMonotone ==
  ASSUME NEW T, IsFiniteSet(T), NEW S \in SUBSET T, NEW f \in [T -> Nat], NEW g \in [S -> Nat],
         \A x \in S : g[x] <= f[x]
  PROVE  Total(g) <= Total(f)
<1>1. IsFiniteSet(Units(f)) BY TotalType
<1>2. ASSUME NEW x \in S PROVE 1 .. g[x] \subseteq 1 .. f[x]
  <2>1. g[x] \in Nat /\ f[x] \in Nat /\ g[x] <= f[x] OBVIOUS
  <2> QED BY <2>1
<1>3. Units(g) \in SUBSET Units(f)
  <2>1. DOMAIN g = S /\ DOMAIN f = T /\ S \subseteq T OBVIOUS
  <2>2. ASSUME NEW x \in S PROVE {x} \X (1 .. g[x]) \subseteq {x} \X (1 .. f[x]) BY <1>2
  <2> QED BY <2>1, <2>2 DEF Units
<1> QED BY <1>1, <1>3, FS_Subset DEF Total
=============================================================================
