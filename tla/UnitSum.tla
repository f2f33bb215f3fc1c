------------------------------ MODULE UnitSum ------------------------------
(***************************************************************************)
(* The sum of a function with natural values over a finite domain: SQL's   *)
(* coalesce(sum(column), 0).  Every x contributes f[x] distinguishable     *)
(* units and Total counts them.  The form has no recursion, so the         *)
(* theorems of UnitSum_proofs follow from those on finite cardinalities.   *)
(***************************************************************************)
EXTENDS Naturals, FiniteSets

Units(f) == UNION {{x} \X (1 .. f[x]) : x \in DOMAIN f}

Total(f) == Cardinality(Units(f))
=============================================================================
