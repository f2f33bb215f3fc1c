------------------------- MODULE MCCollateralLedger -------------------------
(* The collateral ledger with one participant, the treasury and one market. *)
EXTENDS CollateralLedger, TLC

CONSTANTS p1, m1, k1, k2, k3, k4

OneParticipant == {p1}
OneMarket      == {m1}
FourKeys       == {k1, k2, k3, k4}

(* The specification compares keys for equality only.                       *)
KeySymmetry == Permutations(FourKeys)
=============================================================================
