--------------------------- MODULE MCAccessControl ---------------------------
(* Two connections to one database.                                        *)
EXTENDS AccessControl, TLC

CONSTANTS w1, w2, s1, s2

MCWorkers == {w1, w2}
MCSessions == {s1, s2}

OldEvent == [link |-> Unhashed, locked |-> FALSE]
FirstEvent == [link |-> 0, locked |-> TRUE]

(* An empty chain, old ones, a current one and one of both kinds.          *)
MCLegacy == {<<>>, <<OldEvent, OldEvent>>, <<FirstEvent>>, <<FirstEvent, OldEvent>>}

(* The specification compares connections and sessions for equality only.  *)
MCSymmetry == Permutations(MCWorkers) \cup Permutations(MCSessions)
=============================================================================
