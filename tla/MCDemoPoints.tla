---------------------------- MODULE MCDemoPoints ----------------------------
(* The V1 demo points on small sets of workers, users and keys.            *)
EXTENDS DemoPoints, TLC

CONSTANTS w1, w2, u1, u2, m1

OneWorker  == {w1}
TwoWorkers == {w1, w2}
OneUser    == {u1}
TwoUsers   == {u1, u2}
OneMarket  == {m1}
NoKeys     == {}

(* The specification compares workers for equality only.                   *)
WorkerSymmetry == Permutations(TwoWorkers)
=============================================================================
