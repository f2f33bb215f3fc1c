---------------------------- MODULE MCMarketSync ----------------------------
(* Small instances of MarketSync.                                          *)
EXTENDS MarketSync

CONSTANTS p1, p2, m1, m2, s1

MCSyncers == {p1, p2}
=============================================================================
