--------------------------- MODULE MCSeniorTrader ---------------------------
(* Instances of SeniorTrader for TLC.                                      *)
EXTENDS SeniorTrader, TLC

CONSTANTS s1, s2, r1, t1, a
=============================================================================
