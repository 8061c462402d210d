---------------------------- MODULE MCLiveTrader ----------------------------
(* Instances of LiveTrader for TLC.                                        *)
EXTENDS LiveTrader, TLC

CONSTANTS p1, p2, o1, o2, sA, sB, BTC, ETH

\* Two accepted pairs on two symbols, so the top strategy can rotate.
MCAccepted == {<<sA, BTC>>, <<sB, ETH>>}
MCOneSlot == {<<sA, BTC>>}
OrderSymmetry == Permutations({o1, o2})
ConcurrentSymmetry == Permutations({p1, p2}) \cup Permutations({o1, o2})
=============================================================================
