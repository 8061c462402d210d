----------------------------- MODULE MCTrackRecord -----------------------------
(* Instances of TrackRecord for TLC.  A is a Kraken pair; B is named as    *)
(* the perpetuals are, and HTX lists it as Binance does.                   *)
EXTENDS TrackRecord, TLC

MCLists == ("kraken" :> {"A"}) @@ ("binance" :> {"A", "B"}) @@ ("htx" :> {"B"})
MCPair == <<"A", "B">>
=============================================================================
