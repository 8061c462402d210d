---------------------------- MODULE MCKrakenProp ----------------------------
(* The way of a Kraken Prop trade in one instance: scans that overlap and  *)
(* write setups (PendingSignals), the gate over the account's row          *)
(* (PropDesk), the order form a person fills in (OrderForm) and the fees   *)
(* of his trades (KrakenFees).  They share no variable, so a behaviour     *)
(* follows one of them.                                                    *)
EXTENDS PendingSignals, PropDesk, OrderForm, TLC

CONSTANTS t1, t2, buy, sell, crooked, s1, s2, a

VARIABLE side   \* the side this behaviour follows

MCSideOf == (buy :> "Buy") @@ (sell :> "Sell")

\* Rows about every threshold of the gate: 1.5, 2 and 3 per cent of the day,
\* 2.1 and 3 per cent of the peak.
MCBalances == {0, 96500, 97200, 97900, 98000, 98450, 98600, 99400, 100000}

MCVars == <<signalVars, feeVars, account, formVars, side>>

MCInit ==
  /\ SignalInit /\ FeeInit /\ DeskInit /\ FormInit
  /\ side \in {"scans", "desk", "form", "fees"}
  /\ side # "desk" => account = [balance |-> 0, dayStart |-> 0, peak |-> 0]
MCNext ==
  \/ side = "scans" /\ SignalNext /\ UNCHANGED <<feeVars, account, formVars, side>>
  \/ side = "fees" /\ FeeNext /\ UNCHANGED <<signalVars, account, formVars, side>>
  \/ side = "desk" /\ DeskNext /\ UNCHANGED <<signalVars, feeVars, formVars, side>>
  \/ side = "form" /\ FormNext /\ UNCHANGED <<signalVars, feeVars, account, side>>
MCSpec == MCInit /\ [][MCNext]_MCVars

\* The trades are alike, and so are the scanners.
AlikeSymmetry == Permutations(Scanners) \cup Permutations(Trades)
=============================================================================
