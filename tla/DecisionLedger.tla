--------------------------- MODULE DecisionLedger ---------------------------
(***************************************************************************)
(* What the senior trader promises about its decisions, without signals,   *)
(* gate or sessions: each decision is recorded once and for good; a TAKE   *)
(* is turned into at most one order, which is filled or expires at most    *)
(* once, and a fill is journaled at most once, after it happened.          *)
(***************************************************************************)
EXTENDS Integers, Sequences

VARIABLE ledger  \* the stage each decision has reached, by decision number

Stages == {"no_trade", "taken", "ordered", "expired", "filled", "journaled"}

\* The stages that may follow a stage.
After(stage) ==
  CASE stage = "taken"   -> {"ordered"}
    [] stage = "ordered" -> {"expired", "filled"}
    [] stage = "filled"  -> {"journaled"}
    [] OTHER             -> {}

Record == \E stage \in {"no_trade", "taken"} : ledger' = Append(ledger, stage)

Advance(d) == \E stage \in After(ledger[d]) : ledger' = [ledger EXCEPT ![d] = stage]

LedgerInit == ledger = <<>>
LedgerNext == Record \/ \E d \in DOMAIN ledger : Advance(d)
LedgerSpec == LedgerInit /\ [][LedgerNext]_ledger
=============================================================================
