-------------------------- MODULE ExchangeAccount --------------------------
(***************************************************************************)
(* What the live trader promises about its account at the exchange,        *)
(* without rows, orders, signals or processes.  While nothing is halted it *)
(* builds one position at a time, from nothing and in one direction, and   *)
(* brings it back to nothing before the next; a failed account only gives  *)
(* up what it holds; and only while trading is halted by hand may the      *)
(* account be moved in any other way.                                      *)
(***************************************************************************)
EXTENDS Integers

CONSTANT Symbols

VARIABLES
  held,    \* the net position, by symbol
  halted,  \* trading is halted by hand
  failed   \* the account has breached its hard floor

accountVars == <<held, halted, failed>>

Bought(s) == held' = [held EXCEPT ![s] = @ + 1]
Sold(s) == held' = [held EXCEPT ![s] = @ - 1]

\* One unit of an opening order fills.
Grow(s) ==
  /\ ~halted /\ ~failed
  /\ \A t \in Symbols \ {s} : held[t] = 0
  /\ (held[s] >= 0 /\ Bought(s)) \/ (held[s] <= 0 /\ Sold(s))
  /\ UNCHANGED <<halted, failed>>

\* One unit of a closing order fills.
Shrink(s) ==
  /\ (held[s] > 0 /\ Sold(s)) \/ (held[s] < 0 /\ Bought(s))
  /\ UNCHANGED <<halted, failed>>

\* The operator trades, or presses the kill switch on a row that the account
\* does not match.
Intervene ==
  /\ halted
  /\ held' \in [Symbols -> Int]
  /\ UNCHANGED <<halted, failed>>

\* A halt or its end, a breach; nothing brings a failed account back.
Govern ==
  /\ halted' \in BOOLEAN /\ failed' \in BOOLEAN
  /\ failed => failed'
  /\ UNCHANGED held

AccountInit ==
  /\ held = [s \in Symbols |-> 0]
  /\ ~halted /\ ~failed

AccountNext ==
  \/ \E s \in Symbols : Grow(s) \/ Shrink(s)
  \/ Intervene \/ Govern

AccountSpec == AccountInit /\ [][AccountNext]_accountVars
=============================================================================
