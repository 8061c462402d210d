---------------------------- MODULE MCPaperTrader ----------------------------
(* Instances of PaperTrader for TLC.                                       *)
EXTENDS PaperTrader, TLC

CONSTANTS p1, p2, a, b

\* No action reads the journal, and no property once operations overlapped or
\* one died, which serial remembers.
PaperView == <<rows, IF serial THEN journal ELSE <<>>, today, bar, task, serial>>

PaperSymmetry == Permutations({p1, p2}) \cup Permutations({a, b})
=============================================================================
