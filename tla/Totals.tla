-------------------------------- MODULE Totals --------------------------------
(***************************************************************************)
(* SQL's SUM over a column of rows whose ids are 1..n.  w[i] is what row i *)
(* contributes.  The order of the rows is fixed, so that TotalsProofs can  *)
(* reason about the sum by induction on n.                                 *)
(***************************************************************************)
EXTENDS Integers

PartialTotals(w, n) ==
    LET s[i \in 0..n] == IF i = 0 THEN 0 ELSE s[i - 1] + w[i] IN s

Total(w, n) == PartialTotals(w, n)[n]
=============================================================================
