------------------------------- MODULE Totals -------------------------------
(***************************************************************************)
(* Contents arrive in pieces, of which the models keep the sizes, and      *)
(* archives have entries with sizes: the total of a sequence of sizes.     *)
(***************************************************************************)
EXTENDS Integers, Sequences

(* The totals of the first n sizes, for every n. *)
RunningTotals(sizes) ==
    LET total[n \in 0..Len(sizes)] == IF n = 0 THEN 0 ELSE total[n - 1] + sizes[n]
    IN  total

Total(sizes) == RunningTotals(sizes)[Len(sizes)]
=============================================================================
