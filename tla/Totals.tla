------------------------------- MODULE Totals -------------------------------
(***************************************************************************)
(* The sum of a finite table of amounts.  SQLite answers SUM(column) over  *)
(* the rows a WHERE clause keeps; here the rows are the domain of a        *)
(* function and the amounts its values.  The sum is counted cent by cent:  *)
(* every row x stands for the pairs <<x, 1>> .. <<x, f[x]>>, so that the   *)
(* library's facts about cardinalities are all a proof needs.              *)
(***************************************************************************)
EXTENDS Naturals, FiniteSets

CentsOf(f) == UNION {{x} \X (1..f[x]) : x \in DOMAIN f}

Total(f) == Cardinality(CentsOf(f))
=============================================================================
