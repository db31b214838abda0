--------------------------------- MODULE Counting ---------------------------------
(***************************************************************************)
(* The sums MongoDB's $sum and the handlers' loops compute, of amounts that*)
(* are natural numbers, counted unit by unit: x is worth n[x] units.  Sums *)
(* counted like this are cardinalities, about which the proofs can use what*)
(* is known of finite sets.                                                *)
(***************************************************************************)
EXTENDS Integers, FiniteSets

Units(n, S) == UNION {{x} \X (1..n[x]) : x \in S}
\* The sum of n[x] over the x of S.
SumOver(n, S) == Cardinality(Units(n, S))
Total(n) == SumOver(n, DOMAIN n)
=============================================================================
