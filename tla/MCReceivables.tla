---------------------------- MODULE MCReceivables ----------------------------
(* Two payments against two invoices of one customer, whom i1 names by his *)
(* _id and i2 by his legacyId.  Clients post an invoice of 1 or 3 with all *)
(* of it due, or, as the schema's defaults have it, with nothing due.      *)
EXTENDS Receivables, TLC

CONSTANTS p1, p2, i1, i2, c1, id1, legacy1

MCPayAmount == [p \in Payments |-> IF p = p1 THEN 1 ELSE 2]
MCSent == {[amount |-> 3, paid |-> 0, due |-> 0], [amount |-> 1, paid |-> 0, due |-> 1]}
MCRefers == [r \in Refs |-> c1]
MCOwner == [i \in Invoices |-> IF i = i1 THEN id1 ELSE legacy1]

\* Requests are interchangeable, and so are the invoices together with the
\* ids they carry: no action or property names one.
Swap == i1 :> i2 @@ i2 :> i1 @@ id1 :> legacy1 @@ legacy1 :> id1
Symmetry == Permutations(Requests) \cup {Swap}
=============================================================================
