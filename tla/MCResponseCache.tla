--------------------------- MODULE MCResponseCache ---------------------------
(* Up to three GETs and a mutation, in one process or spread over two.     *)
EXTENDS ResponseCache, TLC

CONSTANTS n1, n2, g1, g2, g3, w1

AllOnOne == [g \in Gets |-> n1]
PutsOnOne == [w \in Puts |-> n1]
\* g1 and g3 are served by the first process, g2 by the second.
GetsSpread == [g \in Gets |-> IF g \in {g1, g3} THEN n1 ELSE n2]
=============================================================================
