---------------------------- MODULE SkuAllocator ----------------------------
(***************************************************************************)
(* What "Next SKU" promises: every request that is answered gets a number  *)
(* above all those handed out before.                                      *)
(***************************************************************************)
EXTENDS Naturals

CONSTANTS Requests, NoSku
VARIABLE issued

Issue(q) ==
  /\ issued[q] = NoSku
  /\ issued'[q] \in Nat \ {0}
  /\ \A r \in Requests : issued[r] # NoSku => issued[r] < issued'[q]
  /\ issued' = [issued EXCEPT ![q] = issued'[q]]

Init == issued = [q \in Requests |-> NoSku]
Next == \E q \in Requests : Issue(q)
Spec == Init /\ [][Next]_issued
=============================================================================
