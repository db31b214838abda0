----------------------------- MODULE SkuSequence -----------------------------
(***************************************************************************)
(* The TOY SKU counter of src/utils/productSkuSequence.ts for one tenant.  *)
(* The counter document is created by the first request that misses it,    *)
(* from the highest SKU in the catalog, and then only incremented; in the  *)
(* meantime products are created, renamed and deleted.  An action is one   *)
(* awaited MongoDB call.                                                   *)
(***************************************************************************)
EXTENDS Integers

CONSTANTS
  Requests,    \* GET /products/next-sku, each handled once
  Imported,    \* numbers of the TOY SKUs the catalog starts with
  Typed,       \* numbers clients put on products without reserving them
  IntLimit,    \* the largest number $toInt converts
  NoSku        \* no counter document, no number

ASSUME SkuAssumption ==
  /\ Imported \subseteq Nat
  /\ Typed \subseteq Nat
  /\ IntLimit \in Nat
  /\ NoSku \notin Nat

VARIABLES
  counter,   \* value of the Sequence document, or NoSku
  catalog,   \* numbers of the products that carry a TOY SKU
  req,       \* the requests' local state
  late       \* history: numbers typed after some request had read the catalog

vars == <<counter, catalog, req, late>>

Answers == {"done", "failed"}
RequestType == [pc : {"find", "read", "create", "increment"} \cup Answers,
                max : Nat, sku : (Nat \ {0}) \cup {NoSku}]

Goto(q, pc) == req' = [req EXCEPT ![q].pc = pc]

-----------------------------------------------------------------------------
(* ensureProductToySkuSequence                                             *)

FindSequence(q) ==
  /\ req[q].pc = "find"
  /\ Goto(q, IF counter = NoSku THEN "read" ELSE "increment")
  /\ UNCHANGED <<counter, catalog, late>>

\* Mutant: the products are counted from the oldest SKU on.
MaxSkuNumber_First(n) == n \in catalog /\ \A m \in catalog : n <= m
\* aggregateMaxToySkuNumber: sorted, the first one; 0 in an empty catalog.
MaxSkuNumber(n) == n \in catalog /\ \A m \in catalog : m <= n

ReadCatalog(q) ==
  /\ req[q].pc = "read"
  /\ \/ /\ \E n \in catalog : n > IntLimit
        /\ Goto(q, "failed")
     \/ /\ \A n \in catalog : n <= IntLimit
        /\ \E n \in catalog \cup {0} :
             /\ IF catalog = {} THEN n = 0 ELSE MaxSkuNumber(n)
             /\ req' = [req EXCEPT ![q].pc = "create", ![q].max = n]
  /\ UNCHANGED <<counter, catalog, late>>

\* Mutant: the counter is set, not created.
CreateSequence_Upsert(q) ==
  /\ req[q].pc = "create"
  /\ counter' = req[q].max
  /\ Goto(q, "increment")
  /\ UNCHANGED <<catalog, late>>
\* The unique index refuses a second counter; error 11000 is not an error.
CreateSequence(q) ==
  /\ req[q].pc = "create"
  /\ counter' = IF counter = NoSku THEN req[q].max ELSE counter
  /\ Goto(q, "increment")
  /\ UNCHANGED <<catalog, late>>

-----------------------------------------------------------------------------
(* reserveNextProductSku                                                   *)

\* Mutant: the value before the increment is returned.
Increment_Old(q) ==
  /\ req[q].pc = "increment"
  /\ counter' = counter + 1
  /\ req' = [req EXCEPT ![q].pc = "done", ![q].sku = counter]
  /\ UNCHANGED <<catalog, late>>
\* findOneAndUpdate increments and returns the new value in one step.
Increment(q) ==
  /\ req[q].pc = "increment"
  /\ IF counter = NoSku
     THEN Goto(q, "failed") /\ UNCHANGED counter
     ELSE /\ counter' = counter + 1
          /\ req' = [req EXCEPT ![q].pc = "done", ![q].sku = counter + 1]
  /\ UNCHANGED <<catalog, late>>

\* A MongoDB call fails, or the process dies.
RequestFails(q) ==
  /\ req[q].pc \notin Answers
  /\ Goto(q, "failed")
  /\ UNCHANGED <<counter, catalog, late>>

-----------------------------------------------------------------------------
(* The product routes.                                                     *)

\* A product is saved with a reserved number; the catalog's unique index
\* refuses a second product with the same one.
UseReserved(q) ==
  /\ req[q].pc = "done"
  /\ req[q].sku \notin catalog
  /\ catalog' = catalog \cup {req[q].sku}
  /\ UNCHANGED <<counter, req, late>>

\* A product is saved with a number its client made up.
TypeSku(n) ==
  /\ n \notin catalog
  /\ catalog' = catalog \cup {n}
  /\ late' = IF counter # NoSku \/ \E q \in Requests : req[q].pc = "create"
             THEN late \cup {n} ELSE late
  /\ UNCHANGED <<counter, req>>

\* A product is deleted or its SKU changed.
DropSku(n) ==
  /\ catalog' = catalog \ {n}
  /\ UNCHANGED <<counter, req, late>>

-----------------------------------------------------------------------------
Init ==
  /\ counter = NoSku
  /\ catalog = Imported
  /\ req = [q \in Requests |-> [pc |-> "find", max |-> 0, sku |-> NoSku]]
  /\ late = {}

Reserve(q) ==
  FindSequence(q) \/ ReadCatalog(q) \/ CreateSequence(q) \/ Increment(q) \/ RequestFails(q)

Next ==
  \/ \E q \in Requests : Reserve(q) \/ UseReserved(q)
  \/ \E n \in Typed : TypeSku(n)
  \/ \E n \in catalog : DropSku(n)

Spec == Init /\ [][Next]_vars

-----------------------------------------------------------------------------
(* Properties.                                                             *)

(* The types of the state; a number that is handed out is positive.        *)
TypeOK ==
  /\ counter \in Nat \cup {NoSku}
  /\ catalog \subseteq Nat
  /\ req \in [Requests -> RequestType]
  /\ \A q \in Requests : req[q].pc = "done" <=> req[q].sku # NoSku
  /\ late \subseteq Nat

(* No product carries a number at the moment it is reserved, whatever the  *)
(* requests that race to create the counter, unless a client typed that    *)
(* number after some request had read the catalog.                         *)
ReservedIsFree ==
  [][\A q \in Requests : req[q].pc # "done" /\ req'[q].pc = "done"
       => req'[q].sku \notin catalog \ late]_vars

(* The numbers handed out rise: "Atomically reserve the next TOY SKU".     *)
Allocator == INSTANCE SkuAllocator WITH issued <- [q \in Requests |-> req[q].sku]
HandsOutRisingNumbers == Allocator!Spec
=============================================================================
