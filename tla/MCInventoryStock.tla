-------------------------- MODULE MCInventoryStock --------------------------
(* A small factory: a catalog product p in two warehouses, a finished good *)
(* f with a reservation and a raw material m, with one record of each sort.*)
EXTENDS InventoryStock, TLC

CONSTANTS p, f, m, A, B, r1, r2, r3, r4, r5, r6, r7, r8, r9

MCKind == p :> "product" @@ f :> "finishedGood" @@ m :> "rawMaterial"
MCReserved == p :> 0 @@ f :> 1 @@ m :> 0
Held(a, b, qty, wh) ==
  [ws |-> A :> a @@ B :> b, keys |-> {A}, qty |-> qty, wh |-> wh]
MCInitStock == p :> Held(2, 0, 2, NoWarehouse) @@ f :> Held(0, 0, 3, A) @@ m :> Held(0, 0, 1, A)
Entry(op, item, wh, to, qty) == [op |-> op, item |-> item, wh |-> wh, to |-> to, qty |-> qty]
AllRec ==
  r1 :> Entry("in", f, NoWarehouse, NoWarehouse, 1) @@
  r2 :> Entry("out", p, A, NoWarehouse, 2) @@
  r3 :> Entry("transfer", p, A, B, 2) @@
  r4 :> Entry("out", f, A, NoWarehouse, 2) @@
  r5 :> Entry("transfer", m, A, B, 1) @@
  r6 :> Entry("decrease", m, A, NoWarehouse, 3) @@
  r7 :> Entry("out", p, A, NoWarehouse, 1) @@
  r8 :> Entry("increase", p, B, NoWarehouse, 1) @@
  r9 :> Entry("decrease", p, B, NoWarehouse, 1)
MCRec == [r \in Records |-> AllRec[r]]

\* Requests are interchangeable: no action or invariant names one.
RequestSymmetry == Permutations(Requests)
=============================================================================
