------------------------- MODULE InventoryStockProofs -------------------------
(***************************************************************************)
(* Proofs about InventoryStock, for any items, warehouses, records, number *)
(* of overlapping requests and crashes.                                    *)
(***************************************************************************)
EXTENDS InventoryStock, FiniteSetTheorems, TLAPS

-----------------------------------------------------------------------------
(* The sum over the warehouses.                                            *)

Shelf(ws, w) == {w} \X (1..ws[w])
Pieces(ws) == UNION {Shelf(ws, w) : w \in Warehouses}

LEMMA ShelfSize ==
  ASSUME NEW w, NEW ws, ws[w] \in Nat
  PROVE  IsFiniteSet(Shelf(ws, w)) /\ Cardinality(Shelf(ws, w)) = ws[w]
<1>1. IsFiniteSet({w}) /\ Cardinality({w}) = 1
  BY FS_Singleton
<1>2. IsFiniteSet(1..ws[w]) /\ Cardinality(1..ws[w]) = ws[w]
  BY FS_Interval
<1>3. /\ IsFiniteSet(Shelf(ws, w))
      /\ Cardinality(Shelf(ws, w)) = Cardinality({w}) * Cardinality(1..ws[w])
  BY <1>1, <1>2, FS_Product DEF Shelf
<1> QED
  BY <1>1, <1>2, <1>3

LEMMA SumType ==
  ASSUME NEW ws \in [Warehouses -> Nat]
  PROVE  IsFiniteSet(Pieces(ws)) /\ SumWs(ws) = Cardinality(Pieces(ws)) /\ SumWs(ws) \in Nat
<1> DEFINE Shelves == {Shelf(ws, w) : w \in Warehouses}
<1>1. [w \in Warehouses |-> Shelf(ws, w)] \in Surjection(Warehouses, Shelves)
  BY DEF Surjection
<1>2. IsFiniteSet(Shelves)
  BY <1>1, FS_Surjection, InventoryAssumption
<1>3. \A T \in Shelves : IsFiniteSet(T)
  BY ShelfSize
<1>4. IsFiniteSet(Pieces(ws))
  BY <1>2, <1>3, FS_UNION DEF Pieces
<1>5. SumWs(ws) = Cardinality(Pieces(ws))
  BY DEF SumWs, Pieces, Shelf
<1> QED
  BY <1>4, <1>5, FS_CardinalityType

LEMMA SumOfChange ==
  ASSUME NEW ws \in [Warehouses -> Nat], NEW w \in Warehouses, NEW n \in Nat
  PROVE  SumWs([ws EXCEPT ![w] = n]) = SumWs(ws) - ws[w] + n
<1> DEFINE new == [ws EXCEPT ![w] = n]
           Rest == UNION {Shelf(ws, v) : v \in Warehouses \ {w}}
<1>1. new \in [Warehouses -> Nat] /\ new[w] = n
  OBVIOUS
<1>2. \A v \in Warehouses \ {w} : Shelf(new, v) = Shelf(ws, v)
  BY DEF Shelf
<1>3. Pieces(ws) = Rest \cup Shelf(ws, w)
  BY DEF Pieces
<1>4. Pieces(new) = Rest \cup Shelf(new, w)
  BY <1>2 DEF Pieces
<1>5. Rest \cap Shelf(ws, w) = {} /\ Rest \cap Shelf(new, w) = {}
  BY DEF Shelf
<1>6. IsFiniteSet(Rest)
  BY <1>3, SumType, FS_Subset
<1>7. /\ IsFiniteSet(Shelf(ws, w)) /\ Cardinality(Shelf(ws, w)) = ws[w]
      /\ IsFiniteSet(Shelf(new, w)) /\ Cardinality(Shelf(new, w)) = n
  BY <1>1, ShelfSize
<1>8. Cardinality(Rest) \in Nat /\ Cardinality({}) = 0
  BY <1>6, FS_CardinalityType, FS_EmptySet
<1>9. ASSUME NEW S, IsFiniteSet(S), Cardinality(S) \in Nat, Rest \cap S = {}
      PROVE  Cardinality(Rest \cup S) = Cardinality(Rest) + Cardinality(S)
  <2>1. Cardinality(Rest \cup S) = Cardinality(Rest) + Cardinality(S) - Cardinality(Rest \cap S)
    BY <1>6, <1>9, FS_Union
  <2>2. Cardinality(Rest \cap S) = 0
    BY <1>8, <1>9
  <2> HIDE DEF Rest
  <2> QED
    BY <2>1, <2>2, <1>8, <1>9
<1>10. Cardinality(Pieces(ws)) = Cardinality(Rest) + ws[w]
  BY <1>3, <1>5, <1>7, <1>9
<1>11. Cardinality(Pieces(new)) = Cardinality(Rest) + n
  BY <1>4, <1>5, <1>7, <1>9
<1>12. SumWs(ws) = Cardinality(Pieces(ws)) /\ SumWs(new) = Cardinality(Pieces(new))
  BY <1>1, SumType
<1> HIDE DEF new, Rest
<1>13. SumWs(new) = SumWs(ws) - ws[w] + n
  BY <1>8, <1>10, <1>11, <1>12
<1> QED
  BY <1>13 DEF new
-----------------------------------------------------------------------------
(* Types.                                                                  *)

LEMMA Max0Type == \A n \in Int : Max0(n) \in Nat
  BY DEF Max0

LEMMA LegCountType == \A r : LegCount(r) \in {1, 2}
  BY DEF LegCount

\* A request in progress has a record, and no more legs than the record.
Routed ==
  \A q \in Requests :
    /\ req[q].pc = "new" => req[q].leg = 1
    /\ req[q].pc \in Active => req[q].rec \in Records /\ req[q].leg <= LegCount(req[q].rec)

Typed == TypeOK /\ Routed

LEMMA RecFacts ==
  ASSUME NEW r \in Records
  PROVE  /\ Rec[r].op \in Ops /\ Rec[r].item \in Items /\ Rec[r].qty \in Nat
         /\ Rec[r].wh \in Places /\ Rec[r].to \in Places
  BY InventoryAssumption DEF RecordType

LEMMA LegType ==
  ASSUME NEW r \in Records, NEW n \in {1, 2}, n <= LegCount(r)
  PROVE  Legs(r)[n].wh \in Places /\ Legs(r)[n].delta \in Int
<1>1. CASE Rec[r].op \in {"in", "increase"}
  BY <1>1, RecFacts DEF Legs, LegCount
<1>2. CASE Rec[r].op \in {"out", "decrease"}
  BY <1>2, RecFacts DEF Legs, LegCount
<1>3. CASE Rec[r].op = "transfer"
  BY <1>3, RecFacts DEF Legs
<1> QED
  BY <1>1, <1>2, <1>3, RecFacts DEF Ops

LEMMA AfterDeltaType ==
  ASSUME NEW i \in Items, NEW s \in Stock, NEW w \in Places, NEW delta \in Int
  PROVE  AfterDelta(i, s, w, delta) \in Stock
<1> DEFINE ws == [s.ws EXCEPT ![w] = Max0(@ + delta)]
<1>1. /\ s.ws \in [Warehouses -> Nat] /\ s.keys \in SUBSET Warehouses
      /\ s.qty \in Nat /\ s.wh \in Places
  BY DEF Stock
<1>2. ws \in [Warehouses -> Nat]
  <2>1. \A v \in Warehouses : Max0(s.ws[v] + delta) \in Nat
    BY <1>1, Max0Type
  <2> QED
    BY <1>1, <2>1
<1>3. SumWs(ws) \in Nat
  BY <1>2, SumType
<1>4. Max0(s.qty + delta) \in Nat
  BY <1>1, Max0Type
<1> HIDE DEF ws
<1> DEFINE shelved == [s EXCEPT !.ws = ws, !.keys = @ \cup {w}, !.qty = SumWs(ws)]
<1>5. w # NoWarehouse => shelved \in Stock
  BY <1>1, <1>2, <1>3 DEF Stock, Places
<1>6. [s EXCEPT !.qty = Max0(@ + delta)] \in Stock
  BY <1>4 DEF Stock
<1>7. [s EXCEPT !.qty = Max0(@ + delta), !.wh = IF @ = NoWarehouse THEN w ELSE @] \in Stock
  BY <1>4 DEF Stock
<1>8. AfterDelta(i, s, w, delta) \in
        (IF w = NoWarehouse THEN {} ELSE {shelved})
        \cup {[s EXCEPT !.qty = Max0(@ + delta)],
              [s EXCEPT !.qty = Max0(@ + delta), !.wh = IF @ = NoWarehouse THEN w ELSE @]}
  BY DEF AfterDelta, ws
<1> QED
  BY <1>5, <1>6, <1>7, <1>8

LEMMA SavedType ==
  ASSUME NEW current \in Stock, NEW loaded \in Stock, NEW changed \in Stock
  PROVE  Saved(current, loaded, changed) \in Stock
  BY DEF Saved, SameMap, Stock

\* What Apply and Relocate write is a stock again.
LEMMA WrittenType ==
  ASSUME Typed, NEW q \in Requests, Apply(q) \/ Relocate(q)
  PROVE  stock' \in [Items -> Stock]
<1> DEFINE r == req[q].rec
           s == req[q].seen
<1>1. r \in Records /\ Rec[r].item \in Items /\ s \in Stock /\ stock[Rec[r].item] \in Stock
  BY RecFacts DEF Typed, TypeOK, Routed, Active, Apply, Relocate, RequestType
<1>2. CASE Apply(q)
  <2> DEFINE leg == Legs(r)[req[q].leg]
  <2>1. leg.wh \in Places /\ leg.delta \in Int
    BY <1>1, <1>2, LegType DEF Typed, TypeOK, Routed, Active, Apply, RequestType
  <2>2. AfterDelta(Rec[r].item, s, leg.wh, leg.delta) \in Stock
    BY <1>1, <2>1, AfterDeltaType
  <2> QED
    BY <1>1, <1>2, <2>2, SavedType DEF Apply, Typed, TypeOK
<1>3. CASE Relocate(q)
  <2>1. [s EXCEPT !.wh = IF Rec[r].to = NoWarehouse THEN @ ELSE Rec[r].to] \in Stock
    BY <1>1, RecFacts DEF Stock
  <2> QED
    BY <1>1, <1>3, <2>1, SavedType DEF Relocate, Typed, TypeOK
<1> QED
  BY <1>2, <1>3

LEMMA TypeInit == Init => Typed
<1> SUFFICES ASSUME Init PROVE Typed
  OBVIOUS
<1>1. InitStock \in [Items -> Stock]
  BY InventoryAssumption
<1>2. NotRead \in Stock
  BY DEF NotRead, Stock, Places
<1>3. \A q \in Requests : req[q] \in RequestType
  BY <1>2 DEF Init, RequestType, Active, Answers
<1>4. \A i \in Items : InitStock[i].qty \in Int
  BY <1>1 DEF Stock
<1> QED
  BY <1>1, <1>3, <1>4, InventoryAssumption DEF Init, Typed, TypeOK, Routed, Statuses, Active

LEMMA LoadedType ==
  ASSUME NEW x \in RequestType, NEW r \in Records, NEW pc \in Active \cup Answers
  PROVE  [x EXCEPT !.rec = r, !.pc = pc] \in RequestType
  BY DEF RequestType

LEMMA TypeStep == Typed /\ [Next]_vars => Typed'
<1> SUFFICES ASSUME Typed, [Next]_vars PROVE Typed'
  OBVIOUS
<1> USE InventoryAssumption DEF Typed, TypeOK, Routed, Active, Answers, RequestType, Goto
<1>0. ASSUME NEW q \in Requests, req[q].pc \in Active,
             NEW pc \in Active \cup Answers, Goto(q, pc),
             UNCHANGED <<stock, applied, booked, padded, crashes>>, status' \in [Records -> Statuses]
      PROVE  Typed'
  BY <1>0
<1>1. ASSUME NEW q \in Requests, NEW r \in Records, Load(q, r) PROVE Typed'
  <2>1. LegCount(r) \in {1, 2} /\ status[r] \in Statuses
    BY LegCountType
  <2>2. PICK pc \in {"ok", "rejected", "check", "fetch"} :
             req' = [req EXCEPT ![q].rec = r, ![q].pc = pc]
    BY <1>1, <2>1 DEF Load, Statuses
  <2>3. req[q].leg = 1 /\ UNCHANGED <<stock, status, applied, booked, padded, crashes>>
    BY <1>1 DEF Load
  <2>4. req' \in [Requests -> RequestType]
    <3>1. [req[q] EXCEPT !.rec = r, !.pc = pc] \in RequestType
      BY ZenonT(60), <2>2, LoadedType
    <3>2. req' = [req EXCEPT ![q] = [req[q] EXCEPT !.rec = r, !.pc = pc]]
      BY <2>2
    <3> QED
      BY <3>1, <3>2
  <2>5. Routed'
    BY <2>1, <2>2, <2>3
  <2> QED
    BY <2>3, <2>4, <2>5
<1>2. ASSUME NEW q \in Requests, CheckStockOut(q) PROVE Typed'
  BY <1>2, <1>0 DEF CheckStockOut
<1>3. ASSUME NEW q \in Requests, CheckProductTransfer(q) PROVE Typed'
  <2>1. \E pc \in {"rejected", "fetch"} : Goto(q, pc)
    BY <1>3 DEF CheckProductTransfer
  <2> QED
    BY <1>3, <2>1, <1>0 DEF CheckProductTransfer
<1>4. ASSUME NEW q \in Requests, NEW pc \in {"relocate", "apply"}, req[q].pc \in {"check", "fetch"},
             Read(q, pc), UNCHANGED <<stock, status, applied, booked, padded, crashes>>
      PROVE  Typed'
  <2>1. stock[Rec[req[q].rec].item] \in Stock
    BY <1>4, RecFacts
  <2>2. req' = [req EXCEPT ![q].pc = pc, ![q].seen = stock[Rec[req[q].rec].item]]
    BY <1>4 DEF Read
  <2>3. req' \in [Requests -> RequestType]
    <3> DEFINE new == [req[q] EXCEPT !.pc = pc, !.seen = stock[Rec[req[q].rec].item]]
    <3>1. new \in RequestType
      BY ZenonT(60), <2>1, <1>4
    <3>2. req' = [req EXCEPT ![q] = new]
      BY <2>2
    <3> QED
      BY <3>1, <3>2
  <2>4. Routed'
    BY <1>4, <2>2
  <2> QED
    BY <1>4, <2>3, <2>4
<1>5. ASSUME NEW q \in Requests, CheckWholeTransfer(q) PROVE Typed'
  <2>1. CASE Goto(q, "rejected")
    BY <1>5, <2>1, <1>0 DEF CheckWholeTransfer
  <2>2. CASE Read(q, "relocate")
    BY <1>5, <2>2, <1>4 DEF CheckWholeTransfer
  <2> QED
    BY <1>5, <2>1, <2>2 DEF CheckWholeTransfer
<1>6. ASSUME NEW q \in Requests, Fetch(q) PROVE Typed'
  BY <1>6, <1>4 DEF Fetch
<1>7. ASSUME NEW q \in Requests, Apply(q) PROVE Typed'
  <2>1. LegCount(req[q].rec) \in {1, 2} /\ req[q].rec \in Records
    BY <1>7, LegCountType DEF Apply
  <2>2. stock' \in [Items -> Stock]
    BY <1>7, WrittenType
  <2>3. Legs(req[q].rec)[req[q].leg].delta \in Int
    BY <1>7, LegType DEF Apply
  <2>4. applied' \in [Records -> Nat] /\ UNCHANGED <<status, crashes>>
    BY <1>7, <2>1 DEF Apply
  <2>5. booked' \in [Items -> Int]
    <3>1. \A i \in Items : booked[i] + Legs(req[q].rec)[req[q].leg].delta \in Int
      BY <2>3
    <3> QED
      BY <1>7, <3>1 DEF Apply
  <2>6. req' \in [Requests -> RequestType] /\ Routed'
    BY <1>7, <2>1 DEF Apply, AfterSave
  <2>7. padded' \subseteq Items
    BY <1>7, <2>1, RecFacts DEF Apply
  <2> QED
    BY <2>2, <2>4, <2>5, <2>6, <2>7
<1>8. ASSUME NEW q \in Requests, Relocate(q) PROVE Typed'
  <2>1. stock' \in [Items -> Stock]
    BY <1>8, WrittenType
  <2>2. req[q].rec \in Records /\ applied' \in [Records -> Nat]
    BY <1>8 DEF Relocate
  <2>3. req' \in [Requests -> RequestType] /\ Routed' /\ UNCHANGED <<status, booked, padded, crashes>>
    BY <1>8 DEF Relocate
  <2> QED
    BY <2>1, <2>2, <2>3
<1>9. ASSUME NEW q \in Requests, Stamp(q) PROVE Typed'
  <2>1. status' \in [Records -> Statuses] /\ \E pc \in {"failed", "ok"} : Goto(q, pc)
    BY <1>9 DEF Stamp, Statuses
  <2> QED
    BY <1>9, <2>1, <1>0 DEF Stamp
<1>10. ASSUME NEW r \in Records, EditStatus(r) \/ RemoveRecord(r) PROVE Typed'
  BY <1>10 DEF EditStatus, RemoveRecord, Statuses
<1>11. CASE Crash
  BY <1>11 DEF Crash
<1>12. CASE UNCHANGED vars
  BY <1>12 DEF vars
<1> QED
  BY <1>1, <1>2, <1>3, <1>5, <1>6, <1>7, <1>8, <1>9, <1>10, <1>11, <1>12 DEF Next, Handler

(* Quantities stay natural numbers and the handlers' state keeps its type, *)
(* whatever requests overlap in the controller and wherever it crashes.    *)
THEOREM TypeCorrect == Spec => []TypeOK
<1>1. Typed => TypeOK
  BY DEF Typed
<1> QED
  BY <1>1, TypeInit, TypeStep, PTL DEF Spec

-----------------------------------------------------------------------------
(* A settled record has moved its stock.                                   *)

\* The part of the type invariant the argument needs.
FlowOK ==
  /\ status \in [Records -> Statuses]
  /\ applied \in [Records -> Nat]
  /\ DOMAIN req = Requests
  /\ \A q \in Requests :
       /\ DOMAIN req[q] = {"pc", "rec", "leg", "seen"}
       /\ req[q].pc \in {"new"} \cup Active \cup Answers
       /\ req[q].pc \in Active => req[q].rec \in Records
       /\ req[q].leg \in {1, 2}

LEMMA TypedFlow == Typed => FlowOK
  BY DEF Typed, TypeOK, Routed, FlowOK, RequestType, Statuses

\* A handler about to save leg n has saved the legs before it, and one about
\* to stamp the record has saved them all.
Behind(q) ==
  /\ req[q].pc \in {"fetch", "apply"} => applied[req[q].rec] >= req[q].leg - 1
  /\ req[q].pc = "relocate" => LegCount(req[q].rec) = 1
  /\ req[q].pc \in {"new", "check", "relocate"} => req[q].leg = 1
  /\ req[q].pc = "stamp" => applied[req[q].rec] >= LegCount(req[q].rec)

LegsBehind == \A q \in Requests : Behind(q)

(* History only grows, so what a request has saved stays saved.            *)
LEMMA LegsStep ==
  ASSUME FlowOK, FlowOK', LegsBehind, [Next]_vars
  PROVE  LegsBehind'
<1> USE DEF FlowOK, LegsBehind, Behind, Active, Answers
<1>1. ASSUME NEW q \in Requests, NEW r \in Records, Load(q, r)
      PROVE  LegsBehind'
  <2>1. applied[r] \in Nat /\ applied' = applied
    BY <1>1 DEF Load
  <2>2. req'[q].leg = 1 /\ req'[q].rec = r
    BY <1>1 DEF Load
  <2>3. req'[q].pc \in {"ok", "rejected", "check", "fetch"}
    BY <1>1 DEF Load, Statuses
  <2>4. \A p \in Requests : p # q => req'[p] = req[p]
    BY <1>1 DEF Load
  <2> QED
    BY <2>1, <2>2, <2>3, <2>4
<1>2. ASSUME NEW q \in Requests, CheckStockOut(q)
      PROVE  LegsBehind'
  BY <1>2 DEF CheckStockOut, Goto
<1>3. ASSUME NEW q \in Requests, CheckProductTransfer(q)
      PROVE  LegsBehind'
  <2>1. UNCHANGED applied /\ req[q].pc = "check"
    BY <1>3 DEF CheckProductTransfer
  <2>2. \E pc \in {"rejected", "fetch"} : Goto(q, pc)
    BY <1>3 DEF CheckProductTransfer
  <2> QED
    BY <2>1, <2>2 DEF Goto
<1>4. ASSUME NEW q \in Requests, CheckWholeTransfer(q)
      PROVE  LegsBehind'
  <2>1. LegCount(req[q].rec) = 1
    BY <1>4 DEF CheckWholeTransfer, LegCount
  <2> QED
    BY <1>4, <2>1 DEF CheckWholeTransfer, Goto, Read
<1>5. ASSUME NEW q \in Requests, Fetch(q)
      PROVE  LegsBehind'
  BY <1>5 DEF Fetch, Read
<1>6. ASSUME NEW q \in Requests, Apply(q)
      PROVE  LegsBehind'
  <2> DEFINE r == req[q].rec
  <2>1. r \in Records /\ applied[r] \in Nat /\ applied' = [applied EXCEPT ![r] = @ + 1]
    BY <1>6 DEF Apply
  <2>2. applied'[r] >= req[q].leg
    BY <1>6, <2>1 DEF Apply
  <2>3. ASSUME NEW p \in Requests, p # q
        PROVE  Behind(p)'
    <3>1. req'[p] = req[p]
      BY <1>6, <2>3 DEF Apply, AfterSave, Goto
    <3>2. req[p].rec \in Records => applied'[req[p].rec] >= applied[req[p].rec]
      BY <2>1
    <3>3. LegCount(req[p].rec) \in {1, 2}
      BY LegCountType
    <3> QED
      BY <3>1, <3>2, <3>3
  <2>4. Behind(q)'
    <3>1. LegCount(r) \in {1, 2}
      BY LegCountType
    <3>2. CASE req[q].leg < LegCount(r)
      BY <1>6, <2>2, <3>1, <3>2 DEF Apply, AfterSave
    <3>3. CASE ~(req[q].leg < LegCount(r))
      BY <1>6, <2>2, <3>1, <3>3 DEF Apply, AfterSave, Goto
    <3> QED
      BY <3>2, <3>3
  <2> QED
    BY <2>3, <2>4
<1>7. ASSUME NEW q \in Requests, Relocate(q)
      PROVE  LegsBehind'
  <2> DEFINE r == req[q].rec
  <2>1. r \in Records /\ applied[r] \in Nat /\ applied' = [applied EXCEPT ![r] = @ + 1]
    BY <1>7 DEF Relocate
  <2>2. LegCount(r) = 1 /\ applied'[r] >= 1
    BY <1>7, <2>1 DEF Relocate
  <2>3. ASSUME NEW p \in Requests, p # q
        PROVE  Behind(p)'
    <3>1. req'[p] = req[p]
      BY <1>7, <2>3 DEF Relocate, Goto
    <3>2. req[p].rec \in Records => applied'[req[p].rec] >= applied[req[p].rec]
      BY <2>1
    <3>3. LegCount(req[p].rec) \in {1, 2}
      BY LegCountType
    <3> QED
      BY <3>1, <3>2, <3>3
  <2>4. Behind(q)'
    BY <1>7, <2>2 DEF Relocate, Goto
  <2> QED
    BY <2>3, <2>4
<1>8. ASSUME NEW q \in Requests, Stamp(q)
      PROVE  LegsBehind'
  BY <1>8 DEF Stamp, Goto
<1>9. ASSUME NEW r \in Records, EditStatus(r) \/ RemoveRecord(r)
      PROVE  LegsBehind'
  BY <1>9 DEF EditStatus, RemoveRecord
<1>10. CASE Crash
  BY <1>10 DEF Crash
<1>11. CASE UNCHANGED vars
  BY <1>11 DEF vars
<1> QED
  BY <1>1, <1>2, <1>3, <1>4, <1>5, <1>6, <1>7, <1>8, <1>9, <1>10, <1>11
  DEF Next, Handler

(* Only Stamp sets a record Done, and by then its legs are saved.          *)
LEMMA DoneStep ==
  ASSUME "Done" \notin EditTo, FlowOK, FlowOK', LegsBehind, DoneImpliesApplied, [Next]_vars
  PROVE  DoneImpliesApplied'
<1> USE DEF FlowOK, LegsBehind, Behind, Active, Answers, DoneImpliesApplied
<1>1. CASE UNCHANGED <<status, applied>>
  BY <1>1
<1>2. ASSUME NEW q \in Requests, Apply(q) \/ Relocate(q)
      PROVE  DoneImpliesApplied'
  <2>1. UNCHANGED status
    BY <1>2 DEF Apply, Relocate
  <2>2. \A r \in Records : applied'[r] >= applied[r]
    BY <1>2 DEF Apply, Relocate
  <2>3. \A r \in Records : LegCount(r) \in {1, 2} /\ applied[r] \in Nat /\ applied'[r] \in Nat
    BY <1>2, LegCountType DEF Apply, Relocate
  <2> QED
    BY <2>1, <2>2, <2>3
<1>3. ASSUME NEW q \in Requests, Stamp(q)
      PROVE  DoneImpliesApplied'
  <2>1. UNCHANGED applied /\ \A r \in Records : r # req[q].rec => status'[r] = status[r]
    BY <1>3 DEF Stamp
  <2>2. applied[req[q].rec] >= LegCount(req[q].rec)
    BY <1>3 DEF Stamp
  <2> QED
    BY <2>1, <2>2
<1>4. ASSUME NEW r \in Records, EditStatus(r) \/ RemoveRecord(r)
      PROVE  DoneImpliesApplied'
  BY <1>4 DEF EditStatus, RemoveRecord
<1>5. ASSUME NEW q \in Requests, NEW r \in Records, Load(q, r)
      PROVE  DoneImpliesApplied'
  BY <1>1, <1>5 DEF Load
<1>6. ASSUME NEW q \in Requests,
             CheckStockOut(q) \/ CheckProductTransfer(q) \/ CheckWholeTransfer(q) \/ Fetch(q)
      PROVE  DoneImpliesApplied'
  BY <1>1, <1>6 DEF CheckStockOut, CheckProductTransfer, CheckWholeTransfer, Fetch
<1>7. CASE Crash \/ UNCHANGED vars
  BY <1>1, <1>7 DEF Crash, vars
<1> QED
  BY <1>2, <1>3, <1>4, <1>5, <1>6, <1>7 DEF Next, Handler

\* DoneImpliesApplied alone is not inductive: Stamp needs to know what the
\* request it ends has saved.
DoneInv == Typed /\ LegsBehind /\ DoneImpliesApplied

(* No record is ever Approved or Completed before every leg of its delta   *)
(* was saved to its item, if clients do not write that status themselves   *)
(* through the generic update route.                                       *)
THEOREM DoneImpliesAppliedThm ==
  ASSUME "Done" \notin EditTo
  PROVE  Spec => []DoneImpliesApplied
<1>1. Init => DoneInv
  BY TypeInit DEF Init, DoneInv, LegsBehind, Behind, DoneImpliesApplied, Active
<1>2. DoneInv /\ [Next]_vars => DoneInv'
  <2> SUFFICES ASSUME DoneInv, [Next]_vars PROVE DoneInv'
    OBVIOUS
  <2>1. Typed' /\ FlowOK /\ FlowOK'
    <3>1. Typed'
      BY TypeStep DEF DoneInv
    <3>2. FlowOK
      BY TypedFlow DEF DoneInv
    <3>3. Typed' => FlowOK'
      BY TypedFlow DEF Typed, TypeOK, Routed, FlowOK, RequestType, Statuses
    <3> QED
      BY <3>1, <3>2, <3>3
  <2> QED
    BY <2>1, LegsStep, DoneStep DEF DoneInv
<1>3. DoneInv => DoneImpliesApplied
  BY DEF DoneInv
<1> QED
  BY <1>1, <1>2, <1>3, PTL DEF Spec

-----------------------------------------------------------------------------
(* The stock of a product is the sum of its warehouses.                    *)

\* Records of products name the warehouses they move stock from and to.
WarehousesNamed ==
  \A r \in Records : IsProduct(Rec[r].item) =>
    Rec[r].wh \in Warehouses /\ (Rec[r].op = "transfer" => Rec[r].to \in Warehouses)
SumAtFirst == \A i \in Items : IsProduct(i) => InitStock[i].qty = SumWs(InitStock[i].ws)

LEMMA LegWarehouse ==
  ASSUME WarehousesNamed, NEW r \in Records, IsProduct(Rec[r].item),
         NEW n \in {1, 2}, n <= LegCount(r)
  PROVE  Legs(r)[n].wh \in Warehouses
<1>1. CASE Rec[r].op \in {"in", "increase"}
  BY <1>1 DEF Legs, LegCount, WarehousesNamed
<1>2. CASE Rec[r].op \in {"out", "decrease"}
  BY <1>2 DEF Legs, LegCount, WarehousesNamed
<1>3. CASE Rec[r].op = "transfer"
  BY <1>3 DEF Legs, WarehousesNamed
<1> QED
  BY <1>1, <1>2, <1>3, RecFacts DEF Ops

\* A handler holds a copy whose two fields agree, and only items other than
\* products are relocated.
CopiesAgree ==
  \A q \in Requests :
    LET i == Rec[req[q].rec].item
    IN /\ req[q].pc = "apply" /\ IsProduct(i) /\ i \notin padded
            => req[q].seen.qty = SumWs(req[q].seen.ws)
       /\ req[q].pc = "relocate" => ~IsProduct(i)

\* The heart of the argument: either both fields of the copy changed and are
\* both sent, or neither did, or the map gained an empty key while it was current.
\* A changed shelf always changes the sum.
LEMMA SavedAgrees ==
  ASSUME NEW i \in Items, IsProduct(i), NEW current \in Stock, NEW loaded \in Stock,
         NEW w \in Warehouses, NEW delta \in Int,
         current.qty = SumWs(current.ws), loaded.qty = SumWs(loaded.ws),
         OnlyKeyAdded(loaded, AfterDelta(i, loaded, w, delta)) => current.ws = loaded.ws
  PROVE  LET s == Saved(current, loaded, AfterDelta(i, loaded, w, delta))
         IN  s.qty = SumWs(s.ws)
<1> DEFINE n == Max0(loaded.ws[w] + delta)
           ws == [loaded.ws EXCEPT ![w] = n]
<1>1. loaded.ws \in [Warehouses -> Nat] /\ n \in Nat
  BY Max0Type DEF Stock
<1>2. w # NoWarehouse
  BY InventoryAssumption
<1>3. AfterDelta(i, loaded, w, delta) =
        [loaded EXCEPT !.ws = ws, !.keys = @ \cup {w}, !.qty = SumWs(ws)]
  BY <1>2 DEF AfterDelta
<1>4. SumWs(ws) = SumWs(loaded.ws) - loaded.ws[w] + n /\ SumWs(loaded.ws) \in Nat
  BY <1>1, SumOfChange, SumType
<1>5. ws # loaded.ws => n # loaded.ws[w]
  BY <1>1
<1>6. ws # loaded.ws => SumWs(ws) # loaded.qty
  BY <1>1, <1>4, <1>5
<1> HIDE DEF n, ws
<1>7. CASE ws = loaded.ws
  BY <1>3, <1>7 DEF Saved, SameMap, OnlyKeyAdded, Stock
<1>8. CASE ws # loaded.ws
  BY <1>3, <1>6, <1>8 DEF Saved, SameMap, Stock
<1> QED
  BY <1>7, <1>8

SumInv == Typed /\ CopiesAgree /\ StockIsSum

LEMMA SumStep ==
  ASSUME WarehousesNamed, SumInv, [Next]_vars
  PROVE  CopiesAgree' /\ StockIsSum'
<1>t. Typed /\ Typed'
  BY TypeStep DEF SumInv
<1> USE <1>t DEF Typed, TypeOK, Routed, Active, Answers, RequestType, SumInv, CopiesAgree,
                 StockIsSum, Goto
<1>1. ASSUME NEW q \in Requests, UNCHANGED <<stock, padded>>, req'[q].pc \notin {"apply", "relocate"},
             \A p \in Requests : p # q => req'[p] = req[p]
      PROVE  CopiesAgree' /\ StockIsSum'
  BY <1>1
<1>2. ASSUME NEW q \in Requests, NEW r \in Records, Load(q, r)
      PROVE  CopiesAgree' /\ StockIsSum'
  <2>1. UNCHANGED <<stock, padded>> /\ req'[q].pc \notin {"apply", "relocate"}
    BY <1>2 DEF Load, Statuses
  <2>2. \A p \in Requests : p # q => req'[p] = req[p]
    BY <1>2 DEF Load
  <2> QED
    BY <1>1, <2>1, <2>2
<1>3. ASSUME NEW q \in Requests, CheckStockOut(q) \/ CheckProductTransfer(q) \/ Stamp(q)
      PROVE  CopiesAgree' /\ StockIsSum'
  <2>1. UNCHANGED <<stock, padded>> /\ \E pc \in {"rejected", "fetch", "failed", "ok"} : Goto(q, pc)
    BY <1>3 DEF CheckStockOut, CheckProductTransfer, Stamp
  <2> QED
    BY <2>1, <1>1
<1>4. ASSUME NEW q \in Requests, CheckWholeTransfer(q)
      PROVE  CopiesAgree' /\ StockIsSum'
  <2>1. CASE Goto(q, "rejected")
    BY <1>1, <1>4, <2>1 DEF CheckWholeTransfer
  <2>2. CASE Read(q, "relocate")
    <3>1. UNCHANGED <<stock, padded>> /\ ~IsProduct(Rec[req[q].rec].item)
      BY <1>4 DEF CheckWholeTransfer, Moves
    <3>2. /\ req'[q].pc = "relocate" /\ req'[q].rec = req[q].rec
          /\ \A p \in Requests : p # q => req'[p] = req[p]
      <4>1. req \in [Requests -> RequestType]
        OBVIOUS
      <4> HIDE DEF Typed, SumInv
      <4> QED
        BY <2>2, <4>1 DEF Read
    <3> QED
      BY <3>1, <3>2
  <2> QED
    BY <1>4, <2>1, <2>2 DEF CheckWholeTransfer
<1>5. ASSUME NEW q \in Requests, Fetch(q)
      PROVE  CopiesAgree' /\ StockIsSum'
  <2> DEFINE i == Rec[req[q].rec].item
  <2>1. i \in Items
    BY <1>5, RecFacts DEF Fetch
  <2>2. /\ UNCHANGED <<stock, padded>> /\ req'[q].pc = "apply" /\ req'[q].rec = req[q].rec
        /\ req'[q].seen = stock[i]
        /\ \A p \in Requests : p # q => req'[p] = req[p]
    <3>1. UNCHANGED <<stock, padded>> /\ Read(q, "apply")
      BY <1>5 DEF Fetch
    <3>2. req \in [Requests -> RequestType]
      OBVIOUS
    <3> HIDE DEF Typed, SumInv
    <3> QED
      BY <3>1, <3>2 DEF Read
  <2> QED
    BY <2>1, <2>2
<1>6. ASSUME NEW q \in Requests, Apply(q)
      PROVE  CopiesAgree' /\ StockIsSum'
  <2> DEFINE r == req[q].rec
             i == Rec[r].item
             leg == Legs(r)[req[q].leg]
             changed == AfterDelta(i, req[q].seen, leg.wh, leg.delta)
             new == Saved(stock[i], req[q].seen, changed)
  <2>1. r \in Records /\ i \in Items /\ req[q].leg \in {1, 2} /\ req[q].leg <= LegCount(r)
    BY <1>6, RecFacts DEF Apply
  <2>2. leg.delta \in Int
    BY <2>1, LegType
  <2>3. IsProduct(i) => leg.wh \in Warehouses
    BY <2>1, LegWarehouse
  <2>4. /\ stock' = [stock EXCEPT ![i] = new] /\ padded \subseteq padded'
        /\ i \notin padded' /\ OnlyKeyAdded(req[q].seen, changed) => stock[i].ws = req[q].seen.ws
    BY <1>6 DEF Apply
  <2>5. IsProduct(i) /\ i \notin padded' => new.qty = SumWs(new.ws)
    <3> SUFFICES ASSUME IsProduct(i), i \notin padded' PROVE new.qty = SumWs(new.ws)
      OBVIOUS
    <3>1. stock[i] \in Stock /\ req[q].seen \in Stock
      BY <2>1
    <3>2. stock[i].qty = SumWs(stock[i].ws) /\ req[q].seen.qty = SumWs(req[q].seen.ws)
      BY <1>6, <2>1, <2>4 DEF Apply
    <3>3. OnlyKeyAdded(req[q].seen, changed) => stock[i].ws = req[q].seen.ws
      BY <2>4
    <3>4. i \in Items /\ leg.wh \in Warehouses /\ leg.delta \in Int
      BY <2>1, <2>2, <2>3
    <3> HIDE DEF leg, i, r, Typed, TypeOK, Routed, StockIsSum, CopiesAgree, SumInv
    <3> QED
      BY <3>1, <3>2, <3>3, <3>4, SavedAgrees
  <2>6. StockIsSum'
    <3> HIDE DEF new
    <3>1. \A j \in Items : j # i => stock'[j] = stock[j]
      BY <2>4
    <3>2. stock'[i] = new
      BY <2>1, <2>4
    <3> HIDE DEF i, r
    <3> QED
      BY <2>4, <2>5, <3>1, <3>2
  <2>7. req'[q].pc \in {"fetch", "stamp"} /\ \A p \in Requests : p # q => req'[p] = req[p]
    <3>1. AfterSave(q) /\ req \in [Requests -> RequestType]
      BY <1>6 DEF Apply
    <3> HIDE DEF Typed, SumInv
    <3> QED
      BY <3>1 DEF AfterSave
  <2>8. CopiesAgree'
    <3> HIDE DEF new
    <3> QED
      BY <2>4, <2>7
  <2> QED
    BY <2>6, <2>8
<1>7. ASSUME NEW q \in Requests, Relocate(q)
      PROVE  CopiesAgree' /\ StockIsSum'
  <2> DEFINE i == Rec[req[q].rec].item
  <2>1. /\ ~IsProduct(i) /\ UNCHANGED padded
        /\ \A j \in Items : j # i => stock'[j] = stock[j]
    BY <1>7 DEF Relocate
  <2>2. req'[q].pc = "stamp" /\ \A p \in Requests : p # q => req'[p] = req[p]
    BY <1>7 DEF Relocate
  <2> QED
    BY <2>1, <2>2
<1>8. ASSUME NEW r \in Records, EditStatus(r) \/ RemoveRecord(r)
      PROVE  CopiesAgree' /\ StockIsSum'
  BY <1>8 DEF EditStatus, RemoveRecord
<1>9. CASE Crash
  BY <1>9 DEF Crash
<1>10. CASE UNCHANGED vars
  BY <1>10 DEF vars
<1> QED
  BY <1>2, <1>3, <1>4, <1>5, <1>6, <1>7, <1>8, <1>9, <1>10 DEF Next, Handler

(* The stock field of a product stays the sum of its warehouseStock map,   *)
(* whatever handlers overlap in applyInventoryDelta and lose updates to    *)
(* each other, if it is so at first and records name their warehouses,     *)
(* until a new empty key alone makes a save send a map that was overtaken. *)
THEOREM StockIsSumThm ==
  ASSUME WarehousesNamed, SumAtFirst
  PROVE  Spec => []StockIsSum
<1>1. Init => SumInv
  BY TypeInit, SumAtFirst DEF Init, SumInv, CopiesAgree, StockIsSum, SumAtFirst
<1>2. SumInv /\ [Next]_vars => SumInv'
  BY TypeStep, SumStep DEF SumInv
<1>3. SumInv => StockIsSum
  BY DEF SumInv
<1> QED
  BY <1>1, <1>2, <1>3, PTL DEF Spec

(* The whole transfer of a raw material or a finished good never touches   *)
(* its quantity, although it saves a copy that may be out of date.         *)
THEOREM RelocationThm == Spec => RelocationKeepsQuantity
<1>1. Typed /\ [Next]_vars
      => [\A q \in Requests : req[q].pc = "relocate" /\ req'[q].pc = "stamp"
            => \A i \in Items : stock'[i].qty = stock[i].qty /\ SameMap(stock'[i], stock[i])]_vars
  <2> SUFFICES ASSUME Typed, [Next]_vars, NEW q \in Requests,
                      req[q].pc = "relocate", req'[q].pc = "stamp", NEW i \in Items
               PROVE  stock'[i].qty = stock[i].qty /\ SameMap(stock'[i], stock[i])
    OBVIOUS
  <2> USE DEF Typed, TypeOK, RequestType, Stock, SameMap
  <2>1. CASE UNCHANGED stock
    BY <2>1
  <2>2. ASSUME NEW p \in Requests, Apply(p) PROVE FALSE
    BY <2>2 DEF Apply, AfterSave, Goto
  <2>3. ASSUME NEW p \in Requests, Relocate(p)
        PROVE  stock'[i].qty = stock[i].qty /\ SameMap(stock'[i], stock[i])
    BY <2>3 DEF Relocate, Saved
  <2> QED
    BY <2>1, <2>2, <2>3
    DEF Next, Handler, Load, CheckStockOut, CheckProductTransfer, CheckWholeTransfer, Fetch,
        Stamp, EditStatus, RemoveRecord, Crash, vars
<1> QED
  BY <1>1, TypeInit, TypeStep, PTL DEF Spec, RelocationKeepsQuantity

-----------------------------------------------------------------------------
(* Requests that do not overlap: the ledger is exact.                      *)

\* A request that is at work on record r.
AtWork(q, r) == req[q].pc \in Active /\ req[q].rec = r

\* Requests at work concern different items.
Apart ==
  \A p, q \in Requests :
    p # q /\ req[p].pc \in Active /\ req[q].pc \in Active
      => Rec[req[p].rec].item # Rec[req[q].rec].item

\* What the check of an outgoing record found is still there.
Covered(r) ==
  LET s == stock[Rec[r].item]
  IN  IF IsProduct(Rec[r].item) THEN s.ws[Rec[r].wh] >= Rec[r].qty ELSE s.qty >= Rec[r].qty

\* A request alone on its item works on a current copy, on a record that is
\* still pending, and up to a crash the record has moved just the legs before
\* the request's own.
Steady(q) ==
  LET r == req[q].rec
  IN req[q].pc \in Active =>
       /\ status[r] = "Pending"
       /\ req[q].pc \in {"apply", "relocate"} => req[q].seen = stock[Rec[r].item]
       /\ req[q].pc \in {"fetch", "apply"} =>
            /\ ~Moves(r)
            /\ req[q].leg = 1 /\ Rec[r].op \in {"out", "transfer"} => Covered(r)
       /\ req[q].pc = "relocate" => Moves(r) /\ Covered(r)
       /\ crashes = 0 =>
            applied[r] = IF req[q].pc = "stamp" THEN LegCount(r) ELSE req[q].leg - 1

\* Up to a crash, a pending record nobody is at work on has moved nothing.
Unmoved(r) ==
  crashes = 0 =>
    /\ applied[r] <= LegCount(r)
    /\ status[r] = "Pending" /\ (\A q \in Requests : ~AtWork(q, r)) => applied[r] = 0

LEMMA ShelfBelowSum ==
  ASSUME NEW ws \in [Warehouses -> Nat], NEW w \in Warehouses
  PROVE  ws[w] <= SumWs(ws)
<1>1. SumWs([ws EXCEPT ![w] = 0]) = SumWs(ws) - ws[w] + 0
  BY SumOfChange
<1>2. [ws EXCEPT ![w] = 0] \in [Warehouses -> Nat]
  OBVIOUS
<1>3. SumWs([ws EXCEPT ![w] = 0]) \in Nat /\ SumWs(ws) \in Nat /\ ws[w] \in Nat
  BY <1>2, SumType
<1> QED
  BY <1>1, <1>3

LEMMA SavedCurrent ==
  ASSUME NEW s \in Stock, NEW changed \in Stock
  PROVE  Saved(s, s, changed) = changed
  BY DEF Saved, SameMap, Stock

\* The quantity after a delta: exact unless it is clamped.
LEMMA DeltaBounds ==
  ASSUME NEW i \in Items, NEW s \in Stock, NEW w \in Places, NEW delta \in Int,
         IsProduct(i) => w \in Warehouses /\ s.qty = SumWs(s.ws)
  PROVE  LET n == AfterDelta(i, s, w, delta).qty
         IN /\ n \in Nat /\ n >= s.qty + delta
            /\ delta <= 0 => n <= s.qty
            /\ ~IsProduct(i) => n = Max0(s.qty + delta)
            /\ (IF IsProduct(i) THEN s.ws[w] + delta >= 0 ELSE s.qty + delta >= 0)
                 => n = s.qty + delta
<1>1. s.qty \in Nat /\ s.ws \in [Warehouses -> Nat]
  BY DEF Stock
<1>2. CASE ~IsProduct(i)
  <2>1. AfterDelta(i, s, w, delta).qty = Max0(s.qty + delta)
    BY <1>2 DEF AfterDelta, Stock
  <2> QED
    BY <1>1, <1>2, <2>1 DEF Max0
<1>3. CASE IsProduct(i)
  <2> DEFINE m == Max0(s.ws[w] + delta)
             ws == [s.ws EXCEPT ![w] = m]
  <2>1. w \in Warehouses /\ w # NoWarehouse /\ s.qty = SumWs(s.ws)
    BY <1>3, InventoryAssumption
  <2>2. s.ws[w] \in Nat /\ m \in Nat
    BY <1>1, <2>1, Max0Type
  <2>3. SumWs(ws) = SumWs(s.ws) - s.ws[w] + m
    BY <1>1, <2>1, <2>2, SumOfChange
  <2>4. s.ws[w] <= s.qty
    BY <1>1, <2>1, ShelfBelowSum
  <2>5. m >= s.ws[w] + delta /\ (s.ws[w] + delta >= 0 => m = s.ws[w] + delta)
        /\ (delta <= 0 => m <= s.ws[w])
    BY <2>2 DEF Max0
  <2>6. AfterDelta(i, s, w, delta).qty = SumWs(ws)
    BY <1>3, <2>1 DEF AfterDelta, Stock
  <2> HIDE DEF m, ws
  <2> QED
    BY <1>1, <1>3, <2>1, <2>2, <2>3, <2>4, <2>5, <2>6
<1> QED
  BY <1>2, <1>3

\* The legs of a record by its kind.
LEMMA LegFacts ==
  ASSUME NEW r \in Records, NEW n \in {1, 2}, n <= LegCount(r)
  PROVE  /\ Rec[r].op \in {"in", "increase"} => Legs(r)[n].delta = Rec[r].qty
         /\ Rec[r].op \in {"out", "decrease"} =>
              n = 1 /\ Legs(r)[n].delta = -Rec[r].qty /\ Legs(r)[n].wh = Rec[r].wh
         /\ Rec[r].op = "transfer" /\ n = 1 =>
              Legs(r)[n].delta = -Rec[r].qty /\ Legs(r)[n].wh = Rec[r].wh
         /\ Rec[r].op = "transfer" /\ n = 2 => Legs(r)[n].delta = Rec[r].qty
         /\ n = 2 => Rec[r].op = "transfer" /\ IsProduct(Rec[r].item)
<1>1. CASE Rec[r].op \in {"in", "increase"}
  BY <1>1 DEF Legs, LegCount
<1>2. CASE Rec[r].op \in {"out", "decrease"}
  BY <1>2 DEF Legs, LegCount
<1>3. CASE Rec[r].op = "transfer"
  BY <1>3 DEF Legs, LegCount, Moves
<1> QED
  BY <1>1, <1>2, <1>3, RecFacts DEF Ops

\* What a save of the item does while nobody else is at work on it.
LEMMA ApplyEffect ==
  ASSUME Typed, WarehousesNamed, StockIsSum, padded = {},
         NEW q \in Requests, Steady(q), Apply(q),
         NEW r, NEW i, NEW n, NEW d,
         r = req[q].rec, i = Rec[r].item, n = req[q].leg, d = Legs(r)[n].delta
  PROVE  /\ r \in Records /\ i \in Items /\ n \in {1, 2} /\ n <= LegCount(r) /\ d \in Int
         /\ \A j \in Items : j # i => stock'[j] = stock[j]
         /\ padded' = {}
         /\ stock'[i].qty \in Nat /\ stock[i].qty \in Nat
         /\ stock'[i].qty >= stock[i].qty + d
         /\ d <= 0 => stock'[i].qty <= stock[i].qty
         /\ ~IsProduct(i) => stock'[i].qty = Max0(stock[i].qty + d)
         /\ Rec[r].op # "decrease" => stock'[i].qty = stock[i].qty + d
         /\ n = 1 /\ Rec[r].op \in {"out", "transfer"} => stock[i].qty >= Rec[r].qty
<1> DEFINE w == Legs(r)[n].wh
<1>1. /\ r \in Records /\ i \in Items /\ n \in {1, 2} /\ n <= LegCount(r)
      /\ stock[i] \in Stock /\ req[q].pc = "apply"
  BY RecFacts DEF Typed, TypeOK, Routed, Active, Apply, RequestType
<1>2. w \in Places /\ d \in Int
  BY <1>1, LegType
<1>3. IsProduct(i) => w \in Warehouses /\ stock[i].qty = SumWs(stock[i].ws)
  BY <1>1, LegWarehouse DEF StockIsSum
<1>4. req[q].seen = stock[i]
  BY <1>1 DEF Steady, Active
<1>5. AfterDelta(i, stock[i], w, d) \in Stock
  BY <1>1, <1>2, AfterDeltaType
<1>6. stock' = [stock EXCEPT ![i] = AfterDelta(i, stock[i], w, d)]
  <2>1. stock' = [stock EXCEPT ![i] = Saved(stock[i], req[q].seen, AfterDelta(i, req[q].seen, w, d))]
    BY DEF Apply
  <2>2. Saved(stock[i], stock[i], AfterDelta(i, stock[i], w, d)) = AfterDelta(i, stock[i], w, d)
    BY <1>1, <1>5, SavedCurrent
  <2> HIDE DEF w
  <2> QED
    BY <2>1, <2>2, <1>4
<1>p. padded' = {}
  BY <1>4 DEF Apply
<1>7. /\ stock'[i].qty = AfterDelta(i, stock[i], w, d).qty
      /\ \A j \in Items : j # i => stock'[j] = stock[j]
  BY <1>1, <1>6 DEF Typed, TypeOK
<1>8. /\ stock'[i].qty \in Nat /\ stock'[i].qty >= stock[i].qty + d
      /\ d <= 0 => stock'[i].qty <= stock[i].qty
      /\ ~IsProduct(i) => stock'[i].qty = Max0(stock[i].qty + d)
      /\ (IF IsProduct(i) THEN stock[i].ws[w] + d >= 0 ELSE stock[i].qty + d >= 0)
           => stock'[i].qty = stock[i].qty + d
  <2> DEFINE a == AfterDelta(i, stock[i], w, d)
  <2> HIDE DEF w
  <2>1. /\ a.qty \in Nat /\ a.qty >= stock[i].qty + d /\ (d <= 0 => a.qty <= stock[i].qty)
        /\ (~IsProduct(i) => a.qty = Max0(stock[i].qty + d))
        /\ (IF IsProduct(i) THEN stock[i].ws[w] + d >= 0 ELSE stock[i].qty + d >= 0)
             => a.qty = stock[i].qty + d
    BY <1>1, <1>2, <1>3, DeltaBounds
  <2> HIDE DEF a
  <2> QED
    BY <1>7, <2>1 DEF a
<1>9. stock[i].qty \in Nat /\ stock[i].ws \in [Warehouses -> Nat]
  BY <1>1 DEF Stock
<1>10. n = 1 /\ Rec[r].op \in {"out", "transfer"} =>
         /\ w = Rec[r].wh /\ d = -Rec[r].qty /\ stock[i].qty >= Rec[r].qty
         /\ IF IsProduct(i) THEN stock[i].ws[w] >= Rec[r].qty ELSE stock[i].qty >= Rec[r].qty
  <2> SUFFICES ASSUME n = 1, Rec[r].op \in {"out", "transfer"}
               PROVE  /\ w = Rec[r].wh /\ d = -Rec[r].qty /\ stock[i].qty >= Rec[r].qty
                      /\ IF IsProduct(i) THEN stock[i].ws[w] >= Rec[r].qty
                         ELSE stock[i].qty >= Rec[r].qty
    OBVIOUS
  <2>1. w = Rec[r].wh /\ d = -Rec[r].qty
    BY <1>1, LegFacts
  <2>2. Covered(r)
    BY <1>1 DEF Steady, Active
  <2>3. IsProduct(i) => stock[i].ws[w] <= stock[i].qty
    BY <1>3, <1>9, ShelfBelowSum
  <2>4. Rec[r].qty \in Nat /\ (IsProduct(i) => stock[i].ws[w] \in Nat)
    BY <1>1, <1>3, <1>9, RecFacts
  <2> QED
    BY SMTT(30), <2>1, <2>2, <2>3, <2>4, <1>9 DEF Covered
<1>11. ASSUME Rec[r].op # "decrease"
       PROVE  stock'[i].qty = stock[i].qty + d
  <2>1. Rec[r].qty \in Nat
    BY <1>1, RecFacts
  <2>2. IsProduct(i) => stock[i].ws[w] \in Nat
    BY <1>3, <1>9
  <2>3. CASE d >= 0
    <3> HIDE DEF w
    <3> QED
      BY <2>2, <2>3, <1>2, <1>8, <1>9
  <2>4. CASE n = 1 /\ Rec[r].op \in {"out", "transfer"}
    <3> HIDE DEF w
    <3> QED
      BY <2>1, <2>2, <2>4, <1>8, <1>9, <1>10
  <2>5. d >= 0 \/ (n = 1 /\ Rec[r].op \in {"out", "transfer"})
    BY <2>1, <1>1, <1>11, LegFacts, RecFacts DEF Ops
  <2> QED
    BY <2>3, <2>4, <2>5
<1> QED
  BY <1>p, <1>1, <1>2, <1>7, <1>8, <1>9, <1>10, <1>11

LedgerInv ==
  /\ SumInv /\ padded = {} /\ LegsBehind /\ Apart /\ QuantityExact
  /\ \A q \in Requests : Steady(q)
  /\ \A r \in Records : Unmoved(r)

\* Only Load gives a request its record and sets it to work.
LEMMA Newcomers ==
  ASSUME Typed, [Next]_vars, NEW q \in Requests
  PROVE  \/ req'[q].rec = req[q].rec /\ (req'[q].pc \in Active => req[q].pc \in Active)
         \/ \E r \in Records : Load(q, r)
<1> USE DEF Typed, TypeOK, RequestType
<1>1. ASSUME NEW p \in Requests, p # q, Handler(p)
      PROVE  req'[q] = req[q]
  BY <1>1 DEF Handler, Load, CheckStockOut, CheckProductTransfer, CheckWholeTransfer, Fetch, Apply,
              Relocate, Stamp, AfterSave, Goto, Read
<1>2. CASE CheckStockOut(q) \/ CheckProductTransfer(q) \/ CheckWholeTransfer(q)
           \/ Fetch(q) \/ Apply(q) \/ Relocate(q) \/ Stamp(q)
  <2>1. CASE CheckStockOut(q) \/ CheckProductTransfer(q) \/ CheckWholeTransfer(q)
    BY <2>1 DEF CheckStockOut, CheckProductTransfer, CheckWholeTransfer, Goto, Read, Active
  <2>2. CASE Fetch(q) \/ Relocate(q) \/ Stamp(q)
    BY <2>2 DEF Fetch, Relocate, Stamp, Goto, Read, Active
  <2>3. CASE Apply(q)
    <3>1. req[q].pc = "apply" /\ AfterSave(q)
      BY <2>3 DEF Apply
    <3> QED
      BY <3>1 DEF AfterSave, Goto, Active
  <2> QED
    BY <1>2, <2>1, <2>2, <2>3
<1>3. CASE Crash
  BY <1>3 DEF Crash, Active
<1> QED
  BY <1>1, <1>2, <1>3 DEF Next, Handler, EditStatus, RemoveRecord, vars

LEMMA ApartStep ==
  ASSUME Exclusive, Typed, Typed', Apart, [Next]_vars
  PROVE  Apart'
<1> SUFFICES ASSUME NEW p \in Requests, NEW q \in Requests, p # q,
                    req'[p].pc \in Active, req'[q].pc \in Active
             PROVE  Rec[req'[p].rec].item # Rec[req'[q].rec].item
  BY DEF Apart
<1>1. ASSUME NEW a \in Requests, NEW b \in Requests, a # b, NEW r \in Records, Load(a, r),
             req'[b].pc \in Active
      PROVE  Rec[req'[a].rec].item # Rec[req'[b].rec].item
  <2>1. req'[a].rec = r /\ req'[b] = req[b] /\ ~InFlight(r)
    BY <1>1 DEF Load, MayOverlap, Typed, TypeOK, RequestType
  <2> QED
    BY <1>1, <2>1 DEF InFlight
<1>2. CASE \A a \in Requests : ~\E r \in Records : Load(a, r)
  BY <1>2, Newcomers DEF Apart
<1> QED
  BY <1>1, <1>2, Newcomers DEF Apart

\* A request that does not move itself, while the one that moves, if any,
\* changes no more than its own item and record.
LEMMA SteadyFrame ==
  ASSUME Typed, NEW p \in Requests, Steady(p), req'[p] = req[p], crashes' = crashes,
         NEW r, NEW i,
         req[p].pc \in Active => req[p].rec # r /\ Rec[req[p].rec].item # i,
         \A j \in Items : j # i => stock'[j] = stock[j],
         \A x \in Records : x # r => status'[x] = status[x] /\ applied'[x] = applied[x]
  PROVE  Steady(p)'
<1> SUFFICES ASSUME req[p].pc \in Active PROVE Steady(p)'
  BY DEF Steady
<1>1. PICK x \in Records : x = req[p].rec
  BY DEF Typed, Routed
<1>2. Rec[x].item \in Items
  BY RecFacts
<1>3. /\ stock'[Rec[x].item] = stock[Rec[x].item]
      /\ status'[x] = status[x] /\ applied'[x] = applied[x]
  BY <1>1, <1>2
<1>4. Covered(x)' <=> Covered(x)
  BY <1>3 DEF Covered
<1>5. req'[p].rec = x
  BY <1>1
<1> QED
  BY <1>1, <1>3, <1>4, <1>5 DEF Steady

\* The others while request q is at work.
LEMMA OthersSteady ==
  ASSUME Typed, Apart, NEW p \in Requests, NEW q \in Requests, p # q, Steady(p),
         req'[p] = req[p], crashes' = crashes, req[q].pc \in Active,
         \A j \in Items : j # Rec[req[q].rec].item => stock'[j] = stock[j],
         \A x \in Records : x # req[q].rec => status'[x] = status[x] /\ applied'[x] = applied[x]
  PROVE  Steady(p)'
<1>1. req[p].pc \in Active =>
        req[p].rec # req[q].rec /\ Rec[req[p].rec].item # Rec[req[q].rec].item
  BY DEF Apart
<1> QED
  BY SMTT(30), <1>1, SteadyFrame

\* The moving request itself, action by action.
LEMMA LoadSteady ==
  ASSUME LedgerInv, Exclusive, NEW q \in Requests, NEW r \in Records, Load(q, r)
  PROVE  Steady(q)'
<1> USE DEF LedgerInv, SumInv, Typed, TypeOK, RequestType
<1>1. /\ req'[q].rec = r /\ req'[q].leg = 1 /\ UNCHANGED <<stock, status, applied, crashes>>
      /\ req'[q].pc \in {"ok", "rejected", "check", "fetch"}
      /\ req'[q].pc \in {"check", "fetch"} => status[r] = "Pending"
      /\ req'[q].pc = "fetch" => Rec[r].op \notin {"out", "transfer"}
  BY DEF Load, Routed, Statuses
<1>2. ~InFlight(r)
  BY DEF Load, MayOverlap
<1>3. \A p \in Requests : ~AtWork(p, r)
  BY <1>2 DEF InFlight, AtWork
<1>4. status[r] = "Pending" /\ crashes = 0 => applied[r] = 0
  BY <1>3 DEF Unmoved
<1>5. Rec[r].op \notin {"out", "transfer"} => ~Moves(r)
  BY DEF Moves
<1> QED
  BY <1>1, <1>4, <1>5 DEF Steady, Active

LEMMA CheckSteady ==
  ASSUME LedgerInv, WarehousesNamed, NEW q \in Requests, CheckStockOut(q) \/ CheckProductTransfer(q)
  PROVE  Steady(q)'
<1> USE DEF LedgerInv, SumInv, Typed, TypeOK, RequestType
<1>0. PICK r \in Records : r = req[q].rec
  BY DEF CheckStockOut, CheckProductTransfer, Routed, Active
<1>1. PICK pc \in {"rejected", "fetch"} : Goto(q, pc)
  BY DEF CheckStockOut, CheckProductTransfer
<1>2. /\ req'[q].rec = r /\ req'[q].leg = 1 /\ req'[q].pc = pc
      /\ UNCHANGED <<stock, status, applied, crashes>>
  BY <1>0, <1>1 DEF CheckStockOut, CheckProductTransfer, Goto, LegsBehind, Behind
<1>3. status[r] = "Pending" /\ (crashes = 0 => applied[r] = 0)
  BY SMTT(30), <1>0 DEF Steady, CheckStockOut, CheckProductTransfer, Active, LegsBehind, Behind
<1>4. Rec[r].op \in Ops /\ Rec[r].item \in Items /\ Rec[r].qty \in Nat /\ Rec[r].wh \in Places
  BY RecFacts
<1>5. PICK i \in Items : i = Rec[r].item
  BY <1>4
<1>6. stock[i].qty \in Nat /\ stock[i].ws \in [Warehouses -> Nat] /\ Reserved[i] \in Nat
  BY InventoryAssumption DEF Stock
<1>7. IsProduct(i) => Rec[r].wh \in Warehouses /\ Rec[r].wh # NoWarehouse
  BY <1>5, InventoryAssumption DEF WarehousesNamed
<1>8. IsProduct(i) => stock[i].ws[Rec[r].wh] \in Nat
  BY <1>6, <1>7
<1>9. CASE CheckStockOut(q)
  <2>1. ~Moves(r)
    BY <1>0, <1>9 DEF CheckStockOut, Moves
  <2>2. pc = "fetch" => Rec[r].qty <= Available(i, stock[i], Rec[r].wh)
    <3>1. pc = "fetch" => ~(Rec[r].qty > Available(i, stock[i], Rec[r].wh))
      BY <1>0, <1>2, <1>5, <1>9 DEF CheckStockOut, Goto
    <3>2. Available(i, stock[i], Rec[r].wh) \in Nat
      BY <1>6, <1>7, <1>8, Max0Type DEF Available
    <3> QED
      BY <1>4, <3>1, <3>2
  <2>3. Available(i, stock[i], Rec[r].wh)
          <= IF IsProduct(i) THEN stock[i].ws[Rec[r].wh] ELSE stock[i].qty
    BY <1>6, <1>7, <1>8 DEF Available, Max0
  <2>4. pc = "fetch" => Covered(r)
    <3>1. Available(i, stock[i], Rec[r].wh) \in Nat
      BY <1>6, <1>7, <1>8, Max0Type DEF Available
    <3> QED
      BY <2>2, <2>3, <3>1, <1>4, <1>5, <1>6, <1>8 DEF Covered
  <2>5. Covered(r)' <=> Covered(r)
    BY <1>2 DEF Covered
  <2> QED
    BY <2>1, <2>4, <2>5, <1>2, <1>3 DEF Steady, Active
<1>10. CASE CheckProductTransfer(q)
  <2>1. ~Moves(r) /\ IsProduct(i)
    BY <1>0, <1>5, <1>10 DEF CheckProductTransfer, Moves
  <2>2. pc = "fetch" => ~(stock[i].ws[Rec[r].wh] < Rec[r].qty)
    BY <1>0, <1>2, <1>5, <1>7, <1>10, <2>1 DEF CheckProductTransfer, Goto
  <2>3. pc = "fetch" => Covered(r)
    BY <2>1, <2>2, <1>4, <1>5, <1>8 DEF Covered
  <2>4. Covered(r)' <=> Covered(r)
    BY <1>2 DEF Covered
  <2> QED
    BY <2>1, <2>3, <2>4, <1>2, <1>3 DEF Steady, Active
<1> QED
  BY <1>9, <1>10

LEMMA WholeCheckSteady ==
  ASSUME LedgerInv, NEW q \in Requests, CheckWholeTransfer(q)
  PROVE  Steady(q)'
<1> USE DEF LedgerInv, SumInv, Typed, TypeOK, RequestType
<1>0. PICK r \in Records : r = req[q].rec
  BY DEF CheckWholeTransfer, Routed, Active
<1>1. CASE Goto(q, "rejected")
  BY <1>1 DEF Goto, Steady, Active
<1>2. CASE /\ Read(q, "relocate") /\ Rec[r].qty >= stock[Rec[r].item].qty
           /\ Rec[r].qty <= Available(Rec[r].item, stock[Rec[r].item], Rec[r].wh)
  <2>1. /\ req'[q].rec = r /\ req'[q].leg = 1 /\ req'[q].pc = "relocate"
        /\ req'[q].seen = stock[Rec[r].item]
        /\ UNCHANGED <<stock, status, applied, crashes>> /\ Moves(r)
    BY <1>0, <1>2 DEF CheckWholeTransfer, Read, LegsBehind, Behind
  <2>2. status[r] = "Pending" /\ (crashes = 0 => applied[r] = 0)
    BY <1>0 DEF Steady, CheckWholeTransfer, Active, LegsBehind, Behind
  <2>3. PICK i \in Items : i = Rec[r].item
    BY RecFacts
  <2>4. stock[i].qty \in Nat /\ Reserved[i] \in Nat /\ Rec[r].qty \in Nat
    BY InventoryAssumption, RecFacts DEF Stock
  <2>5. ~IsProduct(i)
    BY <2>1, <2>3 DEF Moves
  <2>6. Available(i, stock[i], Rec[r].wh) <= stock[i].qty /\ Available(i, stock[i], Rec[r].wh) \in Nat
    BY <2>4, <2>5 DEF Available, Max0
  <2>7. Covered(r)
    BY <1>2, <2>3, <2>4, <2>5, <2>6 DEF Covered
  <2>8. Covered(r)' <=> Covered(r)
    BY <2>1 DEF Covered
  <2> QED
    BY <2>1, <2>2, <2>7, <2>8 DEF Steady, Active
<1> QED
  BY <1>0, <1>1, <1>2 DEF CheckWholeTransfer

LEMMA FetchSteady ==
  ASSUME LedgerInv, NEW q \in Requests, Fetch(q)
  PROVE  Steady(q)'
<1> USE DEF LedgerInv, SumInv, Typed, TypeOK, RequestType
<1>0. PICK r \in Records : r = req[q].rec
  BY DEF Fetch, Routed, Active
<1>1. /\ req'[q].rec = r /\ req'[q].leg = req[q].leg /\ req'[q].pc = "apply"
      /\ req'[q].seen = stock[Rec[r].item]
      /\ UNCHANGED <<stock, status, applied, crashes>> /\ req[q].pc = "fetch"
  BY <1>0 DEF Fetch, Read
<1>2. Covered(r)' <=> Covered(r)
  BY <1>1 DEF Covered
<1> QED
  BY <1>0, <1>1, <1>2 DEF Steady, Active

LEMMA ApplySteady ==
  ASSUME LedgerInv, NEW q \in Requests, Apply(q)
  PROVE  Steady(q)' /\ \A r \in Records : r = req[q].rec => Unmoved(r)'
<1> USE DEF LedgerInv, SumInv, Typed, TypeOK, RequestType
<1>0. PICK r \in Records : r = req[q].rec
  BY DEF Apply, Routed, Active
<1>1. PICK n \in {1, 2} : n = req[q].leg
  OBVIOUS
<1>2. n <= LegCount(r) /\ LegCount(r) \in {1, 2}
  BY <1>0, <1>1, LegCountType DEF Apply, Routed, Active
<1>3. /\ status[r] = "Pending" /\ status' = status /\ crashes' = crashes
      /\ ~Moves(r) /\ (crashes = 0 => applied[r] = n - 1) /\ applied'[r] = applied[r] + 1
      /\ applied[r] \in Nat
  BY <1>0, <1>1 DEF Apply, Steady, Active
<1>4. /\ req'[q].rec = r
      /\ IF n < LegCount(r) THEN req'[q].pc = "fetch" /\ req'[q].leg = 2
                            ELSE req'[q].pc = "stamp"
  BY <1>0, <1>1 DEF Apply, AfterSave, Goto
<1>5. Steady(q)'
  BY <1>1, <1>2, <1>3, <1>4 DEF Steady, Active
<1>6. AtWork(q, r)'
  BY <1>2, <1>4 DEF AtWork, Active
<1>7. Unmoved(r)'
  BY <1>1, <1>2, <1>3, <1>6 DEF Unmoved
<1> QED
  BY <1>0, <1>5, <1>7

LEMMA RelocateSteady ==
  ASSUME LedgerInv, NEW q \in Requests, Relocate(q)
  PROVE  Steady(q)' /\ \A r \in Records : r = req[q].rec => Unmoved(r)'
<1> USE DEF LedgerInv, SumInv, Typed, TypeOK, RequestType
<1>0. PICK r \in Records : r = req[q].rec
  BY DEF Relocate, Routed, Active
<1>1. LegCount(r) = 1 /\ req[q].leg = 1
  BY <1>0 DEF Relocate, LegsBehind, Behind
<1>2. /\ status[r] = "Pending" /\ status' = status /\ crashes' = crashes
      /\ (crashes = 0 => applied[r] = 0) /\ applied'[r] = applied[r] + 1 /\ applied[r] \in Nat
  BY <1>0, <1>1 DEF Relocate, Steady, Active
<1>3. req'[q].rec = r /\ req'[q].pc = "stamp"
  BY <1>0 DEF Relocate, Goto
<1>4. Steady(q)'
  BY <1>1, <1>2, <1>3 DEF Steady, Active
<1>5. AtWork(q, r)'
  BY <1>3 DEF AtWork, Active
<1>6. Unmoved(r)'
  BY <1>1, <1>2, <1>5 DEF Unmoved
<1> QED
  BY <1>0, <1>4, <1>6

\* A step that moves neither stock nor records.
LEMMA QuietOthers ==
  ASSUME LedgerInv, NEW p \in Requests, req'[p] = req[p],
         UNCHANGED <<stock, status, applied, crashes>>
  PROVE  Steady(p)'
<1> USE DEF LedgerInv, SumInv
<1>1. Steady(p) /\ Typed
  OBVIOUS
<1>2. \A x \in Records : Covered(x)' <=> Covered(x)
  BY DEF Covered
<1>3. req[p].pc \in Active => req[p].rec \in Records
  BY DEF Typed, Routed
<1> QED
  BY <1>1, <1>2, <1>3 DEF Steady

LEMMA SteadyStep ==
  ASSUME LedgerInv, Exclusive, WarehousesNamed, [Next]_vars
  PROVE  \A q \in Requests : Steady(q)'
<1> USE DEF LedgerInv, SumInv
<1>0. Typed /\ Apart /\ \A p \in Requests : Steady(p)
  OBVIOUS
<1>1. ASSUME NEW q \in Requests, NEW r \in Records, Load(q, r)
      PROVE  \A p \in Requests : Steady(p)'
  <2>1. UNCHANGED <<stock, status, applied, crashes>> /\ \A p \in Requests : p # q => req'[p] = req[p]
    BY <1>1 DEF Load, Typed, TypeOK
  <2> QED
    BY <1>1, <2>1, LoadSteady, QuietOthers
<1>2. ASSUME NEW q \in Requests,
             CheckStockOut(q) \/ CheckProductTransfer(q) \/ CheckWholeTransfer(q) \/ Fetch(q)
      PROVE  \A p \in Requests : Steady(p)'
  <2>1. UNCHANGED <<stock, status, applied, crashes>> /\ \A p \in Requests : p # q => req'[p] = req[p]
    BY <1>2 DEF CheckStockOut, CheckProductTransfer, CheckWholeTransfer, Fetch, Goto, Read,
                Typed, TypeOK
  <2> QED
    BY <1>2, <2>1, CheckSteady, WholeCheckSteady, FetchSteady, QuietOthers
<1>3. ASSUME NEW q \in Requests, Apply(q) \/ Relocate(q)
      PROVE  \A p \in Requests : Steady(p)'
  <2>1. /\ req[q].pc \in Active /\ crashes' = crashes /\ status' = status
        /\ \A p \in Requests : p # q => req'[p] = req[p]
        /\ \A j \in Items : j # Rec[req[q].rec].item => stock'[j] = stock[j]
        /\ \A x \in Records : x # req[q].rec => applied'[x] = applied[x]
    BY <1>3 DEF Apply, Relocate, AfterSave, Goto, Active, Typed, TypeOK
  <2>2. ASSUME NEW p \in Requests, p # q PROVE Steady(p)'
    BY <1>0, <2>1, <2>2, OthersSteady
  <2> QED
    BY <1>3, <2>2, ApplySteady, RelocateSteady
<1>4. ASSUME NEW q \in Requests, Stamp(q)
      PROVE  \A p \in Requests : Steady(p)'
  <2>1. /\ req[q].pc \in Active /\ crashes' = crashes /\ stock' = stock /\ applied' = applied
        /\ \A p \in Requests : p # q => req'[p] = req[p]
        /\ \A x \in Records : x # req[q].rec => status'[x] = status[x]
        /\ req'[q].pc \notin Active
    BY <1>4 DEF Stamp, Goto, Active, Typed, TypeOK, RequestType
  <2>2. ASSUME NEW p \in Requests, p # q PROVE Steady(p)'
    BY <1>0, <2>1, <2>2, OthersSteady
  <2>3. Steady(q)'
    BY <2>1 DEF Steady
  <2> QED
    BY <2>2, <2>3
<1>5. ASSUME NEW r \in Records, EditStatus(r) \/ RemoveRecord(r)
      PROVE  \A p \in Requests : Steady(p)'
  <2>1. /\ ~InFlight(r) /\ UNCHANGED <<stock, req, applied, crashes>>
        /\ \A x \in Records : x # r => status'[x] = status[x]
    BY <1>5 DEF EditStatus, RemoveRecord, MayOverlap, Typed, TypeOK
  <2>2. ASSUME NEW p \in Requests PROVE Steady(p)'
    <3>1. req[p].pc \in Active => req[p].rec # r /\ Rec[req[p].rec].item # Rec[r].item
      BY <2>1 DEF InFlight
    <3>2. req'[p] = req[p] /\ crashes' = crashes /\ stock' = stock /\ applied' = applied
      BY <2>1
    <3> QED
      BY <1>0, <2>1, <3>1, <3>2, SteadyFrame
  <2> QED
    BY <2>2
<1>6. CASE Crash
  <2>1. ASSUME NEW p \in Requests PROVE req'[p].pc \notin Active
    BY <1>6, <2>1 DEF Crash, Active, Typed, TypeOK, RequestType
  <2> QED
    BY <2>1 DEF Steady
<1>7. CASE UNCHANGED vars
  BY <1>7, QuietOthers DEF vars
<1> QED
  BY <1>1, <1>2, <1>3, <1>4, <1>5, <1>6, <1>7 DEF Next, Handler

LEMMA UnmovedStep ==
  ASSUME LedgerInv, Exclusive, "Pending" \notin EditTo, [Next]_vars
  PROVE  \A r \in Records : Unmoved(r)'
<1> USE DEF LedgerInv, SumInv
<1>0. Typed /\ (\A p \in Requests : Steady(p)) /\ (\A x \in Records : Unmoved(x))
  OBVIOUS
<1>1. ASSUME NEW x \in Records, crashes' = crashes, applied'[x] = applied[x],
             status'[x] = "Pending" => status[x] = "Pending",
             \/ status'[x] # "Pending"
             \/ \A p \in Requests : AtWork(p, x) => AtWork(p, x)'
             \/ crashes = 0 => applied[x] = 0
      PROVE  Unmoved(x)'
  BY <1>0, <1>1 DEF Unmoved
<1>2. ASSUME NEW q \in Requests, NEW r \in Records, Load(q, r), NEW x \in Records
      PROVE  Unmoved(x)'
  <2>1. \A p \in Requests : AtWork(p, x) => AtWork(p, x)'
    BY <1>2 DEF Load, AtWork, Active, Typed, TypeOK
  <2> QED
    BY <2>1, <1>1, <1>2 DEF Load
<1>3. ASSUME NEW q \in Requests, NEW x \in Records,
             CheckStockOut(q) \/ CheckProductTransfer(q) \/ CheckWholeTransfer(q) \/ Fetch(q)
      PROVE  Unmoved(x)'
  <2>1. UNCHANGED <<status, applied, crashes>>
    BY <1>3 DEF CheckStockOut, CheckProductTransfer, CheckWholeTransfer, Fetch
  <2>2. CASE req'[q].pc = "rejected" /\ req[q].pc = "check" /\ req[q].rec = x
    <3>1. crashes = 0 => applied[x] = 0
      BY <2>2 DEF Steady, LegsBehind, Behind, Active
    <3> QED
      BY <2>1, <3>1, <1>1
  <2>3. CASE ~(req'[q].pc = "rejected" /\ req[q].pc = "check" /\ req[q].rec = x)
    <3>1. ASSUME NEW p \in Requests, AtWork(p, x) PROVE AtWork(p, x)'
      BY <1>3, <2>3, <3>1 DEF CheckStockOut, CheckProductTransfer, CheckWholeTransfer, Fetch,
        Goto, Read, AtWork, Active, Typed, TypeOK, RequestType
    <3> QED
      BY <2>1, <3>1, <1>1
  <2> QED
    BY <2>2, <2>3
<1>4. ASSUME NEW q \in Requests, NEW x \in Records, Apply(q) \/ Relocate(q)
      PROVE  Unmoved(x)'
  <2>1. CASE x = req[q].rec
    BY <1>4, <2>1, ApplySteady, RelocateSteady
  <2>2. CASE x # req[q].rec
    <3>1. ASSUME NEW p \in Requests, AtWork(p, x) PROVE AtWork(p, x)'
      BY <1>4, <2>2, <3>1 DEF Apply, Relocate, AfterSave, Goto, AtWork, Active, Typed, TypeOK
    <3>2. applied'[x] = applied[x] /\ status' = status /\ crashes' = crashes
      BY <1>4, <2>2 DEF Apply, Relocate, Typed, TypeOK
    <3> QED
      BY <3>1, <3>2, <1>1
  <2> QED
    BY <2>1, <2>2
<1>5. ASSUME NEW q \in Requests, NEW x \in Records, Stamp(q)
      PROVE  Unmoved(x)'
  <2>1. applied' = applied /\ crashes' = crashes
    BY <1>5 DEF Stamp
  <2>2. CASE x = req[q].rec
    <3>1. status[x] = "Pending"
      BY <1>0, <1>5, <2>2 DEF Stamp, Steady, Active
    <3>2. status'[x] = "Done"
      BY <1>5, <2>2, <3>1 DEF Stamp, Typed, TypeOK
    <3> QED
      BY <2>1, <3>2, <1>1
  <2>3. CASE x # req[q].rec
    <3>1. ASSUME NEW p \in Requests, AtWork(p, x) PROVE AtWork(p, x)'
      BY <1>5, <2>3, <3>1 DEF Stamp, Goto, AtWork, Active, Typed, TypeOK
    <3>2. status'[x] = status[x]
      BY <1>5, <2>3 DEF Stamp, Typed, TypeOK
    <3> QED
      BY <2>1, <3>1, <3>2, <1>1
  <2> QED
    BY <2>2, <2>3
<1>6. ASSUME NEW r \in Records, NEW x \in Records, EditStatus(r) \/ RemoveRecord(r)
      PROVE  Unmoved(x)'
  <2>1. UNCHANGED <<req, applied, crashes>> /\ (status'[x] = "Pending" => status[x] = "Pending")
    BY <1>6 DEF EditStatus, RemoveRecord, Typed, TypeOK
  <2>2. \A p \in Requests : AtWork(p, x) => AtWork(p, x)'
    BY <2>1 DEF AtWork
  <2> QED
    BY <2>1, <2>2, <1>1
<1>7. CASE Crash
  BY <1>7 DEF Crash, Unmoved, Typed, TypeOK
<1>8. CASE UNCHANGED vars
  <2>1. ASSUME NEW x \in Records PROVE Unmoved(x)'
    <3>1. \A p \in Requests : AtWork(p, x) => AtWork(p, x)'
      BY <1>8 DEF vars, AtWork
    <3> QED
      BY <3>1, <1>1, <1>8 DEF vars
  <2> QED
    BY <2>1
<1> QED
  BY <1>2, <1>3, <1>4, <1>5, <1>6, <1>7, <1>8 DEF Next, Handler

LEMMA QuantityStep ==
  ASSUME LedgerInv, WarehousesNamed, [Next]_vars
  PROVE  QuantityExact'
<1> USE DEF LedgerInv, SumInv
<1>1. CASE UNCHANGED <<stock, booked, applied>>
  BY <1>1 DEF QuantityExact, WrittenOff
<1>2. ASSUME NEW q \in Requests, Apply(q)
      PROVE  QuantityExact'
  <2>1. PICK r \in Records, n \in {1, 2} : r = req[q].rec /\ n = req[q].leg
    BY <1>2 DEF Apply, Typed, TypeOK, RequestType, Routed, Active
  <2>2. PICK i \in Items : i = Rec[r].item
    BY RecFacts
  <2>3. PICK d : d = Legs(r)[n].delta
    OBVIOUS
  <2>4. /\ d \in Int
        /\ \A j \in Items : j # i => stock'[j] = stock[j]
        /\ stock'[i].qty \in Nat /\ stock[i].qty \in Nat
        /\ stock'[i].qty >= stock[i].qty + d
        /\ Rec[r].op # "decrease" => stock'[i].qty = stock[i].qty + d
    <3>1. Typed /\ StockIsSum /\ Steady(q)
      OBVIOUS
    <3> QED
      BY <1>2, <2>1, <2>2, <2>3, <3>1, ApplyEffect
  <2>5. /\ booked'[i] = booked[i] + d /\ booked[i] \in Int
        /\ \A j \in Items : j # i => booked'[j] = booked[j]
    BY <1>2, <2>1, <2>2, <2>3 DEF Apply, Typed, TypeOK
  <2>6. /\ applied \in [Records -> Nat]
        /\ applied' = [applied EXCEPT ![r] = @ + 1]
    BY <1>2, <2>1 DEF Apply, Typed, TypeOK
  <2>7. ASSUME NEW j \in Items, WrittenOff(j)
        PROVE  WrittenOff(j)'
    BY <2>6, <2>7 DEF WrittenOff
  <2>8. Rec[r].op = "decrease" => WrittenOff(i)'
    BY <2>2, <2>6 DEF WrittenOff
  <2>9. ASSUME NEW j \in Items, j # i
        PROVE  stock'[j].qty = booked'[j] \/ (stock'[j].qty > booked'[j] /\ WrittenOff(j)')
    BY <2>4, <2>5, <2>7, <2>9 DEF QuantityExact
  <2>10. stock'[i].qty = booked'[i] \/ (stock'[i].qty > booked'[i] /\ WrittenOff(i)')
    <3>1. stock[i].qty = booked[i] \/ (stock[i].qty > booked[i] /\ WrittenOff(i))
      BY DEF QuantityExact
    <3>2. CASE Rec[r].op = "decrease"
      BY <2>4, <2>5, <2>8, <3>1, <3>2
    <3>3. CASE Rec[r].op # "decrease"
      BY <2>4, <2>5, <2>7, <3>1, <3>3
    <3> QED
      BY <3>2, <3>3
  <2> QED
    BY <2>9, <2>10 DEF QuantityExact
<1>3. ASSUME NEW q \in Requests, Relocate(q)
      PROVE  QuantityExact'
  <2>1. booked' = booked /\ \A i \in Items : WrittenOff(i) => WrittenOff(i)'
    <3>1. /\ applied \in [Records -> Nat] /\ booked' = booked
          /\ applied' = [applied EXCEPT ![req[q].rec] = @ + 1]
      BY <1>3 DEF Relocate, Typed, TypeOK
    <3> QED
      BY <3>1 DEF WrittenOff
  <2>2. \A i \in Items : stock'[i].qty = stock[i].qty
    BY <1>3 DEF Relocate, Saved, Typed, TypeOK, Stock, RequestType
  <2> QED
    BY <2>1, <2>2 DEF QuantityExact
<1> QED
  BY <1>1, <1>2, <1>3
  DEF Next, Handler, Load, CheckStockOut, CheckProductTransfer, CheckWholeTransfer, Fetch,
      Stamp, EditStatus, RemoveRecord, Crash, vars

LEMMA LedgerInit ==
  ASSUME WarehousesNamed, SumAtFirst, Init
  PROVE  LedgerInv
<1>1. SumInv
  BY TypeInit, SumAtFirst DEF Init, SumInv, CopiesAgree, StockIsSum, SumAtFirst
<1>2. LegsBehind /\ Apart /\ \A q \in Requests : Steady(q)
  BY DEF Init, LegsBehind, Behind, Apart, Steady, Active
<1>3. QuantityExact /\ padded = {}
  BY DEF Init, QuantityExact
<1>4. \A r \in Records : Unmoved(r)
  BY LegCountType DEF Init, Unmoved
<1> QED
  BY <1>1, <1>2, <1>3, <1>4 DEF LedgerInv

\* Without overlap every map that is saved is current.
LEMMA NonePadded ==
  ASSUME LedgerInv, [Next]_vars
  PROVE  padded' = {}
<1> USE DEF LedgerInv
<1>1. ASSUME NEW q \in Requests, Apply(q) PROVE padded' = {}
  BY <1>1 DEF Apply, Steady, Active
<1>2. ASSUME ~ \E q \in Requests : Apply(q) PROVE UNCHANGED padded
  BY <1>2 DEF Next, Handler, Load, CheckStockOut, CheckProductTransfer, CheckWholeTransfer,
              Fetch, Relocate, Stamp, EditStatus, RemoveRecord, Crash, vars
<1> QED
  BY <1>1, <1>2

LEMMA LedgerStep ==
  ASSUME Exclusive, "Pending" \notin EditTo, WarehousesNamed, LedgerInv, [Next]_vars
  PROVE  LedgerInv'
<1>1. SumInv /\ Typed /\ LegsBehind /\ Apart
  BY DEF LedgerInv, SumInv
<1>2. SumInv' /\ Typed'
  BY <1>1, SumStep, TypeStep DEF SumInv
<1>3. FlowOK /\ FlowOK'
  <2>1. FlowOK
    BY <1>1, TypedFlow
  <2>2. Typed' => FlowOK'
    BY DEF Typed, TypeOK, Routed, FlowOK, RequestType, Statuses
  <2> QED
    BY <1>2, <2>1, <2>2
<1>4. LegsBehind'
  BY <1>1, <1>3, LegsStep
<1>5. Apart'
  BY <1>1, <1>2, ApartStep
<1> QED
  BY <1>2, <1>4, <1>5, NonePadded, SteadyStep, UnmovedStep, QuantityStep DEF LedgerInv

(* While requests on one item do not overlap, its quantity is its initial  *)
(* quantity plus every delta, up to the clamp of a Decrease, crashes       *)
(* between the saves of approve and complete handlers included; and before *)
(* the first crash no record moves its stock twice, however often it is    *)
(* approved, unless a client sets it back to Pending.                      *)
THEOREM LedgerExactThm ==
  ASSUME Exclusive, "Pending" \notin EditTo, WarehousesNamed, SumAtFirst
  PROVE  Spec => []LedgerExact
<1>1. Init => LedgerInv
  BY LedgerInit
<1>2. LedgerInv /\ [Next]_vars => LedgerInv'
  BY LedgerStep
<1>3. LedgerInv => LedgerExact
  BY DEF LedgerInv, LedgerExact, AppliedOnce, Unmoved
<1> QED
  BY <1>1, <1>2, <1>3, PTL DEF Spec

-----------------------------------------------------------------------------
(* Handlers that do not overlap implement the atomic StockLedger.          *)

\* Request q carries the second half of a transfer of item i.
Carries(R, q, i) ==
  R[q].pc \in {"fetch", "apply"} /\ R[q].leg = 2 /\ Rec[R[q].rec].item = i
TransitOf(R, i) ==
  UNION {{q} \X (1..Rec[R[q].rec].qty) : q \in {p \in Requests : Carries(R, p, i)}}

LEMMA TransitDef ==
  \A i : InTransit(i) = TransitOf(req, i) /\ InTransit(i)' = TransitOf(req', i)
  BY DEF InTransit, TransitOf, Carries

LEMMA NoneInTransit ==
  ASSUME NEW R, NEW i, \A q \in Requests : ~Carries(R, q, i)
  PROVE  Cardinality(TransitOf(R, i)) = 0
<1>1. TransitOf(R, i) = {}
  BY DEF TransitOf
<1> QED
  BY <1>1, FS_EmptySet

LEMMA OneInTransit ==
  ASSUME NEW R, NEW i, NEW q \in Requests, Carries(R, q, i), Rec[R[q].rec].qty \in Nat,
         \A p \in Requests : Carries(R, p, i) => p = q
  PROVE  Cardinality(TransitOf(R, i)) = Rec[R[q].rec].qty
<1> DEFINE n == Rec[R[q].rec].qty
<1>1. TransitOf(R, i) = {q} \X (1..n)
  BY DEF TransitOf
<1>2. IsFiniteSet({q}) /\ Cardinality({q}) = 1
  BY FS_Singleton
<1>3. n \in Nat
  OBVIOUS
<1> HIDE DEF n
<1>4. IsFiniteSet(1..n) /\ Cardinality(1..n) = n
  <2>1. 1 \in Int /\ n \in Int
    BY <1>3
  <2>2. IsFiniteSet(1..n) /\ Cardinality(1..n) = IF 1 > n THEN 0 ELSE n - 1 + 1
    BY <2>1, FS_Interval, Zenon
  <2> QED
    BY <1>3, <2>2
<1>5. Cardinality({q} \X (1..n)) = 1 * n
  BY <1>2, <1>4, FS_Product, ZenonT(30)
<1> QED
  BY <1>1, <1>3, <1>5 DEF n

LEMMA SameTransit ==
  ASSUME NEW R, NEW T, NEW i,
         \A p \in Requests : Carries(R, p, i) <=> Carries(T, p, i),
         \A p \in Requests : Carries(R, p, i) => T[p].rec = R[p].rec
  PROVE  TransitOf(R, i) = TransitOf(T, i)
  BY DEF TransitOf

\* While a request is at work on an item, nobody else is at work on that item,
\* on its record, or about to stamp it.
LEMMA AloneAtWork ==
  ASSUME LedgerInv, NEW q \in Requests, req[q].pc \in Active, NEW i, i = Rec[req[q].rec].item
  PROVE  /\ \A p \in Requests : Carries(req, p, i) => p = q
         /\ SettledBy(req[q].rec) => req[q].pc = "stamp"
  BY DEF LedgerInv, Apart, Carries, SettledBy, Active

\* The ledger hides the difference between a stamped request and its record.
LEMMA LedgerStatusDef ==
  ASSUME LedgerInv, NEW r \in Records
  PROVE  LedgerStatus[r] = IF SettledBy(r) THEN "Done" ELSE status[r]
<1>1. ASSUME NEW q \in Requests, req[q].pc = "stamp" PROVE status[req[q].rec] = "Pending"
  BY <1>1 DEF LedgerInv, Steady, Active
<1>2. SettledBy(r) => status[r] # "Removed"
  BY <1>1 DEF SettledBy
<1> QED
  BY <1>2 DEF LedgerStatus

LEMMA LedgerStatusNext ==
  ASSUME LedgerInv', NEW r \in Records
  PROVE  LedgerStatus'[r] = IF SettledBy(r)' THEN "Done" ELSE status'[r]
<1>1. ASSUME NEW q \in Requests, req'[q].pc = "stamp" PROVE status'[req'[q].rec] = "Pending"
  BY <1>1 DEF LedgerInv, Steady, Active
<1>2. SettledBy(r)' => status'[r] # "Removed"
  BY <1>1 DEF SettledBy
<1> QED
  BY <1>2 DEF LedgerStatus

LEMMA OnHandType ==
  ASSUME LedgerInv, NEW i \in Items
  PROVE  LedgerOnHand[i] \in Nat
<1>1. stock[i].qty \in Nat
  BY DEF LedgerInv, SumInv, Typed, TypeOK, Stock
<1>2. Cardinality(TransitOf(req, i)) \in Nat
  <2>1. CASE \A q \in Requests : ~Carries(req, q, i)
    BY <2>1, NoneInTransit
  <2>2. ASSUME NEW q \in Requests, Carries(req, q, i)
        PROVE  Cardinality(TransitOf(req, i)) \in Nat
    <3>1. req[q].pc \in Active /\ i = Rec[req[q].rec].item /\ req[q].rec \in Records
      BY <2>2 DEF Carries, Active, LedgerInv, SumInv, Typed, Routed
    <3>2. Rec[req[q].rec].qty \in Nat
      BY <3>1, RecFacts
    <3>3. \A p \in Requests : Carries(req, p, i) => p = q
      BY <3>1, AloneAtWork
    <3> QED
      BY <2>2, <3>2, <3>3, OneInTransit
  <2> QED
    BY <2>1, <2>2
<1> QED
  BY <1>1, <1>2, TransitDef DEF LedgerOnHand

\* Items nobody moves keep their quantity, what is in transit included.
LEMMA OnHandElsewhere ==
  ASSUME NEW q \in Requests, \A p \in Requests : p # q => req'[p] = req[p],
         NEW j \in Items, stock'[j].qty = stock[j].qty,
         Carries(req, q, j) <=> Carries(req', q, j),
         Carries(req, q, j) => req'[q].rec = req[q].rec
  PROVE  LedgerOnHand'[j] = LedgerOnHand[j]
<1>1. \A p \in Requests : Carries(req, p, j) <=> Carries(req', p, j)
  BY DEF Carries
<1>2. \A p \in Requests : Carries(req, p, j) => req'[p].rec = req[p].rec
  OBVIOUS
<1>3. TransitOf(req, j) = TransitOf(req', j)
  BY <1>1, <1>2, SameTransit
<1> QED
  BY <1>3, TransitDef DEF LedgerOnHand

\* A step on the way to a record is invisible.
LEMMA QuietLedger ==
  ASSUME LedgerInv, LedgerInv', NEW q \in Requests, \A p \in Requests : p # q => req'[p] = req[p],
         UNCHANGED <<stock, status>>, req[q].pc # "stamp", req'[q].pc # "stamp",
         \A i : Carries(req, q, i) <=> Carries(req', q, i),
         \A i : Carries(req, q, i) => req'[q].rec = req[q].rec
  PROVE  UNCHANGED Ledger!ledgerVars
<1>1. \A i \in Items : LedgerOnHand'[i] = LedgerOnHand[i]
  BY OnHandElsewhere
<1>2. \A r \in Records : SettledBy(r)' <=> SettledBy(r)
  BY DEF SettledBy
<1>3. \A r \in Records : LedgerStatus'[r] = LedgerStatus[r]
  BY <1>2, LedgerStatusDef, LedgerStatusNext
<1>4. LedgerOnHand' = LedgerOnHand
  BY <1>1 DEF LedgerOnHand
<1>5. LedgerStatus' = LedgerStatus
  BY <1>3 DEF LedgerStatus
<1> QED
  BY <1>4, <1>5 DEF Ledger!ledgerVars

\* The step after which a request only has its record to stamp settles it.
LEMMA SettlesStatus ==
  ASSUME LedgerInv, LedgerInv', NEW q \in Requests, \A p \in Requests : p # q => req'[p] = req[p],
         NEW r \in Records, r = req[q].rec, r = req'[q].rec, status' = status,
         req[q].pc \in {"apply", "relocate"}, req'[q].pc = "stamp"
  PROVE  LedgerStatus[r] = "Pending" /\ LedgerStatus' = [LedgerStatus EXCEPT ![r] = "Done"]
<1>1. ~SettledBy(r) /\ status[r] = "Pending"
  <2>1. req[q].pc \in Active /\ req[q].pc # "stamp"
    BY DEF Active
  <2>2. status[r] = "Pending"
    BY <2>1 DEF LedgerInv, Steady
  <2>3. \A i : i = Rec[req[q].rec].item => ~SettledBy(req[q].rec)
    BY <2>1, AloneAtWork
  <2> QED
    BY <2>2, <2>3
<1>2. SettledBy(r)'
  BY DEF SettledBy
<1>3. \A x \in Records : x # r => (SettledBy(x)' <=> SettledBy(x))
  BY DEF SettledBy
<1>4. LedgerStatus[r] = "Pending" /\ LedgerStatus'[r] = "Done"
  BY <1>1, <1>2, LedgerStatusDef, LedgerStatusNext
<1>5. \A x \in Records : x # r => LedgerStatus'[x] = LedgerStatus[x]
  BY <1>3, LedgerStatusDef, LedgerStatusNext
<1>6. /\ LedgerStatus = [x \in Records |-> LedgerStatus[x]]
      /\ LedgerStatus' = [x \in Records |-> LedgerStatus'[x]]
  BY DEF LedgerStatus
<1> QED
  BY <1>4, <1>5, <1>6

LEMMA OnHandExcept ==
  ASSUME NEW i \in Items, NEW n, LedgerOnHand'[i] = n,
         \A j \in Items : j # i => LedgerOnHand'[j] = LedgerOnHand[j]
  PROVE  LedgerOnHand' = [LedgerOnHand EXCEPT ![i] = n]
<1>1. /\ LedgerOnHand = [x \in Items |-> LedgerOnHand[x]]
      /\ LedgerOnHand' = [x \in Items |-> LedgerOnHand'[x]]
  BY DEF LedgerOnHand
<1> QED
  BY <1>1

\* The save of the first leg of a transfer only moves pieces into transit.
LEMMA HalfApplied ==
  ASSUME LedgerInv, LedgerInv', WarehousesNamed, NEW q \in Requests, Apply(q),
         req[q].leg < LegCount(req[q].rec)
  PROVE  UNCHANGED Ledger!ledgerVars
<1> USE DEF LedgerInv, SumInv, Typed, TypeOK, RequestType
<1>1. PICK r \in Records, n \in {1, 2} : r = req[q].rec /\ n = req[q].leg
  BY DEF Apply, Routed, Active
<1>2. PICK i \in Items : i = Rec[r].item
  BY RecFacts
<1>3. PICK d : d = Legs(r)[n].delta
  OBVIOUS
<1>4. n = 1 /\ Rec[r].op = "transfer" /\ LegCount(r) = 2 /\ Rec[r].qty \in Nat
  BY <1>1, LegCountType, RecFacts DEF LegCount
<1>5. d = -Rec[r].qty
  BY <1>3, <1>4, LegFacts
<1>6. /\ \A j \in Items : j # i => stock'[j] = stock[j]
      /\ stock'[i].qty \in Nat /\ stock[i].qty \in Nat
      /\ Rec[r].op # "decrease" => stock'[i].qty = stock[i].qty + d
  <2>1. Typed /\ StockIsSum /\ Steady(q)
    OBVIOUS
  <2> QED
    BY <1>1, <1>2, <1>3, <2>1, ApplyEffect
<1>7. /\ req[q].pc = "apply" /\ req'[q].pc = "fetch" /\ req'[q].leg = 2 /\ req'[q].rec = r
      /\ \A p \in Requests : p # q => req'[p] = req[p]
      /\ status' = status
  BY <1>1, <1>4 DEF Apply, AfterSave
<1>8. \A p \in Requests : ~Carries(req, p, i)
  <2>1. req[q].pc \in Active
    BY <1>7 DEF Active
  <2>2. \A p \in Requests : Carries(req, p, i) => p = q
    BY <1>1, <1>2, <2>1, AloneAtWork
  <2>3. req[q].leg # 2
    BY <1>1, <1>4
  <2> QED
    BY <2>2, <2>3 DEF Carries
<1>9. Carries(req', q, i) /\ \A p \in Requests : Carries(req', p, i) => p = q
  BY <1>2, <1>7, <1>8 DEF Carries
<1>10. LedgerOnHand'[i] = LedgerOnHand[i]
  <2>1. Cardinality(TransitOf(req, i)) = 0
    BY <1>8, NoneInTransit
  <2>2. Cardinality(TransitOf(req', i)) = Rec[r].qty
    BY <1>4, <1>7, <1>9, OneInTransit
  <2>3. LedgerOnHand[i] = stock[i].qty + 0 /\ LedgerOnHand'[i] = stock'[i].qty + Rec[r].qty
    BY <2>1, <2>2, TransitDef DEF LedgerOnHand
  <2> QED
    BY <2>3, <1>4, <1>5, <1>6
<1>11. ASSUME NEW j \in Items, j # i PROVE LedgerOnHand'[j] = LedgerOnHand[j]
  <2>1. ~Carries(req, q, j) /\ ~Carries(req', q, j)
    BY <1>1, <1>2, <1>7, <1>11 DEF Carries
  <2> QED
    BY <2>1, <1>6, <1>7, <1>11, OnHandElsewhere
<1>12. LedgerOnHand' = LedgerOnHand
  BY <1>10, <1>11 DEF LedgerOnHand
<1>13. \A x \in Records : SettledBy(x)' <=> SettledBy(x)
  BY <1>7 DEF SettledBy
<1>14. LedgerInv /\ LedgerInv'
  OBVIOUS
<1>15. \A x \in Records : LedgerStatus'[x] = LedgerStatus[x]
  BY <1>7, <1>13, <1>14, LedgerStatusDef, LedgerStatusNext
<1>16. LedgerStatus' = LedgerStatus
  BY <1>15 DEF LedgerStatus
<1> QED
  BY <1>12, <1>16 DEF Ledger!ledgerVars

\* The save of the last leg settles the record.
LEMMA LastApplied ==
  ASSUME LedgerInv, LedgerInv', WarehousesNamed, NEW q \in Requests, Apply(q),
         ~(req[q].leg < LegCount(req[q].rec)), NEW r \in Records, r = req[q].rec
  PROVE  Ledger!Settle(r)
<1> USE DEF LedgerInv, SumInv, Typed, TypeOK, RequestType
<1>0. LedgerInv /\ LedgerInv'
  OBVIOUS
<1>1. PICK n \in {1, 2} : n = req[q].leg
  OBVIOUS
<1>2. PICK i \in Items : i = Rec[r].item
  BY RecFacts
<1>3. PICK d : d = Legs(r)[n].delta
  OBVIOUS
<1>4. /\ n = LegCount(r) /\ Rec[r].qty \in Nat /\ Rec[r].op \in Ops
      /\ req[q].pc = "apply" /\ ~Moves(r)
  <2>1. req[q].pc = "apply" /\ r \in Records /\ req[q].leg <= LegCount(r)
    BY DEF Apply, Routed, Active
  <2>2. ~Moves(r)
    BY <2>1 DEF Steady, Active
  <2>3. LegCount(r) \in {1, 2} /\ Rec[r].qty \in Nat /\ Rec[r].op \in Ops
    BY <2>1, LegCountType, RecFacts
  <2> HIDE DEF LedgerInv, SumInv, Typed, TypeOK, RequestType
  <2> QED
    BY <1>1, <2>1, <2>2, <2>3
<1>5. Rec[r].op = "transfer" <=> n = 2
  BY <1>4 DEF LegCount
<1>6. /\ Rec[r].op \in {"in", "increase", "transfer"} => d = Rec[r].qty
      /\ Rec[r].op \in {"out", "decrease"} => d = -Rec[r].qty
  BY <1>3, <1>4, <1>5, LegFacts
<1>7. /\ \A j \in Items : j # i => stock'[j] = stock[j]
      /\ stock'[i].qty \in Nat /\ stock[i].qty \in Nat
      /\ stock'[i].qty >= stock[i].qty + d
      /\ d <= 0 => stock'[i].qty <= stock[i].qty
      /\ ~IsProduct(i) => stock'[i].qty = Max0(stock[i].qty + d)
      /\ Rec[r].op # "decrease" => stock'[i].qty = stock[i].qty + d
      /\ n = 1 /\ Rec[r].op \in {"out", "transfer"} => stock[i].qty >= Rec[r].qty
  <2>1. Typed /\ StockIsSum /\ Steady(q)
    OBVIOUS
  <2> QED
    BY <1>1, <1>2, <1>3, <2>1, ApplyEffect
<1>8. /\ req'[q].pc = "stamp" /\ req'[q].rec = r
      /\ \A p \in Requests : p # q => req'[p] = req[p]
      /\ status' = status
  BY DEF Apply, AfterSave, Goto
<1>9. LedgerStatus[r] = "Pending" /\ LedgerStatus' = [LedgerStatus EXCEPT ![r] = "Done"]
  BY <1>0, <1>4, <1>8, SettlesStatus
<1>10. \A p \in Requests : Carries(req, p, i) => p = q
  <2>1. req[q].pc \in Active
    BY <1>4 DEF Active
  <2> QED
    BY <1>0, <1>2, <2>1, AloneAtWork
<1>11. LedgerOnHand'[i] = stock'[i].qty
  <2>1. \A p \in Requests : ~Carries(req', p, i)
    BY <1>8, <1>10 DEF Carries
  <2>2. Cardinality(TransitOf(req', i)) = 0
    BY <2>1, NoneInTransit
  <2> QED
    BY <2>2, <1>7, TransitDef DEF LedgerOnHand
<1>12. LedgerOnHand[i] = IF n = 2 THEN stock[i].qty + Rec[r].qty ELSE stock[i].qty
  <2>1. CASE n = 2
    <3>1. Carries(req, q, i)
      BY <1>1, <1>2, <1>4, <2>1 DEF Carries
    <3>2. Cardinality(TransitOf(req, i)) = Rec[r].qty
      BY <3>1, <1>4, <1>10, OneInTransit
    <3> QED
      BY <2>1, <3>2, TransitDef DEF LedgerOnHand
  <2>2. CASE n = 1
    <3>0. req[q].leg # 2
      BY <1>1, <2>2
    <3>1. \A p \in Requests : ~Carries(req, p, i)
      BY <1>10, <3>0 DEF Carries
    <3>2. Cardinality(TransitOf(req, i)) = 0
      BY <3>1, NoneInTransit
    <3> QED
      BY <2>2, <3>2, <1>7, TransitDef DEF LedgerOnHand
  <2> QED
    BY <2>1, <2>2
<1>13. ASSUME NEW j \in Items, j # i PROVE LedgerOnHand'[j] = LedgerOnHand[j]
  <2>1. ~Carries(req, q, j) /\ ~Carries(req', q, j)
    BY <1>2, <1>8, <1>13 DEF Carries
  <2> QED
    BY <2>1, <1>7, <1>8, <1>13, OnHandElsewhere
<1>14. PICK h : h = LedgerOnHand[i]
  OBVIOUS
<1>15. stock'[i].qty \in Ledger!AfterSettling(r, h)
  <2>1. CASE Rec[r].op \in {"in", "increase", "out", "transfer"}
    <3>1. stock'[i].qty = h + Ledger!Delta(r)
      BY <2>1, <1>4, <1>5, <1>6, <1>7, <1>12, <1>14 DEF Ledger!Delta
    <3> QED
      BY <2>1, <3>1 DEF Ledger!AfterSettling
  <2>2. CASE Rec[r].op = "decrease"
    <3>1. h = stock[i].qty /\ Ledger!Delta(r) = -Rec[r].qty /\ d = -Rec[r].qty
      BY <2>2, <1>5, <1>6, <1>12, <1>14 DEF Ledger!Delta
    <3>2. CASE IsProduct(i)
      BY SMTT(30), <2>2, <3>1, <3>2, <1>2, <1>4, <1>7 DEF Ledger!AfterSettling, IsProduct
    <3>3. CASE ~IsProduct(i)
      BY <2>2, <3>1, <3>3, <1>2, <1>4, <1>7 DEF Ledger!AfterSettling, IsProduct, Max0
    <3> QED
      BY <3>2, <3>3
  <2> QED
    BY <2>1, <2>2, <1>4 DEF Ops
<1>16. Rec[r].op \in {"out", "transfer"} => h >= Rec[r].qty
  BY <1>4, <1>5, <1>7, <1>12, <1>14
<1>17. LedgerOnHand' = [LedgerOnHand EXCEPT ![i] = stock'[i].qty]
  BY <1>11, <1>13, OnHandExcept
<1> QED
  BY <1>2, <1>9, <1>14, <1>15, <1>16, <1>17 DEF Ledger!Settle

\* A whole transfer settles its record and moves no quantity.
LEMMA Relocated ==
  ASSUME LedgerInv, LedgerInv', NEW q \in Requests, Relocate(q), NEW r \in Records, r = req[q].rec
  PROVE  Ledger!Settle(r)
<1> USE DEF LedgerInv, SumInv, Typed, TypeOK, RequestType
<1>0. LedgerInv /\ LedgerInv'
  OBVIOUS
<1>1. PICK i \in Items : i = Rec[r].item
  BY RecFacts
<1>2. /\ req[q].pc = "relocate" /\ req'[q].pc = "stamp" /\ req'[q].rec = r
      /\ \A p \in Requests : p # q => req'[p] = req[p]
      /\ status' = status
  BY DEF Relocate, Goto
<1>3. \A j \in Items : stock'[j].qty = stock[j].qty /\ stock[j].qty \in Nat
  <2>1. stock \in [Items -> Stock]
    OBVIOUS
  <2>2. \E w : stock' = [stock EXCEPT ![i] = Saved(@, req[q].seen, [req[q].seen EXCEPT !.wh = w])]
    BY <1>1 DEF Relocate
  <2>3. req[q].seen \in Stock
    BY <1>1
  <2> HIDE DEF LedgerInv
  <2> QED
    BY <1>1, <2>1, <2>2, <2>3 DEF Saved, Stock
<1>4. Moves(r) /\ Covered(r)
  BY <1>2 DEF Steady, Active
<1>5. LedgerStatus[r] = "Pending" /\ LedgerStatus' = [LedgerStatus EXCEPT ![r] = "Done"]
  BY <1>0, <1>2, SettlesStatus
<1>6. ASSUME NEW j \in Items PROVE LedgerOnHand'[j] = LedgerOnHand[j]
  <2>1. ~Carries(req, q, j) /\ ~Carries(req', q, j)
    BY <1>2 DEF Carries
  <2> QED
    BY <2>1, <1>2, <1>3, OnHandElsewhere
<1>7. PICK h \in Nat : h = LedgerOnHand[i]
  BY <1>0, OnHandType
<1>8. h >= Rec[r].qty
  <2>1. \A p \in Requests : ~Carries(req, p, i)
    <3>1. req[q].pc \in Active
      BY <1>2 DEF Active
    <3>2. \A p \in Requests : Carries(req, p, i) => p = q
      BY <1>0, <1>1, <3>1, AloneAtWork
    <3> QED
      BY <1>2, <3>2 DEF Carries
  <2>2. Cardinality(TransitOf(req, i)) = 0
    BY <2>1, NoneInTransit
  <2>3. h = stock[i].qty
    BY <2>2, <1>3, <1>7, TransitDef DEF LedgerOnHand
  <2> QED
    BY <2>3, <1>1, <1>4 DEF Covered, Moves
<1>9. h \in Ledger!AfterSettling(r, h) /\ Rec[r].op = "transfer"
  BY <1>4, <1>7 DEF Ledger!AfterSettling, Ledger!Delta, Moves
<1>10. LedgerOnHand' = [LedgerOnHand EXCEPT ![i] = h]
  BY <1>6, <1>7, OnHandExcept
<1> QED
  BY <1>1, <1>5, <1>7, <1>8, <1>9, <1>10 DEF Ledger!Settle

\* Stamping a settled record and writing off a record nobody is at work on.
LEMMA Stamped ==
  ASSUME LedgerInv, LedgerInv', NEW q \in Requests, Stamp(q)
  PROVE  UNCHANGED Ledger!ledgerVars
<1> USE DEF LedgerInv, SumInv, Typed, TypeOK, RequestType
<1>0. LedgerInv /\ LedgerInv'
  OBVIOUS
<1>1. PICK r \in Records : r = req[q].rec
  BY DEF Stamp, Routed, Active
<1>2. req[q].pc = "stamp" /\ status[r] = "Pending" /\ UNCHANGED <<stock, applied, booked, padded, crashes>>
  BY <1>1 DEF Stamp, Steady, Active
<1>3. /\ status' = [status EXCEPT ![r] = "Done"] /\ req'[q].pc = "ok"
      /\ \A p \in Requests : p # q => req'[p] = req[p]
  BY <1>1, <1>2 DEF Stamp, Goto
<1>4. ASSUME NEW j \in Items PROVE LedgerOnHand'[j] = LedgerOnHand[j]
  <2>1. ~Carries(req, q, j) /\ ~Carries(req', q, j)
    BY <1>2, <1>3 DEF Carries
  <2> QED
    BY <2>1, <1>2, <1>3, OnHandElsewhere
<1>5. \A x \in Records : x # r => (SettledBy(x)' <=> SettledBy(x)) /\ status'[x] = status[x]
  BY <1>1, <1>2, <1>3 DEF SettledBy
<1>6. SettledBy(r) /\ status'[r] = "Done"
  BY <1>1, <1>2, <1>3 DEF SettledBy
<1>7. \A x \in Records : LedgerStatus'[x] = LedgerStatus[x]
  BY <1>0, <1>5, <1>6, LedgerStatusDef, LedgerStatusNext
<1>8. LedgerOnHand' = LedgerOnHand /\ LedgerStatus' = LedgerStatus
  BY <1>4, <1>7 DEF LedgerOnHand, LedgerStatus
<1> QED
  BY <1>8 DEF Ledger!ledgerVars

LEMMA Withdrawn ==
  ASSUME LedgerInv, LedgerInv', Exclusive, EditTo \subseteq {"Cancelled"},
         NEW r \in Records, EditStatus(r) \/ RemoveRecord(r)
  PROVE  Ledger!Withdraw(r)
<1> USE DEF LedgerInv, SumInv, Typed, TypeOK
<1>0. LedgerInv /\ LedgerInv'
  OBVIOUS
<1>1. PICK s \in {"Cancelled", "Removed"} : status' = [status EXCEPT ![r] = s]
  BY DEF EditStatus, RemoveRecord
<1>2. status[r] # "Removed" /\ ~InFlight(r) /\ UNCHANGED <<stock, req>>
  BY DEF EditStatus, RemoveRecord, MayOverlap
<1>3. ~SettledBy(r)
  BY <1>2 DEF SettledBy, InFlight, Active
<1>4. \A x \in Records : SettledBy(x)' <=> SettledBy(x)
  BY <1>2 DEF SettledBy
<1>5. LedgerStatus[r] # "Removed" /\ LedgerStatus'[r] = s
  BY <1>0, <1>1, <1>2, <1>3, <1>4, LedgerStatusDef, LedgerStatusNext
<1>6. \A x \in Records : x # r => LedgerStatus'[x] = LedgerStatus[x]
  BY <1>0, <1>1, <1>4, LedgerStatusDef, LedgerStatusNext
<1>7. LedgerStatus' = [LedgerStatus EXCEPT ![r] = s]
  <2>1. /\ LedgerStatus = [x \in Records |-> LedgerStatus[x]]
        /\ LedgerStatus' = [x \in Records |-> LedgerStatus'[x]]
    BY DEF LedgerStatus
  <2> QED
    BY <2>1, <1>5, <1>6
<1>8. LedgerOnHand' = LedgerOnHand
  BY <1>2 DEF LedgerOnHand, InTransit
<1> QED
  BY <1>5, <1>7, <1>8 DEF Ledger!Withdraw

LEMMA LedgerSimulates ==
  ASSUME LedgerInv, LedgerInv', Exclusive, EditTo \subseteq {"Cancelled"}, WarehousesNamed,
         [Next]_vars, crashes' = 0
  PROVE  [Ledger!Next]_(Ledger!ledgerVars)
<1>0. Typed /\ LegsBehind
  BY DEF LedgerInv, SumInv
<1> USE <1>0 DEF Typed, TypeOK, RequestType
<1>1. ASSUME NEW q \in Requests, NEW r \in Records, Load(q, r)
      PROVE  UNCHANGED Ledger!ledgerVars
  <2>1. /\ UNCHANGED <<stock, status>> /\ req[q].pc = "new"
        /\ req'[q].pc \in {"ok", "rejected", "check", "fetch"} /\ req'[q].leg = 1
        /\ \A p \in Requests : p # q => req'[p] = req[p]
    BY <1>1 DEF Load, Statuses, Routed
  <2>2. \A i : ~Carries(req, q, i) /\ ~Carries(req', q, i)
    BY <2>1 DEF Carries
  <2> QED
    BY <2>1, <2>2, QuietLedger
<1>2. ASSUME NEW q \in Requests,
             CheckStockOut(q) \/ CheckProductTransfer(q) \/ CheckWholeTransfer(q)
      PROVE  UNCHANGED Ledger!ledgerVars
  <2>1. /\ UNCHANGED <<stock, status>> /\ req[q].pc = "check"
        /\ req'[q].pc \in {"rejected", "fetch", "relocate"} /\ req'[q].leg = req[q].leg
        /\ \A p \in Requests : p # q => req'[p] = req[p]
    BY <1>2 DEF CheckStockOut, CheckProductTransfer, CheckWholeTransfer, Goto, Read
  <2>2. req[q].leg = 1
    BY <2>1 DEF LegsBehind, Behind
  <2>3. \A i : ~Carries(req, q, i) /\ ~Carries(req', q, i)
    BY <2>1, <2>2 DEF Carries
  <2> QED
    BY <2>1, <2>3, QuietLedger
<1>3. ASSUME NEW q \in Requests, Fetch(q)
      PROVE  UNCHANGED Ledger!ledgerVars
  <2>1. /\ UNCHANGED <<stock, status>> /\ req[q].pc = "fetch" /\ req'[q].pc = "apply"
        /\ req'[q].leg = req[q].leg /\ req'[q].rec = req[q].rec
        /\ \A p \in Requests : p # q => req'[p] = req[p]
    BY <1>3 DEF Fetch, Read
  <2>2. \A i : Carries(req, q, i) <=> Carries(req', q, i)
    BY <2>1 DEF Carries
  <2> QED
    BY <2>1, <2>2, QuietLedger
<1>4. ASSUME NEW q \in Requests, Apply(q)
      PROVE  [Ledger!Next]_(Ledger!ledgerVars)
  <2>1. PICK r \in Records : r = req[q].rec
    BY <1>4 DEF Apply, Routed, Active
  <2>2. CASE req[q].leg < LegCount(req[q].rec)
    BY <1>4, <2>2, HalfApplied
  <2>3. CASE ~(req[q].leg < LegCount(req[q].rec))
    BY <1>4, <2>1, <2>3, LastApplied DEF Ledger!Next
  <2> QED
    BY <2>2, <2>3
<1>5. ASSUME NEW q \in Requests, Relocate(q)
      PROVE  Ledger!Next
  <2>1. PICK r \in Records : r = req[q].rec
    BY <1>5 DEF Relocate, Routed, Active
  <2> QED
    BY <1>5, <2>1, Relocated DEF Ledger!Next
<1>6. ASSUME NEW q \in Requests, Stamp(q)
      PROVE  UNCHANGED Ledger!ledgerVars
  BY <1>6, Stamped
<1>7. ASSUME NEW r \in Records, EditStatus(r) \/ RemoveRecord(r)
      PROVE  Ledger!Next
  BY <1>7, Withdrawn DEF Ledger!Next
<1>8. ~Crash
  BY DEF Crash
<1>9. CASE UNCHANGED vars
  BY <1>9 DEF vars, Ledger!ledgerVars, LedgerStatus, LedgerOnHand, SettledBy, InTransit
<1> QED
  BY <1>1, <1>2, <1>3, <1>4, <1>5, <1>6, <1>7, <1>8, <1>9 DEF Next, Handler

(* The handlers implement the abstract ledger: as long as requests on one  *)
(* item do not overlap, and up to the first crash, approving or completing *)
(* a record is one atomic step that settles a pending record and moves its *)
(* quantity, although it is a chain of awaited database calls and a        *)
(* transfer saves its item twice.                                          *)
THEOREM ImplementsLedgerThm ==
  ASSUME Exclusive, EditTo \subseteq {"Cancelled"}, WarehousesNamed, SumAtFirst
  PROVE  Spec => ImplementsLedger
<1>1. Init => LedgerInv
  BY LedgerInit
<1>2. LedgerInv /\ [Next]_vars => LedgerInv'
  BY LedgerStep
<1>3. Init => Ledger!Init
  <2> SUFFICES ASSUME Init PROVE Ledger!Init
    OBVIOUS
  <2>1. \A r \in Records : ~SettledBy(r)
    BY DEF Init, SettledBy
  <2>2. LedgerStatus = [r \in Records |-> "Pending"]
    BY <2>1 DEF Init, LedgerStatus
  <2>3. ASSUME NEW i \in Items PROVE LedgerOnHand[i] = InitStock[i].qty
    <3>1. \A q \in Requests : ~Carries(req, q, i)
      BY DEF Init, Carries
    <3>2. Cardinality(TransitOf(req, i)) = 0
      BY <3>1, NoneInTransit
    <3>3. stock[i].qty \in Nat /\ stock[i] = InitStock[i]
      BY InventoryAssumption DEF Init, Stock
    <3> QED
      BY <3>2, <3>3, TransitDef DEF LedgerOnHand
  <2>4. LedgerOnHand = [i \in Items |-> InitStock[i].qty]
    BY <2>3 DEF LedgerOnHand
  <2> QED
    BY <2>2, <2>4 DEF Ledger!Init
<1>4. LedgerInv /\ LedgerInv' /\ [Next]_vars
        => [crashes' = 0 => [Ledger!Next]_(Ledger!ledgerVars)]_vars
  BY LedgerSimulates
<1> QED
  BY <1>1, <1>2, <1>3, <1>4, PTL DEF Spec, ImplementsLedger

=============================================================================
