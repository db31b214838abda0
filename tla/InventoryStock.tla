--------------------------- MODULE InventoryStock ---------------------------
(***************************************************************************)
(* The stock workflow of src/controllers/inventoryStockController.ts:      *)
(* approving a stock-in or an adjustment, completing a stock-out or a      *)
(* transfer.  A handler is a chain of awaited MongoDB calls with no        *)
(* transaction around them, so the unit of interleaving is one such call:  *)
(* load the record, read the item, save the item, save the record.         *)
(* save() sends only the paths the handler changed on its own copy.        *)
(***************************************************************************)
EXTENDS Integers, Sequences, FiniteSets

CONSTANTS
  Items,        \* inventory items (raw materials, finished goods, products)
  Kind,         \* [Items -> collection the item was found in]
  Reserved,     \* [Items -> Nat], quantity set aside for orders
  Warehouses,
  NoWarehouse,  \* a record or an item that names no warehouse
  InitStock,    \* [Items -> Stock], what the database holds at first
  Records,      \* stock-in, stock-out, transfer and adjustment records
  Rec,          \* [Records -> RecordType], their fields
  Requests,     \* HTTP requests to the approve / complete routes
  EditTo,       \* statuses clients write through PUT /stock-*/:id
  MaxCrashes,   \* bound on process crashes
  Exclusive     \* TRUE: no two requests overlap on the same item

Kinds == {"rawMaterial", "semiFinished", "finishedGood", "product"}
Places == Warehouses \cup {NoWarehouse}
Ops == {"in", "out", "transfer", "increase", "decrease"}
RecordType == [op : Ops, item : Items, wh : Places, to : Places, qty : Nat]
Stock == [ws : [Warehouses -> Nat], keys : SUBSET Warehouses, qty : Nat, wh : Places]
Statuses == {"Pending", "Done", "Cancelled", "Removed"}

ASSUME InventoryAssumption ==
  /\ NoWarehouse \notin Warehouses
  /\ IsFiniteSet(Warehouses)
  /\ Kind \in [Items -> Kinds]
  /\ Reserved \in [Items -> Nat]
  /\ InitStock \in [Items -> Stock]
  /\ \A i \in Items : \A w \in Warehouses \ InitStock[i].keys : InitStock[i].ws[w] = 0
  /\ Rec \in [Records -> RecordType]
  /\ EditTo \subseteq {"Pending", "Done", "Cancelled"}
  /\ MaxCrashes \in Nat
  /\ Exclusive \in BOOLEAN

VARIABLES
  stock,    \* [Items -> Stock]: warehouseStock has the keys in keys, with the
            \* values in ws; qty is stock / quantity, wh is warehouseId
  status,   \* [Records -> Statuses]; Done is Approved or Completed
  req,      \* [Requests -> RequestType], the handlers' local state
  applied,  \* history: legs of each record that reached the item
  booked,   \* history: initial quantity plus every delta, without the clamp
  padded,   \* history: items whose overtaken map was saved for a new empty key
  crashes

vars == <<stock, status, req, applied, booked, padded, crashes>>

Active == {"check", "fetch", "apply", "relocate", "stamp"}
Answers == {"ok", "rejected", "failed", "dropped"}
NoRecord == "no record"
NotRead == [ws |-> [w \in Warehouses |-> 0], keys |-> {}, qty |-> 0, wh |-> NoWarehouse]
RequestType == [pc : {"new"} \cup Active \cup Answers,
                rec : Records \cup {NoRecord},
                leg : {1, 2},
                seen : Stock]

-----------------------------------------------------------------------------
(* Pure helpers of the controller.                                         *)

\* Mutant: the quantity is not clamped at zero.
Max0_NoClamp(n) == n
Max0(n) == IF n < 0 THEN 0 ELSE n
\* The sum of the values, as the number of pieces on all shelves.
SumWs(ws) == Cardinality(UNION {{w} \X (1..ws[w]) : w \in Warehouses})
IsProduct(i) == Kind[i] = "product"
Moves(r) == Rec[r].op = "transfer" /\ ~IsProduct(Rec[r].item)

\* Mutant: a product's total stock is tested instead of the warehouse's.
Available_AnyWarehouse(i, s, w) == Max0(s.qty - Reserved[i])
\* getAvailableFromItem on a copy s of item i.
Available(i, s, w) ==
  CASE IsProduct(i) -> Max0((IF w = NoWarehouse THEN s.qty ELSE s.ws[w]) - Reserved[i])
    [] ~IsProduct(i) /\ w # NoWarehouse /\ s.wh \notin {NoWarehouse, w} -> 0
    [] OTHER -> Max0(s.qty - IF Kind[i] = "finishedGood" THEN Reserved[i] ELSE 0)

\* The calls of applyInventoryDelta a record stands for, in order.
Legs(r) ==
  LET c == Rec[r] IN
  CASE c.op \in {"in", "increase"} -> << [wh |-> c.wh, delta |-> c.qty] >>
    [] c.op \in {"out", "decrease"} -> << [wh |-> c.wh, delta |-> -c.qty] >>
    [] c.op = "transfer" -> << [wh |-> c.wh, delta |-> -c.qty],
                               [wh |-> c.to, delta |-> c.qty] >>
LegCount(r) == IF Rec[r].op = "transfer" /\ ~Moves(r) THEN 2 ELSE 1

\* Mutant: the cached total is adjusted by the delta instead of summed again.
AfterDelta_Incremental(i, s, w, delta) ==
  IF IsProduct(i) THEN [s EXCEPT !.ws[w] = Max0(@ + delta), !.keys = @ \cup {w},
                                 !.qty = Max0(@ + delta)]
  ELSE [s EXCEPT !.qty = Max0(@ + delta)]
\* applyInventoryDelta: what the handler's copy s of item i becomes.  The key of
\* the warehouse is in the map from then on, if only with a clamped zero.
AfterDelta(i, s, w, delta) ==
  LET ws == [s.ws EXCEPT ![w] = Max0(@ + delta)] IN
  CASE IsProduct(i) /\ w # NoWarehouse ->
         [s EXCEPT !.ws = ws, !.keys = @ \cup {w}, !.qty = SumWs(ws)]
    [] IsProduct(i) /\ w = NoWarehouse -> [s EXCEPT !.qty = Max0(@ + delta)]
    [] OTHER -> [s EXCEPT !.qty = Max0(@ + delta),
                          !.wh = IF @ = NoWarehouse THEN w ELSE @]

\* warehouseStock of two copies of an item; and the change by a new key alone.
SameMap(s, t) == s.ws = t.ws /\ s.keys = t.keys
OnlyKeyAdded(s, t) == s.ws = t.ws /\ s.keys # t.keys

\* Mutant: save() replaces the whole document by the handler's copy.
Saved_WholeDocument(current, loaded, changed) == changed
\* Mongoose save(): only the paths whose value differs from the loaded one; the
\* map is one path, and differs also by a key.
Saved(current, loaded, changed) ==
  [current EXCEPT !.ws = IF SameMap(changed, loaded) THEN @ ELSE changed.ws,
                  !.keys = IF SameMap(changed, loaded) THEN @ ELSE changed.keys,
                  !.qty = IF changed.qty = loaded.qty THEN @ ELSE changed.qty,
                  !.wh = IF changed.wh = loaded.wh THEN @ ELSE changed.wh]

-----------------------------------------------------------------------------
(* The handlers, one action per awaited call.                              *)

InFlight(r) ==
  \E q \in Requests : req[q].pc \in Active /\ Rec[req[q].rec].item = Rec[r].item
MayOverlap(r) == Exclusive => ~InFlight(r)

Goto(q, pc) == req' = [req EXCEPT ![q].pc = pc]
Read(q, pc) == req' = [req EXCEPT ![q].pc = pc, ![q].seen = stock[Rec[req[q].rec].item]]

\* Mutant: the early return for an approved record is missing.
Load_NoEarlyReturn(q, r) ==
  /\ req[q].pc = "new"
  /\ MayOverlap(r)
  /\ req' = [req EXCEPT ![q].rec = r, ![q].pc =
               CASE status[r] \in {"Cancelled", "Removed"} -> "rejected"
                 [] status[r] \in {"Pending", "Done"} ->
                      IF Rec[r].op \in {"out", "transfer"} THEN "check" ELSE "fetch"]
  /\ UNCHANGED <<stock, status, applied, booked, padded, crashes>>
\* findOne(record): settled records answer at once, cancelled ones are refused.
Load(q, r) ==
  /\ req[q].pc = "new"
  /\ MayOverlap(r)
  /\ req' = [req EXCEPT ![q].rec = r, ![q].pc =
               CASE status[r] = "Done" -> "ok"
                 [] status[r] \in {"Cancelled", "Removed"} -> "rejected"
                 [] status[r] = "Pending" ->
                      IF Rec[r].op \in {"out", "transfer"} THEN "check" ELSE "fetch"]
  /\ UNCHANGED <<stock, status, applied, booked, padded, crashes>>

\* getAvailableStock in completeStockOut: the item is read only for the test.
CheckStockOut(q) ==
  LET r == req[q].rec
      i == Rec[r].item
  IN /\ req[q].pc = "check"
     /\ Rec[r].op = "out"
     /\ Goto(q, IF Rec[r].qty > Available(i, stock[i], Rec[r].wh) THEN "rejected"
                ELSE "fetch")
     /\ UNCHANGED <<stock, status, applied, booked, padded, crashes>>

\* completeStockTransfer of a catalog product: ws[from] must cover the quantity.
CheckProductTransfer(q) ==
  LET r == req[q].rec
      s == stock[Rec[r].item]
  IN /\ req[q].pc = "check"
     /\ Rec[r].op = "transfer" /\ ~Moves(r)
     /\ Goto(q, IF (IF Rec[r].wh = NoWarehouse THEN 0 ELSE s.ws[Rec[r].wh]) < Rec[r].qty
                THEN "rejected" ELSE "fetch")
     /\ UNCHANGED <<stock, status, applied, booked, padded, crashes>>

\* completeStockTransfer of any other item: the whole available quantity moves.
CheckWholeTransfer(q) ==
  LET r == req[q].rec
      i == Rec[r].item
      s == stock[i]
  IN /\ req[q].pc = "check"
     /\ Moves(r)
     /\ IF Rec[r].qty <= Available(i, s, Rec[r].wh) /\ Rec[r].qty >= s.qty
        THEN Read(q, "relocate")
        ELSE Goto(q, "rejected")
     /\ UNCHANGED <<stock, status, applied, booked, padded, crashes>>

\* resolveInventoryItem inside applyInventoryDelta: a fresh copy of the item.
Fetch(q) ==
  /\ req[q].pc = "fetch"
  /\ Read(q, "apply")
  /\ UNCHANGED <<stock, status, applied, booked, padded, crashes>>

\* Mutant: the record is stamped after the first leg of a transfer.
AfterSave_OneLeg(q) == Goto(q, "stamp")
\* After a save the second leg of a transfer follows, then the record.
AfterSave(q) ==
  IF req[q].leg < LegCount(req[q].rec)
  THEN req' = [req EXCEPT ![q].pc = "fetch", ![q].leg = 2]
  ELSE Goto(q, "stamp")

\* doc.save() inside applyInventoryDelta.
Apply(q) ==
  LET r == req[q].rec
      i == Rec[r].item
      leg == Legs(r)[req[q].leg]
      seen == req[q].seen
      changed == AfterDelta(i, seen, leg.wh, leg.delta)
  IN /\ req[q].pc = "apply"
     /\ stock' = [stock EXCEPT ![i] = Saved(@, seen, changed)]
     /\ padded' = IF OnlyKeyAdded(seen, changed) /\ stock[i].ws # seen.ws
                  THEN padded \cup {i} ELSE padded
     /\ applied' = [applied EXCEPT ![r] = @ + 1]
     /\ booked' = [booked EXCEPT ![i] = @ + leg.delta]
     /\ AfterSave(q)
     /\ UNCHANGED <<status, crashes>>

\* item.doc.save() of a whole transfer: the copy read by the check moves.
Relocate(q) ==
  LET r == req[q].rec
      i == Rec[r].item
      s == req[q].seen
  IN /\ req[q].pc = "relocate"
     /\ stock' = [stock EXCEPT ![i] =
          Saved(@, s, [s EXCEPT !.wh = IF Rec[r].to = NoWarehouse THEN @ ELSE Rec[r].to])]
     /\ applied' = [applied EXCEPT ![r] = @ + 1]
     /\ Goto(q, "stamp")
     /\ UNCHANGED <<status, booked, padded, crashes>>

\* doc.save() of the record: status is set whatever it has become meanwhile;
\* a record removed meanwhile makes save() throw.
Stamp(q) ==
  LET r == req[q].rec
  IN /\ req[q].pc = "stamp"
     /\ IF status[r] = "Removed"
        THEN Goto(q, "failed") /\ UNCHANGED status
        ELSE Goto(q, "ok") /\ status' = [status EXCEPT ![r] = "Done"]
     /\ UNCHANGED <<stock, applied, booked, padded, crashes>>

\* The generic update route writes any status; the generic delete removes.
EditStatus(r) ==
  /\ status[r] # "Removed"
  /\ MayOverlap(r)
  /\ \E s \in EditTo : status' = [status EXCEPT ![r] = s]
  /\ UNCHANGED <<stock, req, applied, booked, padded, crashes>>

RemoveRecord(r) ==
  /\ status[r] # "Removed"
  /\ MayOverlap(r)
  /\ status' = [status EXCEPT ![r] = "Removed"]
  /\ UNCHANGED <<stock, req, applied, booked, padded, crashes>>

\* The process dies: every handler in progress is gone, the database stays.
Crash ==
  /\ crashes < MaxCrashes
  /\ crashes' = crashes + 1
  /\ req' = [q \in Requests |-> IF req[q].pc \in Active
                                THEN [req[q] EXCEPT !.pc = "dropped"] ELSE req[q]]
  /\ UNCHANGED <<stock, status, applied, booked, padded>>

-----------------------------------------------------------------------------
Init ==
  /\ stock = InitStock
  /\ status = [r \in Records |-> "Pending"]
  /\ req = [q \in Requests |-> [pc |-> "new", rec |-> NoRecord, leg |-> 1, seen |-> NotRead]]
  /\ applied = [r \in Records |-> 0]
  /\ booked = [i \in Items |-> InitStock[i].qty]
  /\ padded = {}
  /\ crashes = 0

Handler(q) ==
  \/ \E r \in Records : Load(q, r)
  \/ CheckStockOut(q) \/ CheckProductTransfer(q) \/ CheckWholeTransfer(q)
  \/ Fetch(q) \/ Apply(q) \/ Relocate(q) \/ Stamp(q)

Next ==
  \/ \E q \in Requests : Handler(q)
  \/ \E r \in Records : EditStatus(r) \/ RemoveRecord(r)
  \/ Crash

Spec == Init /\ [][Next]_vars

-----------------------------------------------------------------------------
(* Properties.                                                             *)

(* The types of the state: quantities stay natural numbers.                *)
TypeOK ==
  /\ stock \in [Items -> Stock]
  /\ status \in [Records -> Statuses]
  /\ req \in [Requests -> RequestType]
  /\ applied \in [Records -> Nat]
  /\ booked \in [Items -> Int]
  /\ padded \subseteq Items
  /\ crashes \in 0..MaxCrashes

(* Overlapping handlers, lost updates and crashes included, a product's    *)
(* stock field stays the sum of its warehouseStock map, provided it starts *)
(* so and every record names its warehouses: whatever save() leaves out,   *)
(* it sends map and total together or neither.  One case is excepted, in   *)
(* which the code does part them: a delta that is clamped away where the   *)
(* map has no key adds the key alone, and the save sends a map that other  *)
(* handlers have changed meanwhile without its total.                      *)
StockIsSum ==
  \A i \in Items \ padded : IsProduct(i) => stock[i].qty = SumWs(stock[i].ws)

(* A record is only ever marked Approved or Completed after every leg of   *)
(* its delta was saved to the item: no crash, retry, cancellation or       *)
(* overlap leaves a settled record whose stock never moved.                *)
DoneImpliesApplied ==
  \A r \in Records : status[r] = "Done" => applied[r] >= LegCount(r)

(* As long as requests on one item do not overlap, the quantity of an item *)
(* is exactly its initial quantity plus every delta, crashes between the   *)
(* two saves included; more is left only after a Decrease, which is        *)
(* clamped at zero.                                                        *)
WrittenOff(i) == \E r \in Records : Rec[r].item = i /\ Rec[r].op = "decrease" /\ applied[r] > 0
QuantityExact ==
  \A i \in Items : stock[i].qty = booked[i] \/ (stock[i].qty > booked[i] /\ WrittenOff(i))

(* As long as requests do not overlap and none is cut short by a crash,    *)
(* approving a record again, however often, moves its stock once.          *)
AppliedOnce == crashes = 0 => \A r \in Records : applied[r] <= LegCount(r)

(* Both: the stock is what the settled records say.                        *)
LedgerExact == QuantityExact /\ AppliedOnce

(* completeStockOut and completeStockTransfer refuse with "Insufficient    *)
(* stock": what is booked out of an item was there.                        *)
NoOversell == \A i \in Items : booked[i] >= 0

(* completeStockTransfer moves a raw material or a finished good without   *)
(* touching its quantity, whatever other handlers saved meanwhile.         *)
RelocationKeepsQuantity ==
  [][\A q \in Requests : req[q].pc = "relocate" /\ req'[q].pc = "stamp"
       => \A i \in Items : stock'[i].qty = stock[i].qty /\ SameMap(stock'[i], stock[i])]_vars

-----------------------------------------------------------------------------
(* What the workflow promises when requests do not overlap: StockLedger.   *)

SettledBy(r) == \E q \in Requests : req[q].pc = "stamp" /\ req[q].rec = r
LedgerStatus ==
  [r \in Records |-> IF status[r] # "Removed" /\ SettledBy(r) THEN "Done" ELSE status[r]]
\* Pieces that left the source of a transfer and have not reached the target.
InTransit(i) ==
  UNION {{q} \X (1..Rec[req[q].rec].qty) :
           q \in {p \in Requests : /\ req[p].pc \in {"fetch", "apply"} /\ req[p].leg = 2
                                  /\ Rec[req[p].rec].item = i}}
LedgerOnHand == [i \in Items |-> stock[i].qty + Cardinality(InTransit(i))]

Ledger == INSTANCE StockLedger WITH status <- LedgerStatus, onHand <- LedgerOnHand

(* Without overlap, and up to the first crash, every handler looks like    *)
(* one atomic step: it settles a pending record and moves exactly its      *)
(* quantity, or does nothing.                                              *)
ImplementsLedger ==
  /\ Ledger!Init
  /\ [][crashes' = 0 => [Ledger!Next]_(Ledger!ledgerVars)]_vars
=============================================================================
