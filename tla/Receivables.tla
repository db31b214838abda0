----------------------------- MODULE Receivables -----------------------------
(***************************************************************************)
(* How payments, invoices and customers are kept consistent: the Mongoose  *)
(* post hooks of src/models/Payment.ts and src/models/Invoice.ts.  A write *)
(* to a payment is followed by syncInvoicePayments, whose update of the    *)
(* invoice fires syncCustomerDue; a write to an invoice fires the latter.  *)
(* Every call to MongoDB is awaited, so other requests run in between, and *)
(* an error in a hook is caught and logged: the request still succeeds.    *)
(***************************************************************************)
EXTENDS Counting

CONSTANTS
  Payments, Invoices, Customers,
  NoInvoice,    \* the invoiceId of an unallocated payment
  PayAmount,    \* [Payments -> Nat]
  Sent,         \* the figures [amount, paid, due] clients put on an invoice
  Refs,         \* the ids customers go by: their _id and their legacyId
  Refers,       \* [Refs -> Customers]
  Owner,        \* [Invoices -> Refs], the customerId of an invoice
  Requests,     \* requests to the payment and invoice routes in progress at once
  MaxFaults,    \* bound on failing hooks and on crashes
  Repoint       \* TRUE: clients move a payment to another invoice

ASSUME ReceivablesAssumption ==
  /\ IsFiniteSet(Payments) /\ IsFiniteSet(Invoices)
  /\ NoInvoice \notin Invoices
  /\ PayAmount \in [Payments -> Nat]
  /\ Sent \subseteq [amount : Nat, paid : Nat, due : Nat]
  /\ Refers \in [Refs -> Customers]
  /\ \A c \in Customers : \E r \in Refs : Refers[r] = c
  /\ Owner \in [Invoices -> Refs]
  /\ MaxFaults \in Nat
  /\ Repoint \in BOOLEAN

VARIABLES
  pay,       \* [Payments -> [status, invoice]]
  inv,       \* [Invoices -> [status, amount, paid, due]]
  totalDue,  \* [Customers -> Nat]
  req,       \* the requests' local state
  faults,
  orderly,   \* history: no overlap, no fault, no payment moved so far
  asSent     \* history: the invoices whose figures are as a client sent them

vars == <<pay, inv, totalDue, req, faults, orderly, asSent>>

\* Only "completed" counts as money received; pending, failed and refunded
\* payments are one status here.  Draft and overdue invoices are "pending".
PayStatuses == {"completed", "uncounted"}
InvStatuses == {"absent", "pending", "paid", "cancelled"}
HookSteps == {"sumPayments", "readInvoice", "saveInvoice", "sumInvoices", "saveCustomer"}

Max0(n) == IF n < 0 THEN 0 ELSE n
InFlight == {q \in Requests : req[q].pc \in HookSteps}

Due == [i \in Invoices |-> inv[i].due]

\* The two aggregation pipelines.
TotalPaid(i) ==
  SumOver(PayAmount, {p \in Payments : pay[p].status = "completed" /\ pay[p].invoice = i})
\* Mutant: the pipeline does not leave cancelled invoices out.
CustomerDue_WithCancelled(ref) == SumOver(Due, {i \in Invoices : Owner[i] = ref})
\* The invoices that carry this very id: those that name the same customer
\* by his other id are not among them.
CustomerDue(ref) ==
  SumOver(Due, {i \in Invoices : Owner[i] = ref /\ inv[i].status \notin {"absent", "cancelled"}})

\* Mutant: the amount due is not clamped.
AfterPayments_NoClamp(current, read, sum) ==
  [current EXCEPT !.paid = sum, !.due = read.amount - sum]
\* syncInvoicePayments: of the invoice as it is now it sets three fields,
\* from the sum and from the invoice it read.
AfterPayments(current, read, sum) ==
  LET due == Max0(read.amount - sum)
  IN [current EXCEPT !.paid = sum, !.due = due,
        !.status = CASE due = 0 /\ read.amount > 0 -> "paid"
                     [] sum > 0 /\ sum < read.amount -> "pending"
                     [] OTHER -> read.status]

\* What the hook uses of the invoice it reads.
Copy(i) == [status |-> inv[i].status, amount |-> inv[i].amount]
NoCopy == [status |-> "absent", amount |-> 0]

NoBody == [status |-> "absent", amount |-> 0, paid |-> 0, due |-> 0]
Body(status, b) == [status |-> status, amount |-> b.amount, paid |-> b.paid, due |-> b.due]

\* A step of q; the history flags of every other request in progress are lost.
Move(q, new) ==
  req' = [x \in Requests |-> CASE x = q -> new
                               [] x \in InFlight \ {q} -> [req[x] EXCEPT !.alone = FALSE]
                               [] OTHER -> req[x]]
Note(undisturbed) == orderly' = (orderly /\ undisturbed)
Step(q, new) == Move(q, new) /\ Note(InFlight \subseteq {q})
Idle == [pc |-> "idle", inv |-> NoInvoice, from |-> "payment",
         sum |-> 0, copy |-> NoCopy, alone |-> TRUE]
\* The hook goes on to syncCustomerDue: what it read is not used again.
NextHook(q) == Step(q, [req[q] EXCEPT !.pc = "sumInvoices", !.sum = 0, !.copy = NoCopy])

-----------------------------------------------------------------------------
(* Requests that write a payment: POST, PUT and DELETE /payments.          *)

\* The post hook of a payment: nothing to do without an invoiceId.
PaymentHook(q, i) ==
  Move(q, IF i = NoInvoice THEN Idle ELSE [Idle EXCEPT !.pc = "sumPayments", !.inv = i])

WritePayment(q, p) ==
  /\ req[q].pc = "idle"
  /\ \E s \in PayStatuses, i \in Invoices \cup {NoInvoice} :
       /\ pay[p].status = "absent" \/ Repoint \/ pay[p].invoice = i
       /\ pay' = [pay EXCEPT ![p] = [status |-> s, invoice |-> i]]
       /\ PaymentHook(q, i)
       /\ Note(InFlight \subseteq {q} /\ pay[p].invoice \in {i, NoInvoice})
  /\ UNCHANGED <<inv, totalDue, faults, asSent>>

DeletePayment(q, p) ==
  /\ req[q].pc = "idle"
  /\ pay[p].status # "absent"
  /\ pay' = [pay EXCEPT ![p] = [status |-> "absent", invoice |-> NoInvoice]]
  /\ PaymentHook(q, pay[p].invoice)
  /\ Note(InFlight \subseteq {q})
  /\ UNCHANGED <<inv, totalDue, faults, asSent>>

(* Requests that write an invoice; its customer is synchronised next.      *)

InvoiceHook(q, i) ==
  Step(q, [Idle EXCEPT !.pc = "sumInvoices", !.inv = i, !.from = "invoice"])

\* POST /invoices: status and figures are stored as sent; nothing computes
\* what is due from the amount or from payments that name it already.
CreateInvoice(q, i) ==
  /\ req[q].pc = "idle"
  /\ inv[i].status = "absent"
  /\ \E s \in InvStatuses \ {"absent"}, b \in Sent : inv' = [inv EXCEPT ![i] = Body(s, b)]
  /\ asSent' = asSent \cup {i}
  /\ InvoiceHook(q, i)
  /\ UNCHANGED <<pay, totalDue, faults>>

\* PUT /invoices/:id: of the status alone, or of the figures too.
EditInvoice(q, i) ==
  /\ req[q].pc = "idle"
  /\ inv[i].status # "absent"
  /\ \E s \in InvStatuses \ {"absent"} :
       \/ inv' = [inv EXCEPT ![i].status = s] /\ UNCHANGED asSent
       \/ /\ \E b \in Sent : inv' = [inv EXCEPT ![i] = Body(s, b)]
          /\ asSent' = asSent \cup {i}
  /\ InvoiceHook(q, i)
  /\ UNCHANGED <<pay, totalDue, faults>>

DeleteInvoice(q, i) ==
  /\ req[q].pc = "idle"
  /\ inv[i].status # "absent"
  /\ inv' = [inv EXCEPT ![i] = NoBody]
  /\ asSent' = asSent \ {i}
  /\ InvoiceHook(q, i)
  /\ UNCHANGED <<pay, totalDue, faults>>

-----------------------------------------------------------------------------
(* syncInvoicePayments and syncCustomerDue, one action per awaited call.   *)

SumPayments(q) ==
  /\ req[q].pc = "sumPayments"
  /\ Step(q, [req[q] EXCEPT !.pc = "readInvoice", !.sum = TotalPaid(req[q].inv)])
  /\ UNCHANGED <<pay, inv, totalDue, faults, asSent>>

ReadInvoice(q) ==
  LET i == req[q].inv
  IN /\ req[q].pc = "readInvoice"
     /\ IF inv[i].status = "absent" THEN Step(q, Idle)
        ELSE Step(q, [req[q] EXCEPT !.pc = "saveInvoice", !.copy = Copy(i)])
     /\ UNCHANGED <<pay, inv, totalDue, faults, asSent>>

\* Mutant: the invoice is written with updateOne, which fires no hook.
SaveInvoice_UpdateOne(q) ==
  LET i == req[q].inv
  IN /\ req[q].pc = "saveInvoice"
     /\ Step(q, Idle)
     /\ inv' = IF inv[i].status = "absent" THEN inv
               ELSE [inv EXCEPT ![i] = AfterPayments(inv[i], req[q].copy, req[q].sum)]
     /\ asSent' = asSent \ {i}
     /\ UNCHANGED <<pay, totalDue, faults>>
\* findOneAndUpdate: of an invoice deleted meanwhile there is no document
\* for the next hook.
SaveInvoice(q) ==
  LET i == req[q].inv
  IN /\ req[q].pc = "saveInvoice"
     /\ IF inv[i].status = "absent"
        THEN Step(q, Idle) /\ UNCHANGED <<inv, asSent>>
        ELSE /\ NextHook(q)
             /\ inv' = [inv EXCEPT ![i] = AfterPayments(inv[i], req[q].copy, req[q].sum)]
             /\ asSent' = asSent \ {i}
     /\ UNCHANGED <<pay, totalDue, faults>>

SumInvoices(q) ==
  /\ req[q].pc = "sumInvoices"
  /\ Step(q, [req[q] EXCEPT !.pc = "saveCustomer", !.sum = CustomerDue(Owner[req[q].inv])])
  /\ UNCHANGED <<pay, inv, totalDue, faults, asSent>>

SaveCustomer(q) ==
  /\ req[q].pc = "saveCustomer"
  /\ totalDue' = [totalDue EXCEPT ![Refers[Owner[req[q].inv]]] = req[q].sum]
  /\ Step(q, Idle)
  /\ UNCHANGED <<pay, inv, faults, asSent>>

\* A call of the hook fails: the catch block logs it and the request goes on.
HookFails(q) ==
  /\ faults < MaxFaults
  /\ q \in InFlight
  /\ faults' = faults + 1
  /\ Move(q, Idle) /\ Note(FALSE)
  /\ UNCHANGED <<pay, inv, totalDue, asSent>>

Crash ==
  /\ faults < MaxFaults
  /\ InFlight # {}
  /\ faults' = faults + 1
  /\ req' = [q \in Requests |-> Idle] /\ Note(FALSE)
  /\ UNCHANGED <<pay, inv, totalDue, asSent>>

-----------------------------------------------------------------------------
Init ==
  /\ pay = [p \in Payments |-> [status |-> "absent", invoice |-> NoInvoice]]
  /\ inv = [i \in Invoices |-> NoBody]
  /\ totalDue = [c \in Customers |-> 0]
  /\ req = [q \in Requests |-> Idle]
  /\ faults = 0
  /\ orderly = TRUE
  /\ asSent = {}

Write(q) ==
  \/ \E p \in Payments : WritePayment(q, p) \/ DeletePayment(q, p)
  \/ \E i \in Invoices : CreateInvoice(q, i) \/ EditInvoice(q, i) \/ DeleteInvoice(q, i)
Hook(q) ==
  SumPayments(q) \/ ReadInvoice(q) \/ SaveInvoice(q) \/ SumInvoices(q) \/ SaveCustomer(q)

Next == Crash \/ \E q \in Requests : Write(q) \/ Hook(q) \/ HookFails(q)

Spec == Init /\ [][Next]_vars

-----------------------------------------------------------------------------
(* Properties.                                                             *)

(* The types of the state: no amount paid or due is ever negative.         *)
InvoiceRecords == [status : InvStatuses, amount : Nat, paid : Nat, due : Nat]
TypeOK ==
  /\ pay \in [Payments -> [status : PayStatuses \cup {"absent"}, invoice : Invoices \cup {NoInvoice}]]
  /\ inv \in [Invoices -> InvoiceRecords]
  /\ totalDue \in [Customers -> Nat]
  /\ req \in [Requests -> [pc : HookSteps \cup {"idle"},
                           inv : Invoices \cup {NoInvoice}, from : {"payment", "invoice"},
                           sum : Nat, copy : [status : InvStatuses, amount : Nat], alone : BOOLEAN]]
  /\ faults \in 0..MaxFaults
  /\ orderly \in BOOLEAN
  /\ asSent \subseteq Invoices

InvoiceRight(i) ==
  inv[i].status # "absent" => /\ inv[i].paid = TotalPaid(i)
                              /\ inv[i].due = Max0(inv[i].amount - TotalPaid(i))
\* What the invoices that name a customer by this id leave open.
OpenDue(ref) ==
  SumOver(Due, {i \in Invoices : Owner[i] = ref /\ inv[i].status \in {"pending", "paid"}})
DueRight(ref) == totalDue[Refers[ref]] = OpenDue(ref)
\* Of a customer who goes by two ids the balance is that of one of them.
CustomerRight(c) == \E r \in Refs : Refers[r] = c /\ DueRight(r)

(* "Ledger consistency via Mongoose post-save hooks": when no request is   *)
(* in progress, every customer agrees with his open invoices, and every    *)
(* invoice with its payments, except one whose figures a client has sent   *)
(* and no payment's hook has computed since.                               *)
LedgerConsistent ==
  InFlight = {} => /\ \A i \in Invoices : i \in asSent \/ InvoiceRight(i)
                   /\ \A c \in Customers : CustomerRight(c)

(* And so it is as long as requests do not overlap, no hook fails and no   *)
(* payment is moved to another invoice, whatever is created, withdrawn,    *)
(* overpaid, edited, cancelled, reopened and deleted.                      *)
OrderlyLedger == orderly => LedgerConsistent

(* The hooks recompute instead of adding up, so they heal: whatever races, *)
(* failed hooks and crashes came before, one write whose hooks run without *)
(* another request in between leaves its customer right, by the id of its  *)
(* invoice, and a write of a payment leaves the invoice right as well.     *)
AloneRepairs ==
  [][\A q \in Requests, i \in Invoices :
       req[q].pc = "saveCustomer" /\ req[q].inv = i /\ req[q].alone /\ SaveCustomer(q)
         => /\ DueRight(Owner[i])'
            /\ req[q].from = "payment" => InvoiceRight(i)']_vars
=============================================================================
