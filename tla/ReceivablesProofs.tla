-------------------------- MODULE ReceivablesProofs --------------------------
(***************************************************************************)
(* Proofs about Receivables, for any finite sets of payments and invoices, *)
(* any customers, ids and figures, any number of overlapping requests, of  *)
(* failing hooks and of crashes.                                           *)
(***************************************************************************)
EXTENDS Receivables, FiniteSetTheorems, TLAPS

-----------------------------------------------------------------------------
(* Sums.                                                                   *)

\* The $sum of amounts over finitely many documents is an amount.
LEMMA SumType ==
  ASSUME NEW D, NEW n \in [D -> Nat], NEW S \in SUBSET D, IsFiniteSet(S)
  PROVE  SumOver(n, S) \in Nat
<1> DEFINE Pile(x) == {x} \X (1..n[x])
           Piles == {Pile(x) : x \in S}
<1>1. [x \in S |-> Pile(x)] \in Surjection(S, Piles)
  BY DEF Surjection
<1>2. IsFiniteSet(Piles)
  BY <1>1, FS_Surjection
<1>3. ASSUME NEW x \in S
      PROVE  IsFiniteSet(Pile(x))
  <2>1. IsFiniteSet({x}) /\ IsFiniteSet(1..n[x])
    <3>1. n[x] \in Nat
      OBVIOUS
    <3>2. IsFiniteSet(1..n[x])
      BY <3>1, FS_Interval
    <3>3. IsFiniteSet({x})
      BY FS_Singleton
    <3> QED
      BY <3>2, <3>3
  <2> QED
    BY <2>1, FS_Product
<1>4. \A T \in Piles : IsFiniteSet(T)
  BY <1>3
<1>5. IsFiniteSet(UNION Piles)
  BY <1>2, <1>4, FS_UNION
<1> QED
  BY <1>5, FS_CardinalityType DEF SumOver, Units

\* A sum depends on the documents it ranges over only.
LEMMA SumSame ==
  ASSUME NEW m, NEW n, NEW S, \A x \in S : m[x] = n[x]
  PROVE  SumOver(m, S) = SumOver(n, S)
<1>1. {{x} \X (1..m[x]) : x \in S} = {{x} \X (1..n[x]) : x \in S}
  OBVIOUS
<1> QED
  BY <1>1 DEF SumOver, Units

Invs == [status : InvStatuses, amount : Nat, paid : Nat, due : Nat]
Copies == [status : InvStatuses, amount : Nat]
RequestStates ==
  [pc : HookSteps \cup {"idle"}, inv : Invoices \cup {NoInvoice}, from : {"payment", "invoice"},
   sum : Nat, copy : Copies, alone : BOOLEAN]

LEMMA TotalPaidType ==
  ASSUME NEW i
  PROVE  TotalPaid(i) \in Nat
<1> DEFINE S == {p \in Payments : pay[p].status = "completed" /\ pay[p].invoice = i}
<1>1. IsFiniteSet(S) /\ S \in SUBSET Payments /\ PayAmount \in [Payments -> Nat]
  BY FS_Subset, ReceivablesAssumption
<1> HIDE DEF S
<1>2. SumOver(PayAmount, S) \in Nat
  BY <1>1, SumType
<1> QED
  BY <1>2 DEF S, TotalPaid

LEMMA CustomerDueType ==
  ASSUME inv \in [Invoices -> Invs], NEW c
  PROVE  CustomerDue(c) \in Nat
<1> DEFINE S == {i \in Invoices : Owner[i] = c /\ inv[i].status \notin {"absent", "cancelled"}}
<1>1. IsFiniteSet(S) /\ S \in SUBSET Invoices
  BY FS_Subset, ReceivablesAssumption
<1>2. Due \in [Invoices -> Nat]
  BY DEF Due, Invs
<1> HIDE DEF S
<1>3. SumOver(Due, S) \in Nat
  BY <1>1, <1>2, SumType
<1> QED
  BY <1>3 DEF S, CustomerDue

\* What syncCustomerDue adds up is what the customer's open invoices leave due.
LEMMA CustomerDueIsOpenDue ==
  ASSUME inv \in [Invoices -> Invs], NEW c
  PROVE  CustomerDue(c) = OpenDue(c)
<1>1. {i \in Invoices : Owner[i] = c /\ inv[i].status \notin {"absent", "cancelled"}}
        = {i \in Invoices : Owner[i] = c /\ inv[i].status \in {"pending", "paid"}}
  BY DEF Invs, InvStatuses
<1> QED
  BY <1>1 DEF CustomerDue, OpenDue

\* A step that leaves the payments of an invoice alone leaves its sum alone.
LEMMA SamePaid ==
  ASSUME NEW i, \A p \in Payments : (pay'[p].status = "completed" /\ pay'[p].invoice = i)
                                      <=> (pay[p].status = "completed" /\ pay[p].invoice = i)
  PROVE  TotalPaid(i)' = TotalPaid(i)
<1>1. {p \in Payments : pay'[p].status = "completed" /\ pay'[p].invoice = i}
        = {p \in Payments : pay[p].status = "completed" /\ pay[p].invoice = i}
  OBVIOUS
<1> QED
  BY <1>1 DEF TotalPaid

\* A step that leaves the invoices of a customer alone leaves his balance alone.
LEMMA SameDue ==
  ASSUME NEW c, \A i \in Invoices : Owner[i] = c => inv'[i] = inv[i]
  PROVE  OpenDue(c)' = OpenDue(c)
<1> DEFINE S == {i \in Invoices : Owner[i] = c /\ inv[i].status \in {"pending", "paid"}}
           T == {i \in Invoices : Owner[i] = c /\ inv'[i].status \in {"pending", "paid"}}
<1>1. S = T
  OBVIOUS
<1>2. \A i \in S : Due[i] = Due'[i]
  BY DEF Due
<1> HIDE DEF S
<1>3. SumOver(Due, S) = SumOver(Due', S)
  BY <1>2, SumSame
<1> QED
  BY <1>1, <1>3 DEF OpenDue, S

-----------------------------------------------------------------------------
(* Types.                                                                  *)

\* A step of one request: its own state is the new one, every other request
\* only loses the claim to be alone, if it is in progress.
LEMMA OneRequest ==
  ASSUME req \in [Requests -> RequestStates], NEW q \in Requests,
         NEW new \in RequestStates, Move(q, new)
  PROVE  /\ req' \in [Requests -> RequestStates]
         /\ req'[q] = new
         /\ \A x \in Requests \ {q} :
              /\ req'[x].pc = req[x].pc /\ req'[x].inv = req[x].inv
              /\ x \in InFlight => ~req'[x].alone
              /\ x \notin InFlight => req'[x] = req[x]
<1>1. req'[q] = new
  BY DEF Move
<1>2. ASSUME NEW x \in Requests \ {q}
      PROVE  /\ req'[x] \in RequestStates
             /\ req'[x].pc = req[x].pc /\ req'[x].inv = req[x].inv
             /\ x \in InFlight => ~req'[x].alone
             /\ x \notin InFlight => req'[x] = req[x]
  <2>1. req[x] \in RequestStates
    OBVIOUS
  <2>2. CASE x \in InFlight
    <3>1. req'[x] = [req[x] EXCEPT !.alone = FALSE]
      BY <2>2 DEF Move
    <3> QED
      BY <2>1, <2>2, <3>1 DEF RequestStates
  <2>3. CASE x \notin InFlight
    <3>1. req'[x] = req[x]
      BY <2>3 DEF Move
    <3> QED
      BY <2>1, <2>3, <3>1
  <2> QED
    BY <2>2, <2>3
<1>3. req' \in [Requests -> RequestStates]
  <2>1. \A x \in Requests : req'[x] \in RequestStates
    BY <1>1, <1>2
  <2>2. req' = [x \in Requests |-> req'[x]]
    BY DEF Move
  <2> QED
    BY <2>1, <2>2
<1> QED
  BY <1>1, <1>2, <1>3

LEMMA IdleType == Idle \in RequestStates
BY DEF Idle, NoCopy, RequestStates, Copies, InvStatuses

LEMMA Types ==
  TypeOK <=> /\ pay \in [Payments -> [status : PayStatuses \cup {"absent"}, invoice : Invoices \cup {NoInvoice}]]
             /\ inv \in [Invoices -> Invs]
             /\ totalDue \in [Customers -> Nat]
             /\ req \in [Requests -> RequestStates]
             /\ faults \in 0..MaxFaults
             /\ orderly \in BOOLEAN
             /\ asSent \subseteq Invoices
BY DEF TypeOK, InvoiceRecords, Invs, Copies, RequestStates

(* What a hook works on: an invoice, as long as the hook runs.             *)
OnInvoices == \A q \in Requests : req[q].pc \in HookSteps => req[q].inv \in Invoices

LEMMA AfterPaymentsType ==
  ASSUME NEW current \in Invs, NEW read \in Copies, NEW sum \in Nat,
         current.status # "absent"
  PROVE  /\ AfterPayments(current, read, sum) \in Invs
         /\ AfterPayments(current, read, sum).amount = current.amount
         /\ AfterPayments(current, read, sum).paid = sum
         /\ AfterPayments(current, read, sum).due = Max0(read.amount - sum)
<1> DEFINE due == Max0(read.amount - sum)
<1>1. read.amount \in Nat /\ read.status \in InvStatuses
  BY DEF Copies
<1>2. due \in Nat
  BY <1>1 DEF Max0
<1> DEFINE st == CASE due = 0 /\ read.amount > 0 -> "paid"
                   [] sum > 0 /\ sum < read.amount -> "pending"
                   [] OTHER -> read.status
<1>3. st \in {"paid", "pending", read.status}
  <2>1. CASE due = 0 /\ read.amount > 0
    <3>1. ~(sum > 0 /\ sum < read.amount)
      BY <2>1, <1>1 DEF Max0
    <3> QED
      BY <2>1, <3>1
  <2>2. CASE ~(due = 0 /\ read.amount > 0)
    BY <2>2
  <2> QED
    BY <2>1, <2>2
<1>4. AfterPayments(current, read, sum) = [current EXCEPT !.paid = sum, !.due = due, !.status = st]
  BY DEF AfterPayments
<1> HIDE DEF due, st
<1>5. /\ AfterPayments(current, read, sum) \in Invs
      /\ AfterPayments(current, read, sum).amount = current.amount
      /\ AfterPayments(current, read, sum).paid = sum
      /\ AfterPayments(current, read, sum).due = due
  BY <1>1, <1>2, <1>3, <1>4 DEF Invs, InvStatuses
<1> QED
  BY <1>5 DEF due

(* Every amount stays an amount, and every hook works on an invoice.       *)
LEMMA TypeStep == TypeOK /\ OnInvoices /\ [Next]_vars => TypeOK' /\ OnInvoices'
<1> SUFFICES ASSUME TypeOK, OnInvoices, [Next]_vars
             PROVE  TypeOK' /\ OnInvoices'
  OBVIOUS
<1> USE DEF HookSteps, PayStatuses
<1>0. /\ pay \in [Payments -> [status : PayStatuses \cup {"absent"}, invoice : Invoices \cup {NoInvoice}]]
      /\ inv \in [Invoices -> Invs]
      /\ totalDue \in [Customers -> Nat]
      /\ req \in [Requests -> RequestStates]
      /\ faults \in 0..MaxFaults
      /\ orderly \in BOOLEAN
      /\ asSent \subseteq Invoices
  BY Types
<1>t. ASSUME /\ pay' \in [Payments -> [status : PayStatuses \cup {"absent"}, invoice : Invoices \cup {NoInvoice}]]
             /\ inv' \in [Invoices -> Invs]
             /\ totalDue' \in [Customers -> Nat]
             /\ req' \in [Requests -> RequestStates]
             /\ faults' \in 0..MaxFaults
             /\ orderly' \in BOOLEAN
             /\ asSent' \subseteq Invoices
      PROVE  TypeOK'
  BY <1>t DEF TypeOK, InvoiceRecords, Invs, Copies, RequestStates
<1>1. ASSUME NEW q \in Requests, NEW new \in RequestStates, Move(q, new),
             new.pc \in HookSteps => new.inv \in Invoices
      PROVE  req' \in [Requests -> RequestStates] /\ OnInvoices'
  BY <1>0, <1>1, OneRequest DEF OnInvoices
<1>2. ASSUME NEW b \in BOOLEAN, Note(b)
      PROVE  orderly' \in BOOLEAN
  BY <1>0, <1>2 DEF Note
<1>3. ASSUME NEW q \in Requests, NEW i \in Invoices \cup {NoInvoice}, PaymentHook(q, i)
      PROVE  req' \in [Requests -> RequestStates] /\ OnInvoices'
  <2> DEFINE new == IF i = NoInvoice THEN Idle ELSE [Idle EXCEPT !.pc = "sumPayments", !.inv = i]
  <2>1. new \in RequestStates /\ (new.pc \in HookSteps => new.inv \in Invoices)
    BY DEF Idle, NoCopy, RequestStates, Copies, InvStatuses
  <2>2. Move(q, new)
    BY <1>3 DEF PaymentHook
  <2> QED
    BY <1>1, <2>1, <2>2
<1>4. ASSUME NEW q \in Requests, NEW new \in RequestStates, Step(q, new),
             new.pc \in HookSteps => new.inv \in Invoices
      PROVE  req' \in [Requests -> RequestStates] /\ OnInvoices' /\ orderly' \in BOOLEAN
  BY <1>1, <1>2, <1>4 DEF Step
<1>5. ASSUME NEW q \in Requests, NEW i \in Invoices, InvoiceHook(q, i)
      PROVE  req' \in [Requests -> RequestStates] /\ OnInvoices' /\ orderly' \in BOOLEAN
  <2> DEFINE new == [Idle EXCEPT !.pc = "sumInvoices", !.inv = i, !.from = "invoice"]
  <2>1. new \in RequestStates /\ new.inv \in Invoices
    BY DEF Idle, NoCopy, RequestStates, Copies, InvStatuses
  <2>2. Step(q, new)
    BY <1>5 DEF InvoiceHook
  <2> QED
    BY <1>4, <2>1, <2>2
<1>6. \A q \in Requests : Step(q, Idle) => req' \in [Requests -> RequestStates] /\ OnInvoices' /\ orderly' \in BOOLEAN
  BY <1>4, IdleType DEF Idle
<1>7. ASSUME NEW q \in Requests, NEW p \in Payments, WritePayment(q, p)
      PROVE  TypeOK' /\ OnInvoices'
  <2> PICK s \in PayStatuses, i \in Invoices \cup {NoInvoice} :
        /\ pay' = [pay EXCEPT ![p] = [status |-> s, invoice |-> i]]
        /\ PaymentHook(q, i)
        /\ Note(InFlight \subseteq {q} /\ pay[p].invoice \in {i, NoInvoice})
    BY <1>7 DEF WritePayment
  <2>1. pay' \in [Payments -> [status : PayStatuses \cup {"absent"}, invoice : Invoices \cup {NoInvoice}]]
    BY <1>0
  <2>2. req' \in [Requests -> RequestStates] /\ OnInvoices'
    BY <1>3
  <2>3. orderly' \in BOOLEAN
    BY <1>2
  <2>4. UNCHANGED <<inv, totalDue, faults, asSent>>
    BY <1>7 DEF WritePayment
  <2> QED
    BY <1>0, <1>t, <2>1, <2>2, <2>3, <2>4
<1>8. ASSUME NEW q \in Requests, NEW p \in Payments, DeletePayment(q, p)
      PROVE  TypeOK' /\ OnInvoices'
  <2>1. /\ pay' = [pay EXCEPT ![p] = [status |-> "absent", invoice |-> NoInvoice]]
        /\ PaymentHook(q, pay[p].invoice)
        /\ Note(InFlight \subseteq {q})
        /\ UNCHANGED <<inv, totalDue, faults, asSent>>
    BY <1>8 DEF DeletePayment
  <2>2. pay' \in [Payments -> [status : PayStatuses \cup {"absent"}, invoice : Invoices \cup {NoInvoice}]]
    BY <1>0, <2>1
  <2>3. pay[p].invoice \in Invoices \cup {NoInvoice}
    BY <1>0
  <2>4. req' \in [Requests -> RequestStates] /\ OnInvoices' /\ orderly' \in BOOLEAN
    BY <1>2, <1>3, <2>1, <2>3
  <2> QED
    BY <1>0, <1>t, <2>1, <2>2, <2>4
<1>9. ASSUME NEW b \in Sent, NEW st \in InvStatuses
      PROVE  Body(st, b) \in Invs
  BY ReceivablesAssumption DEF Body, Invs
<1>10. ASSUME NEW q \in Requests, NEW i \in Invoices,
              CreateInvoice(q, i) \/ EditInvoice(q, i) \/ DeleteInvoice(q, i)
       PROVE  TypeOK' /\ OnInvoices'
  <2>1. InvoiceHook(q, i) /\ UNCHANGED <<pay, totalDue, faults>>
    BY <1>10 DEF CreateInvoice, EditInvoice, DeleteInvoice
  <2>2. \/ \E new \in Invs : inv' = [inv EXCEPT ![i] = new]
        \/ \E st \in InvStatuses : inv' = [inv EXCEPT ![i].status = st]
    <3>1. CASE CreateInvoice(q, i)
      BY <1>9, <3>1 DEF CreateInvoice
    <3>2. CASE EditInvoice(q, i)
      BY <1>9, <3>2 DEF EditInvoice
    <3>3. CASE DeleteInvoice(q, i)
      BY <3>3 DEF DeleteInvoice, NoBody, Invs, InvStatuses
    <3> QED
      BY <1>10, <3>1, <3>2, <3>3
  <2>3. inv' \in [Invoices -> Invs]
    BY <1>0, <2>2 DEF Invs
  <2>4. asSent' \subseteq Invoices
    BY <1>0, <1>10 DEF CreateInvoice, EditInvoice, DeleteInvoice
  <2> QED
    BY <1>0, <1>t, <1>5, <2>1, <2>3, <2>4
<1>12. ASSUME NEW q \in Requests, Hook(q)
       PROVE  TypeOK' /\ OnInvoices'
  <2>0. req[q] \in RequestStates /\ req[q].pc \in HookSteps /\ req[q].inv \in Invoices
    BY <1>0, <1>12 DEF Hook, SumPayments, ReadInvoice, SaveInvoice, SumInvoices, SaveCustomer, OnInvoices
  <2>1. CASE SumPayments(q)
    <3> DEFINE new == [req[q] EXCEPT !.pc = "readInvoice", !.sum = TotalPaid(req[q].inv)]
    <3>1. TotalPaid(req[q].inv) \in Nat
      BY TotalPaidType
    <3>2. new \in RequestStates /\ new.inv \in Invoices
      BY <2>0, <3>1 DEF RequestStates
    <3>3. Step(q, new) /\ UNCHANGED <<pay, inv, totalDue, faults, asSent>>
      BY <2>1 DEF SumPayments
    <3> QED
      BY <1>0, <1>t, <1>4, <3>2, <3>3
  <2>2. CASE ReadInvoice(q)
    <3> DEFINE new == [req[q] EXCEPT !.pc = "saveInvoice", !.copy = Copy(req[q].inv)]
    <3>1. new \in RequestStates /\ new.inv \in Invoices
      BY <1>0, <2>0 DEF RequestStates, Copy, Copies, Invs
    <3>2. UNCHANGED <<pay, inv, totalDue, faults, asSent>>
      BY <2>2 DEF ReadInvoice
    <3>3. Step(q, Idle) \/ Step(q, new)
      BY <2>2 DEF ReadInvoice
    <3> QED
      BY <1>0, <1>t, <1>4, <1>6, <3>1, <3>2, <3>3
  <2>3. CASE SaveInvoice(q)
    <3> DEFINE new == [req[q] EXCEPT !.pc = "sumInvoices", !.sum = 0, !.copy = NoCopy]
               late == AfterPayments(inv[req[q].inv], req[q].copy, req[q].sum)
    <3>1. new \in RequestStates /\ new.inv \in Invoices
      BY <2>0 DEF RequestStates, NoCopy, Copies, InvStatuses
    <3>2. inv[req[q].inv].status # "absent" => late \in Invs
      BY <1>0, <2>0, AfterPaymentsType DEF RequestStates
    <3>3. UNCHANGED <<pay, totalDue, faults>>
      BY <2>3 DEF SaveInvoice
    <3>4. \/ Step(q, Idle) /\ UNCHANGED <<inv, asSent>>
          \/ /\ inv[req[q].inv].status # "absent"
             /\ Step(q, new) /\ inv' = [inv EXCEPT ![req[q].inv] = late]
             /\ asSent' = asSent \ {req[q].inv}
      BY <2>3 DEF SaveInvoice, NextHook
    <3> HIDE DEF late
    <3>5. inv' \in [Invoices -> Invs] /\ asSent' \subseteq Invoices
      BY <1>0, <2>0, <3>2, <3>4
    <3> QED
      BY <1>0, <1>t, <1>4, <1>6, <3>1, <3>3, <3>4, <3>5
  <2>4. CASE SumInvoices(q)
    <3> DEFINE new == [req[q] EXCEPT !.pc = "saveCustomer", !.sum = CustomerDue(Owner[req[q].inv])]
    <3>1. CustomerDue(Owner[req[q].inv]) \in Nat
      BY <1>0, CustomerDueType
    <3>2. new \in RequestStates /\ new.inv \in Invoices
      BY <2>0, <3>1 DEF RequestStates
    <3>3. Step(q, new) /\ UNCHANGED <<pay, inv, totalDue, faults, asSent>>
      BY <2>4 DEF SumInvoices
    <3> QED
      BY <1>0, <1>t, <1>4, <3>2, <3>3
  <2>5. CASE SaveCustomer(q)
    <3>1. totalDue' = [totalDue EXCEPT ![Refers[Owner[req[q].inv]]] = req[q].sum]
      BY <2>5 DEF SaveCustomer
    <3>2. totalDue' \in [Customers -> Nat]
      BY <1>0, <2>0, <3>1 DEF RequestStates
    <3>3. Step(q, Idle) /\ UNCHANGED <<pay, inv, faults, asSent>>
      BY <2>5 DEF SaveCustomer
    <3> QED
      BY <1>0, <1>t, <1>6, <3>2, <3>3
  <2> QED
    BY <1>12, <2>1, <2>2, <2>3, <2>4, <2>5 DEF Hook
<1>13. ASSUME NEW q \in Requests, HookFails(q)
       PROVE  TypeOK' /\ OnInvoices'
  <2>1. req' \in [Requests -> RequestStates] /\ OnInvoices'
    BY <1>1, <1>13, IdleType DEF HookFails, Idle
  <2>2. faults' \in 0..MaxFaults /\ UNCHANGED <<pay, inv, totalDue, asSent>>
    BY <1>0, <1>13, ReceivablesAssumption DEF HookFails
  <2>3. orderly' \in BOOLEAN
    BY <1>13 DEF HookFails, Note
  <2> QED
    BY <1>0, <1>t, <2>1, <2>2, <2>3
<1>14. ASSUME Crash
       PROVE  TypeOK' /\ OnInvoices'
  <2>1. req' = [q \in Requests |-> Idle]
    BY <1>14 DEF Crash
  <2>2. req' \in [Requests -> RequestStates] /\ OnInvoices'
    BY <2>1, IdleType DEF OnInvoices, Idle
  <2>3. faults' \in 0..MaxFaults /\ UNCHANGED <<pay, inv, totalDue, asSent>>
    BY <1>0, <1>14, ReceivablesAssumption DEF Crash
  <2>4. orderly' \in BOOLEAN
    BY <1>14 DEF Crash, Note
  <2> QED
    BY <1>0, <1>t, <2>2, <2>3, <2>4
<1>15. CASE UNCHANGED vars
  BY <1>0, <1>15, <1>t DEF vars, OnInvoices
<1> QED
  BY <1>7, <1>8, <1>10, <1>12, <1>13, <1>14, <1>15 DEF Next, Write

(* No amount paid, due or owed is ever negative, whatever races or fails.  *)
THEOREM TypeCorrect == Spec => []TypeOK
<1>1. Init => TypeOK /\ OnInvoices
  BY ReceivablesAssumption DEF Init, TypeOK, OnInvoices, Idle, NoCopy, NoBody, InvoiceRecords, HookSteps, PayStatuses, InvStatuses
<1> QED
  BY <1>1, TypeStep, PTL DEF Spec

-----------------------------------------------------------------------------
(* The ledger.                                                             *)

PayingSteps == {"sumPayments", "readInvoice", "saveInvoice"}
CustomerSteps == {"sumInvoices", "saveCustomer"}

\* What a hook run that nothing disturbed knows at each of its steps: what
\* it read is still true, and the invoice it wrote is still right.
Known(q) ==
  req[q].alone =>
    /\ req[q].pc \in {"readInvoice", "saveInvoice"} => req[q].sum = TotalPaid(req[q].inv)
    /\ req[q].pc = "saveInvoice" => /\ inv[req[q].inv].status # "absent"
                                   /\ req[q].copy.amount = inv[req[q].inv].amount
    /\ req[q].pc \in CustomerSteps /\ req[q].from = "payment" => InvoiceRight(req[q].inv)
    /\ req[q].pc = "saveCustomer" => req[q].sum = OpenDue(Owner[req[q].inv])
\* As long as things are orderly there is one hook run at a time ...
OneAtATime == orderly => \A q \in InFlight : req[q].alone /\ InFlight = {q}
\* ... and only the invoice and the customer it is about may be wrong.
Fine(i) == i \in asSent \/ InvoiceRight(i)
OthersRight ==
  orderly => /\ \A i \in Invoices :
                  Fine(i) \/ \E q \in Requests : req[q].pc \in PayingSteps /\ req[q].inv = i
             /\ \A c \in Customers :
                  CustomerRight(c) \/ \E q \in Requests : req[q].pc \in CustomerSteps /\ Refers[Owner[req[q].inv]] = c
LedgerInv ==
  /\ TypeOK /\ OnInvoices
  /\ \A q \in Requests : Known(q)
  /\ OneAtATime
  /\ OthersRight

\* Nothing has to be known of a hook run that is only starting.
Fresh(new) ==
  /\ new.pc \in {"idle", "sumPayments", "sumInvoices"}
  /\ new.pc = "sumInvoices" => new.from = "invoice"
  /\ new.alone

\* The requests a step does not take know what they knew.
LEMMA OthersKnow ==
  ASSUME req \in [Requests -> RequestStates], NEW q \in Requests,
         NEW new \in RequestStates, Move(q, new),
         Known(q)'
  PROVE  \A x \in Requests : Known(x)'
<1> SUFFICES ASSUME NEW x \in Requests \ {q}
             PROVE  Known(x)'
  OBVIOUS
<1>1. CASE x \in InFlight
  <2>1. ~req'[x].alone
    BY <1>1, OneRequest
  <2> QED
    BY <2>1 DEF Known
<1>2. CASE x \notin InFlight
  <2>1. req'[x].pc \notin HookSteps
    BY <1>2, OneRequest DEF InFlight
  <2> QED
    BY <2>1 DEF Known, HookSteps, CustomerSteps
<1> QED
  BY <1>1, <1>2

LEMMA FreshKnows ==
  ASSUME req \in [Requests -> RequestStates], NEW q \in Requests,
         NEW new \in RequestStates, Move(q, new), Fresh(new)
  PROVE  \A x \in Requests : Known(x)'
<1>1. req'[q] = new
  BY OneRequest
<1>2. Known(q)'
  BY <1>1 DEF Known, Fresh, CustomerSteps
<1> QED
  BY <1>2, OthersKnow

\* A step that keeps things orderly was taken while no other request ran.
LEMMA StaysOne ==
  ASSUME req \in [Requests -> RequestStates], NEW q \in Requests,
         NEW new \in RequestStates, Move(q, new), new.alone,
         InFlight \subseteq {q}
  PROVE  /\ OneAtATime'
         /\ \A x \in Requests \ {q} : req[x].pc \notin HookSteps /\ req'[x].pc \notin HookSteps
<1>1. \A x \in Requests \ {q} : req[x].pc \notin HookSteps
  BY DEF InFlight
<1>2. \A x \in Requests \ {q} : req'[x].pc \notin HookSteps
  BY <1>1, OneRequest
<1>3. req'[q].alone
  BY OneRequest
<1>4. InFlight' \subseteq {q}
  BY <1>2 DEF InFlight
<1> QED
  BY <1>1, <1>2, <1>3, <1>4 DEF OneAtATime

\* What a step leaves right.
LEMMA InvoiceStaysRight ==
  ASSUME NEW i, InvoiceRight(i), inv'[i] = inv[i], TotalPaid(i)' = TotalPaid(i)
  PROVE  InvoiceRight(i)'
BY DEF InvoiceRight

LEMMA StaysFine ==
  ASSUME NEW i, Fine(i), inv'[i] = inv[i], TotalPaid(i)' = TotalPaid(i),
         i \in asSent => i \in asSent'
  PROVE  Fine(i)'
BY InvoiceStaysRight DEF Fine

LEMMA CustomerStaysRight ==
  ASSUME NEW c, CustomerRight(c), totalDue'[c] = totalDue[c],
         \A i \in Invoices : Refers[Owner[i]] = c => inv'[i] = inv[i]
  PROVE  CustomerRight(c)'
<1>1. PICK ref \in Refs : Refers[ref] = c /\ totalDue[c] = OpenDue(ref)
  BY DEF CustomerRight, DueRight
<1>2. OpenDue(ref)' = OpenDue(ref)
  BY <1>1, SameDue
<1> QED
  BY <1>1, <1>2 DEF CustomerRight, DueRight

\* In an orderly state where only q may be in progress, everything is right
\* but what q is about; and so it is after a step of q, if that is shown.
LEMMA RightBefore ==
  ASSUME LedgerInv, orderly, NEW q \in Requests, InFlight \subseteq {q}
  PROVE  /\ \A i \in Invoices : Fine(i) \/ (req[q].pc \in PayingSteps /\ req[q].inv = i)
         /\ \A c \in Customers : CustomerRight(c) \/ (req[q].pc \in CustomerSteps /\ Refers[Owner[req[q].inv]] = c)
BY DEF LedgerInv, OthersRight, InFlight, HookSteps, PayingSteps, CustomerSteps

LEMMA RightAfter ==
  ASSUME NEW q \in Requests, NEW new, req'[q] = new,
         \A i \in Invoices : Fine(i)' \/ (new.pc \in PayingSteps /\ new.inv = i),
         \A c \in Customers : CustomerRight(c)' \/ (new.pc \in CustomerSteps /\ Refers[Owner[new.inv]] = c)
  PROVE  OthersRight'
BY DEF OthersRight

\* Without orderly', the two parts about orderly states say nothing.
LEMMA Disorderly ==
  ASSUME orderly' = FALSE
  PROVE  OneAtATime' /\ OthersRight'
BY DEF OneAtATime, OthersRight

\* A step of q that changes no document.
LEMMA ReadingStep ==
  ASSUME LedgerInv, NEW q \in Requests, NEW new \in RequestStates, Step(q, new),
         UNCHANGED <<pay, inv, totalDue, asSent>>,
         orderly /\ InFlight \subseteq {q} => new.alone,
         \A i \in Invoices : orderly /\ req[q].pc \in PayingSteps /\ req[q].inv = i
             => Fine(i) \/ (new.pc \in PayingSteps /\ new.inv = i),
         \A c \in Customers : orderly /\ req[q].pc \in CustomerSteps /\ Refers[Owner[req[q].inv]] = c
             => new.pc \in CustomerSteps /\ Refers[Owner[new.inv]] = c
  PROVE  OneAtATime' /\ OthersRight'
<1>0. req \in [Requests -> RequestStates] /\ Move(q, new) /\ orderly \in BOOLEAN
  BY Types DEF LedgerInv, Step
<1>1. orderly' = (orderly /\ InFlight \subseteq {q})
  BY DEF Step, Note
<1>2. CASE ~(orderly /\ InFlight \subseteq {q})
  BY <1>1, <1>2, Disorderly
<1>3. CASE orderly /\ InFlight \subseteq {q}
  <2>1. OneAtATime' /\ req'[q] = new
    BY <1>0, <1>3, StaysOne, OneRequest
  <2>2. ASSUME NEW i \in Invoices
        PROVE  Fine(i)' \/ (new.pc \in PayingSteps /\ new.inv = i)
    <3>1. Fine(i) => Fine(i)'
      BY StaysFine, SamePaid
    <3> QED
      BY <1>3, <3>1, RightBefore
  <2>3. ASSUME NEW c \in Customers
        PROVE  CustomerRight(c)' \/ (new.pc \in CustomerSteps /\ Refers[Owner[new.inv]] = c)
    <3>1. CustomerRight(c) => CustomerRight(c)'
      BY CustomerStaysRight
    <3> QED
      BY <1>3, <3>1, RightBefore
  <2> QED
    BY <2>1, <2>2, <2>3, RightAfter
<1> QED
  BY <1>2, <1>3

\* A step of q that starts from idle: everything is right before it, if
\* things stay orderly.
LEMMA StartingStep ==
  ASSUME LedgerInv, NEW q \in Requests, NEW new \in RequestStates, Move(q, new), Fresh(new),
         NEW b, Note(b), b => InFlight \subseteq {q}, req[q].pc = "idle",
         orderly /\ b /\ (\A i \in Invoices : Fine(i)) /\ (\A c \in Customers : CustomerRight(c))
           => /\ \A i \in Invoices : Fine(i)' \/ (new.pc \in PayingSteps /\ new.inv = i)
              /\ \A c \in Customers : CustomerRight(c)' \/ (new.pc \in CustomerSteps /\ Refers[Owner[new.inv]] = c)
  PROVE  (\A x \in Requests : Known(x)') /\ OneAtATime' /\ OthersRight'
<1>0. req \in [Requests -> RequestStates] /\ orderly \in BOOLEAN
  BY Types DEF LedgerInv
<1>1. \A x \in Requests : Known(x)'
  BY <1>0, FreshKnows
<1>2. orderly' = (orderly /\ b)
  BY DEF Note
<1>3. CASE ~(orderly /\ b)
  <2>1. orderly' = FALSE
    BY <1>2, <1>3
  <2> QED
    BY <1>1, <2>1, Disorderly
<1>4. CASE orderly /\ b
  <2>1. new.alone
    BY DEF Fresh
  <2>2. OneAtATime' /\ req'[q] = new
    BY <1>0, <1>4, <2>1, StaysOne, OneRequest
  <2>3. (\A i \in Invoices : Fine(i)) /\ (\A c \in Customers : CustomerRight(c))
    BY <1>4, RightBefore DEF PayingSteps, CustomerSteps
  <2> QED
    BY <1>1, <1>4, <2>2, <2>3, RightAfter
<1> QED
  BY <1>3, <1>4

LEMMA PaymentSteps ==
  ASSUME LedgerInv, NEW q \in Requests, NEW p \in Payments,
         WritePayment(q, p) \/ DeletePayment(q, p)
  PROVE  (\A x \in Requests : Known(x)') /\ OneAtATime' /\ OthersRight'
<1>0. pay \in [Payments -> [status : PayStatuses \cup {"absent"}, invoice : Invoices \cup {NoInvoice}]]
  BY Types DEF LedgerInv
<1>1. req[q].pc = "idle" /\ UNCHANGED <<inv, totalDue, asSent>>
  BY DEF WritePayment, DeletePayment
<1>2. \E i \in Invoices \cup {NoInvoice}, s \in [status : PayStatuses \cup {"absent"}, invoice : Invoices \cup {NoInvoice}] :
        /\ pay' = [pay EXCEPT ![p] = s]
        /\ PaymentHook(q, i)
        /\ \/ s.invoice = i /\ Note(InFlight \subseteq {q} /\ pay[p].invoice \in {i, NoInvoice})
           \/ s.invoice = NoInvoice /\ i = pay[p].invoice /\ Note(InFlight \subseteq {q})
  <2>1. CASE WritePayment(q, p)
    <3>1. PICK s \in PayStatuses, i \in Invoices \cup {NoInvoice} :
            /\ pay' = [pay EXCEPT ![p] = [status |-> s, invoice |-> i]]
            /\ PaymentHook(q, i)
            /\ Note(InFlight \subseteq {q} /\ pay[p].invoice \in {i, NoInvoice})
      BY <2>1 DEF WritePayment
    <3> DEFINE r == [status |-> s, invoice |-> i]
    <3>2. r \in [status : PayStatuses \cup {"absent"}, invoice : Invoices \cup {NoInvoice}] /\ r.invoice = i
      OBVIOUS
    <3> QED
      BY <3>1, <3>2
  <2>2. CASE DeletePayment(q, p)
    <3> DEFINE r == [status |-> "absent", invoice |-> NoInvoice]
    <3>1. /\ pay' = [pay EXCEPT ![p] = r]
          /\ PaymentHook(q, pay[p].invoice)
          /\ Note(InFlight \subseteq {q})
      BY <2>2 DEF DeletePayment
    <3>2. r \in [status : PayStatuses \cup {"absent"}, invoice : Invoices \cup {NoInvoice}] /\ r.invoice = NoInvoice
      OBVIOUS
    <3>3. pay[p].invoice \in Invoices \cup {NoInvoice}
      BY <1>0
    <3> QED
      BY <3>1, <3>2, <3>3
  <2> QED
    BY <2>1, <2>2
<1>3. PICK i \in Invoices \cup {NoInvoice}, s \in [status : PayStatuses \cup {"absent"}, invoice : Invoices \cup {NoInvoice}], b \in BOOLEAN :
        /\ pay' = [pay EXCEPT ![p] = s]
        /\ PaymentHook(q, i)
        /\ Note(b)
        /\ b => InFlight \subseteq {q} /\ s.invoice \in {i, NoInvoice} /\ pay[p].invoice \in {i, NoInvoice}
  <2>1. PICK i \in Invoices \cup {NoInvoice}, s \in [status : PayStatuses \cup {"absent"}, invoice : Invoices \cup {NoInvoice}] :
        /\ pay' = [pay EXCEPT ![p] = s]
        /\ PaymentHook(q, i)
        /\ \/ s.invoice = i /\ Note(InFlight \subseteq {q} /\ pay[p].invoice \in {i, NoInvoice})
           \/ s.invoice = NoInvoice /\ i = pay[p].invoice /\ Note(InFlight \subseteq {q})
    BY <1>2
  <2>2. CASE s.invoice = i /\ Note(InFlight \subseteq {q} /\ pay[p].invoice \in {i, NoInvoice})
    <3> WITNESS i \in Invoices \cup {NoInvoice},
                s \in [status : PayStatuses \cup {"absent"}, invoice : Invoices \cup {NoInvoice}],
                (InFlight \subseteq {q} /\ pay[p].invoice \in {i, NoInvoice}) \in BOOLEAN
    <3> QED
      BY <2>1, <2>2
  <2>3. CASE s.invoice = NoInvoice /\ i = pay[p].invoice /\ Note(InFlight \subseteq {q})
    <3> WITNESS i \in Invoices \cup {NoInvoice},
                s \in [status : PayStatuses \cup {"absent"}, invoice : Invoices \cup {NoInvoice}],
                (InFlight \subseteq {q}) \in BOOLEAN
    <3> QED
      BY <2>1, <2>3
  <2> QED
    BY <2>1, <2>2, <2>3
<1> DEFINE new == IF i = NoInvoice THEN Idle ELSE [Idle EXCEPT !.pc = "sumPayments", !.inv = i]
<1>4. new \in RequestStates /\ Fresh(new) /\ Move(q, new) /\ (i \in Invoices => new.pc = "sumPayments" /\ new.inv = i)
  BY <1>3, ReceivablesAssumption DEF Idle, NoCopy, RequestStates, Copies, InvStatuses, HookSteps, Fresh, PaymentHook
<1> HIDE DEF new
<1>5. ASSUME b, NEW j \in Invoices, Fine(j)
      PROVE  Fine(j)' \/ (new.pc \in PayingSteps /\ new.inv = j)
  <2>1. CASE i = j
    BY <2>1, <1>4 DEF PayingSteps
  <2>2. CASE i # j
    <3>1. s.invoice # j /\ pay[p].invoice # j
      BY <1>3, <1>5, <2>2, ReceivablesAssumption
    <3>2. pay'[p] = s /\ \A r \in Payments \ {p} : pay'[r] = pay[r]
      BY <1>0, <1>3
    <3>3. TotalPaid(j)' = TotalPaid(j)
      BY <3>1, <3>2, SamePaid
    <3> QED
      BY <1>1, <1>5, <3>3, StaysFine
  <2> QED
    BY <2>1, <2>2
<1>6. ASSUME NEW c \in Customers, CustomerRight(c)
      PROVE  CustomerRight(c)'
  BY <1>1, <1>6, CustomerStaysRight
<1> QED
  BY <1>1, <1>3, <1>4, <1>5, <1>6, StartingStep

LEMMA InvoiceSteps ==
  ASSUME LedgerInv, NEW q \in Requests, NEW i \in Invoices,
         CreateInvoice(q, i) \/ EditInvoice(q, i) \/ DeleteInvoice(q, i)
  PROVE  (\A x \in Requests : Known(x)') /\ OneAtATime' /\ OthersRight'
<1> DEFINE new == [Idle EXCEPT !.pc = "sumInvoices", !.inv = i, !.from = "invoice"]
<1>0. inv \in [Invoices -> Invs] /\ orderly \in BOOLEAN
  BY Types DEF LedgerInv
<1>1. req[q].pc = "idle" /\ InvoiceHook(q, i) /\ UNCHANGED <<pay, totalDue>>
  BY DEF CreateInvoice, EditInvoice, DeleteInvoice
<1>2. new \in RequestStates /\ Fresh(new) /\ new.pc = "sumInvoices" /\ new.inv = i
  BY DEF Idle, NoCopy, RequestStates, Copies, InvStatuses, HookSteps, Fresh
<1>3. Move(q, new) /\ Note(InFlight \subseteq {q})
  BY <1>1 DEF InvoiceHook, Step
<1> HIDE DEF new
<1>4. \A j \in Invoices \ {i} : inv'[j] = inv[j]
  BY <1>0 DEF CreateInvoice, EditInvoice, DeleteInvoice
<1>5. \A j \in Invoices : TotalPaid(j)' = TotalPaid(j)
  BY <1>1, SamePaid
<1>6. Fine(i) => Fine(i)'
  <2>1. CASE i \in asSent'
    BY <2>1 DEF Fine
  <2>2. CASE EditInvoice(q, i) /\ i \notin asSent'
    <3>1. UNCHANGED asSent /\ \E st \in InvStatuses : inv' = [inv EXCEPT ![i].status = st]
      BY <2>2 DEF EditInvoice
    <3>2. /\ inv'[i].paid = inv[i].paid /\ inv'[i].due = inv[i].due /\ inv'[i].amount = inv[i].amount
          /\ inv[i].status # "absent"
      BY <1>0, <2>2, <3>1 DEF EditInvoice, Invs
    <3> QED
      BY <1>5, <3>1, <3>2 DEF Fine, InvoiceRight
  <2>3. CASE DeleteInvoice(q, i)
    <3>1. inv'[i].status = "absent"
      BY <1>0, <2>3 DEF DeleteInvoice, NoBody
    <3> QED
      BY <3>1 DEF Fine, InvoiceRight
  <2> QED
    BY <2>1, <2>2, <2>3 DEF CreateInvoice
<1>7. ASSUME NEW j \in Invoices, Fine(j)
      PROVE  Fine(j)'
  <2>1. CASE j = i
    BY <1>6, <1>7, <2>1
  <2>2. CASE j # i
    <3>1. j \in asSent => j \in asSent'
      BY <2>2 DEF CreateInvoice, EditInvoice, DeleteInvoice
    <3> QED
      BY <1>4, <1>5, <1>7, <2>2, <3>1, StaysFine
  <2> QED
    BY <2>1, <2>2
<1>8. ASSUME NEW c \in Customers, CustomerRight(c)
      PROVE  CustomerRight(c)' \/ (new.pc \in CustomerSteps /\ Refers[Owner[new.inv]] = c)
  BY <1>1, <1>2, <1>4, <1>8, CustomerStaysRight DEF CustomerSteps
<1> QED
  BY <1>1, <1>2, <1>3, <1>7, <1>8, StartingStep

LEMMA HookRunSteps ==
  ASSUME LedgerInv, NEW q \in Requests, Hook(q)
  PROVE  (\A x \in Requests : Known(x)') /\ OneAtATime' /\ OthersRight'
<1>0. /\ pay \in [Payments -> [status : PayStatuses \cup {"absent"}, invoice : Invoices \cup {NoInvoice}]]
      /\ inv \in [Invoices -> Invs]
      /\ totalDue \in [Customers -> Nat]
      /\ req \in [Requests -> RequestStates]
      /\ orderly \in BOOLEAN
  BY Types DEF LedgerInv
<1>1. PICK i \in Invoices : i = req[q].inv /\ req[q].pc \in HookSteps /\ req[q] \in RequestStates
  BY <1>0 DEF LedgerInv, OnInvoices, Hook, SumPayments, ReadInvoice, SaveInvoice, SumInvoices, SaveCustomer, HookSteps
<1>2. Known(q) /\ (orderly => req[q].alone)
  BY <1>1 DEF LedgerInv, OneAtATime, InFlight
<1>3. CASE SumPayments(q)
  <2> DEFINE new == [req[q] EXCEPT !.pc = "readInvoice", !.sum = TotalPaid(req[q].inv)]
  <2>1. Step(q, new) /\ UNCHANGED <<pay, inv, totalDue, asSent>> /\ req[q].pc = "sumPayments"
    BY <1>3 DEF SumPayments
  <2>2. /\ new \in RequestStates /\ new.pc = "readInvoice" /\ new.inv = i
        /\ new.alone = req[q].alone /\ new.sum = TotalPaid(i)
    BY <1>1, TotalPaidType DEF RequestStates, HookSteps
  <2> HIDE DEF new
  <2>3. req'[q] = new /\ Move(q, new)
    BY <1>0, <2>1, <2>2, OneRequest DEF Step
  <2>4. Known(q)'
    BY <2>1, <2>2, <2>3, SamePaid DEF Known, CustomerSteps
  <2>5. \A x \in Requests : Known(x)'
    BY <1>0, <2>2, <2>3, <2>4, OthersKnow
  <2>6. OneAtATime' /\ OthersRight'
    BY <1>1, <1>2, <2>1, <2>2, ReadingStep DEF PayingSteps, CustomerSteps
  <2> QED
    BY <2>5, <2>6
<1>4. CASE ReadInvoice(q)
  <2> DEFINE new == [req[q] EXCEPT !.pc = "saveInvoice", !.copy = Copy(req[q].inv)]
  <2>1. UNCHANGED <<pay, inv, totalDue, asSent>> /\ req[q].pc = "readInvoice"
    BY <1>4 DEF ReadInvoice
  <2>2. CASE inv[i].status = "absent"
    <3>1. Step(q, Idle)
      BY <1>1, <1>4, <2>2 DEF ReadInvoice
    <3>2. Idle \in RequestStates /\ Fresh(Idle) /\ Idle.alone
      BY IdleType DEF Fresh, Idle
    <3>3. \A x \in Requests : Known(x)'
      BY <1>0, <3>1, <3>2, FreshKnows DEF Step
    <3>4. Fine(i)
      BY <2>2 DEF Fine, InvoiceRight
    <3>5. OneAtATime' /\ OthersRight'
      BY <1>1, <2>1, <3>1, <3>2, <3>4, ReadingStep DEF PayingSteps, CustomerSteps
    <3> QED
      BY <3>3, <3>5
  <2>3. CASE inv[i].status # "absent"
    <3>1. Step(q, new)
      BY <1>1, <1>4, <2>3 DEF ReadInvoice
    <3>2. /\ new \in RequestStates /\ new.pc = "saveInvoice" /\ new.inv = i
          /\ new.alone = req[q].alone /\ new.sum = req[q].sum
          /\ new.copy.amount = inv[i].amount
      BY <1>0, <1>1 DEF RequestStates, HookSteps, Copy, Copies, Invs
    <3> HIDE DEF new
    <3>3. req'[q] = new /\ Move(q, new)
      BY <1>0, <3>1, <3>2, OneRequest DEF Step
    <3>4. TotalPaid(i)' = TotalPaid(i)
      BY <2>1, SamePaid
    <3>5. Known(q)'
      BY <1>1, <1>2, <2>1, <2>3, <3>2, <3>3, <3>4 DEF Known, CustomerSteps
    <3>6. \A x \in Requests : Known(x)'
      BY <1>0, <3>2, <3>3, <3>5, OthersKnow
    <3>7. OneAtATime' /\ OthersRight'
      BY <1>1, <1>2, <2>1, <3>1, <3>2, ReadingStep DEF PayingSteps, CustomerSteps
    <3> QED
      BY <3>6, <3>7
  <2> QED
    BY <2>2, <2>3
<1>5. CASE SaveInvoice(q)
  <2> DEFINE new == [req[q] EXCEPT !.pc = "sumInvoices", !.sum = 0, !.copy = NoCopy]
             late == AfterPayments(inv[i], req[q].copy, req[q].sum)
  <2>1. UNCHANGED <<pay, totalDue>> /\ req[q].pc = "saveInvoice"
    BY <1>5 DEF SaveInvoice
  <2>2. CASE inv[i].status = "absent"
    <3>1. Step(q, Idle) /\ UNCHANGED <<inv, asSent>>
      BY <1>1, <1>5, <2>2 DEF SaveInvoice
    <3>2. Idle \in RequestStates /\ Fresh(Idle) /\ Idle.alone
      BY IdleType DEF Fresh, Idle
    <3>3. \A x \in Requests : Known(x)'
      BY <1>0, <3>1, <3>2, FreshKnows DEF Step
    <3>4. Fine(i)
      BY <2>2 DEF Fine, InvoiceRight
    <3>5. OneAtATime' /\ OthersRight'
      BY <1>1, <2>1, <3>1, <3>2, <3>4, ReadingStep DEF PayingSteps, CustomerSteps
    <3> QED
      BY <3>3, <3>5
  <2>3. CASE inv[i].status # "absent"
    <3>1. Step(q, new) /\ inv' = [inv EXCEPT ![i] = late] /\ asSent' = asSent \ {i}
      BY <1>1, <1>5, <2>3 DEF SaveInvoice, NextHook
    <3>2. /\ new \in RequestStates /\ new.pc = "sumInvoices" /\ new.inv = i
          /\ new.alone = req[q].alone
      BY <1>1 DEF RequestStates, HookSteps, NoCopy, Copies, InvStatuses
    <3>3. /\ late.paid = req[q].sum /\ late.due = Max0(req[q].copy.amount - req[q].sum)
          /\ late.amount = inv[i].amount
      BY <1>0, <1>1, <2>3, AfterPaymentsType DEF RequestStates
    <3> HIDE DEF new, late
    <3>4. inv'[i] = late /\ \A j \in Invoices \ {i} : inv'[j] = inv[j]
      BY <1>0, <1>1, <3>1
    <3>5. req'[q] = new /\ Move(q, new)
      BY <1>0, <3>1, <3>2, OneRequest DEF Step
    <3>6. \A j \in Invoices : TotalPaid(j)' = TotalPaid(j)
      BY <2>1, SamePaid
    <3>7. req[q].alone => InvoiceRight(i)'
      BY <1>1, <1>2, <2>1, <3>3, <3>4, <3>6 DEF Known, InvoiceRight
    <3>8. Known(q)'
      BY <3>2, <3>5, <3>7 DEF Known, CustomerSteps
    <3>9. \A x \in Requests : Known(x)'
      BY <1>0, <3>2, <3>5, <3>8, OthersKnow
    <3>10. orderly' = (orderly /\ InFlight \subseteq {q})
      BY <3>1 DEF Step, Note
    <3>11. CASE ~(orderly /\ InFlight \subseteq {q})
      BY <3>9, <3>10, <3>11, Disorderly
    <3>12. CASE orderly /\ InFlight \subseteq {q}
      <4>1. OneAtATime'
        BY <1>0, <1>2, <3>2, <3>5, <3>12, StaysOne
      <4>2. ASSUME NEW j \in Invoices
            PROVE  Fine(j)'
        <5>1. CASE j = i
          BY <1>2, <3>7, <3>12, <5>1 DEF Fine
        <5>2. CASE j # i
          <6>1. Fine(j)
            BY <1>1, <3>12, <5>2, RightBefore
          <6>2. j \in asSent => j \in asSent'
            BY <3>1, <5>2
          <6> QED
            BY <3>4, <3>6, <5>2, <6>1, <6>2, StaysFine
        <5> QED
          BY <5>1, <5>2
      <4>3. ASSUME NEW c \in Customers
            PROVE  CustomerRight(c)' \/ (new.pc \in CustomerSteps /\ Refers[Owner[new.inv]] = c)
        <5>1. CustomerRight(c)
          BY <2>1, <3>12, RightBefore DEF CustomerSteps
        <5> QED
          BY <2>1, <3>2, <3>4, <5>1, CustomerStaysRight DEF CustomerSteps
      <4> QED
        BY <3>5, <3>9, <4>1, <4>2, <4>3, RightAfter
    <3> QED
      BY <3>11, <3>12
  <2> QED
    BY <2>2, <2>3
<1>6. CASE SumInvoices(q)
  <2> DEFINE new == [req[q] EXCEPT !.pc = "saveCustomer", !.sum = CustomerDue(Owner[req[q].inv])]
  <2>1. Step(q, new) /\ UNCHANGED <<pay, inv, totalDue, asSent>> /\ req[q].pc = "sumInvoices"
    BY <1>6 DEF SumInvoices
  <2>2. /\ new \in RequestStates /\ new.pc = "saveCustomer" /\ new.inv = i
        /\ new.alone = req[q].alone /\ new.from = req[q].from /\ new.sum = CustomerDue(Owner[i])
    BY <1>0, <1>1, CustomerDueType DEF RequestStates, HookSteps
  <2> HIDE DEF new
  <2>3. req'[q] = new /\ Move(q, new)
    BY <1>0, <2>1, <2>2, OneRequest DEF Step
  <2>4. new.sum = OpenDue(Owner[i])'
    BY <1>0, <2>1, <2>2, CustomerDueIsOpenDue, SameDue
  <2>5. InvoiceRight(i) => InvoiceRight(i)'
    BY <2>1, InvoiceStaysRight, SamePaid
  <2>6. Known(q)'
    BY <1>1, <1>2, <2>1, <2>2, <2>3, <2>4, <2>5 DEF Known, CustomerSteps
  <2>7. \A x \in Requests : Known(x)'
    BY <1>0, <2>2, <2>3, <2>6, OthersKnow
  <2>8. OneAtATime' /\ OthersRight'
    BY <1>1, <1>2, <2>1, <2>2, ReadingStep DEF PayingSteps, CustomerSteps
  <2> QED
    BY <2>7, <2>8
<1>7. CASE SaveCustomer(q)
  <2>1. /\ totalDue' = [totalDue EXCEPT ![Refers[Owner[i]]] = req[q].sum] /\ req[q].pc = "saveCustomer"
        /\ Step(q, Idle) /\ UNCHANGED <<pay, inv, asSent>>
    BY <1>1, <1>7 DEF SaveCustomer
  <2>2. Idle \in RequestStates /\ Fresh(Idle) /\ Idle.alone
    BY IdleType DEF Fresh, Idle
  <2>3. \A x \in Requests : Known(x)'
    BY <1>0, <2>1, <2>2, FreshKnows DEF Step
  <2>4. orderly' = (orderly /\ InFlight \subseteq {q})
    BY <2>1 DEF Step, Note
  <2>5. CASE ~(orderly /\ InFlight \subseteq {q})
    BY <2>3, <2>4, <2>5, Disorderly
  <2>6. CASE orderly /\ InFlight \subseteq {q}
    <3>1. OneAtATime' /\ req'[q] = Idle
      BY <1>0, <2>1, <2>2, <2>6, StaysOne, OneRequest DEF Step
    <3>2. ASSUME NEW j \in Invoices
          PROVE  Fine(j)'
      <4>1. Fine(j)
        BY <2>1, <2>6, RightBefore DEF PayingSteps
      <4> QED
        BY <2>1, <4>1, StaysFine, SamePaid
    <3>3. ASSUME NEW c \in Customers
          PROVE  CustomerRight(c)'
      <4>1. CASE c = Refers[Owner[i]]
        <5>1. totalDue'[c] = OpenDue(Owner[i])
          BY <1>1, <1>0, <1>2, <2>1, <2>6, <4>1 DEF Known
        <5>2. OpenDue(Owner[i])' = OpenDue(Owner[i])
          BY <2>1, SameDue
        <5>3. Owner[i] \in Refs
          BY ReceivablesAssumption
        <5> QED
          BY <4>1, <5>1, <5>2, <5>3 DEF CustomerRight, DueRight
      <4>2. CASE c # Refers[Owner[i]]
        <5>1. CustomerRight(c) /\ totalDue'[c] = totalDue[c]
          BY <1>1, <1>0, <2>1, <2>6, <4>2, RightBefore
        <5> QED
          BY <2>1, <5>1, CustomerStaysRight
      <4> QED
        BY <4>1, <4>2
    <3> QED
      BY <2>3, <3>1, <3>2, <3>3, RightAfter
  <2> QED
    BY <2>5, <2>6
<1> QED
  BY <1>3, <1>4, <1>5, <1>6, <1>7 DEF Hook

LEMMA LedgerStep == LedgerInv /\ [Next]_vars => LedgerInv'
<1> SUFFICES ASSUME LedgerInv, [Next]_vars
             PROVE  LedgerInv'
  OBVIOUS
<1>0. req \in [Requests -> RequestStates] /\ orderly \in BOOLEAN
  BY Types DEF LedgerInv
<1>1. TypeOK' /\ OnInvoices'
  BY TypeStep DEF LedgerInv
<1>2. ASSUME NEW q \in Requests, HookFails(q)
      PROVE  (\A x \in Requests : Known(x)') /\ OneAtATime' /\ OthersRight'
  <2>1. Move(q, Idle) /\ orderly' = FALSE
    BY <1>2 DEF HookFails, Note
  <2>2. Idle \in RequestStates /\ Fresh(Idle)
    BY IdleType DEF Fresh, Idle
  <2> QED
    BY <1>0, <2>1, <2>2, FreshKnows, Disorderly
<1>3. ASSUME Crash
      PROVE  (\A x \in Requests : Known(x)') /\ OneAtATime' /\ OthersRight'
  <2>1. req' = [q \in Requests |-> Idle] /\ orderly' = FALSE
    BY <1>3 DEF Crash, Note
  <2>2. \A x \in Requests : Known(x)'
    BY <2>1 DEF Known, Idle, CustomerSteps
  <2> QED
    BY <2>1, <2>2, Disorderly
<1>4. CASE UNCHANGED vars
  <2>1. UNCHANGED <<pay, inv, totalDue, req, orderly, asSent>>
    BY <1>4 DEF vars
  <2>2. \A i : TotalPaid(i)' = TotalPaid(i)
    BY <2>1, SamePaid
  <2>3. \A c : OpenDue(c)' = OpenDue(c)
    BY <2>1, SameDue
  <2>4. (\A i : InvoiceRight(i)' <=> InvoiceRight(i)) /\ (\A c : CustomerRight(c)' <=> CustomerRight(c))
    BY <2>1, <2>2, <2>3 DEF InvoiceRight, CustomerRight, DueRight
  <2>5. \A q \in Requests : Known(q)'
    BY <2>1, <2>2, <2>3, <2>4 DEF LedgerInv, Known
  <2>6. OneAtATime' /\ OthersRight'
    BY <2>1, <2>4 DEF LedgerInv, OneAtATime, OthersRight, Fine, InFlight
  <2> QED
    BY <1>1, <2>5, <2>6 DEF LedgerInv
<1> QED
  BY <1>1, <1>2, <1>3, <1>4, PaymentSteps, InvoiceSteps, HookRunSteps DEF Next, Write, LedgerInv

LEMMA LedgerInvariant == Spec => []LedgerInv
<1>1. Init => LedgerInv
  <2> SUFFICES ASSUME Init
               PROVE  LedgerInv
    OBVIOUS
  <2>1. TypeOK /\ OnInvoices
    BY ReceivablesAssumption DEF Init, TypeOK, OnInvoices, Idle, NoCopy, NoBody, InvoiceRecords, HookSteps, PayStatuses, InvStatuses
  <2>2. \A q \in Requests : Known(q) /\ q \notin InFlight
    BY DEF Init, Known, Idle, CustomerSteps, InFlight, HookSteps
  <2>3. \A i \in Invoices : Fine(i)
    BY DEF Init, Fine, InvoiceRight, NoBody
  <2>4. \A c \in Customers : CustomerRight(c)
    <3> SUFFICES ASSUME NEW c \in Customers
                 PROVE  CustomerRight(c)
      OBVIOUS
    <3>0. PICK ref \in Refs : Refers[ref] = c
      BY ReceivablesAssumption
    <3>1. {i \in Invoices : Owner[i] = ref /\ inv[i].status \in {"pending", "paid"}} = {}
      BY DEF Init, NoBody
    <3>2. UNION {{x} \X (1..Due[x]) : x \in {}} = {}
      OBVIOUS
    <3>3. OpenDue(ref) = 0
      BY <3>1, <3>2, FS_EmptySet DEF OpenDue, SumOver, Units
    <3> QED
      BY <3>0, <3>3 DEF Init, CustomerRight, DueRight
  <2> QED
    BY <2>1, <2>2, <2>3, <2>4 DEF LedgerInv, OneAtATime, OthersRight, InFlight
<1> QED
  BY <1>1, LedgerStep, PTL DEF Spec

(* As long as requests have not overlapped, no hook has failed and no      *)
(* payment was moved: whenever no request is in progress, every customer   *)
(* agrees with his open invoices, and every invoice with its payments, but *)
(* for those whose figures a client sent and no hook has computed since.   *)
THEOREM OrderlyLedgerThm == Spec => []OrderlyLedger
<1>1. LedgerInv => OrderlyLedger
  BY DEF LedgerInv, OthersRight, Fine, OrderlyLedger, LedgerConsistent, InFlight, HookSteps, PayingSteps, CustomerSteps
<1> QED
  BY <1>1, LedgerInvariant, PTL

(* Whatever races, failed hooks and crashes came before: a hook run that   *)
(* no other request disturbed ends with its invoice and its customer right.*)
THEOREM AloneRepairsThm == Spec => AloneRepairs
<1>1. ASSUME LedgerInv, NEW q \in Requests, NEW i \in Invoices,
             req[q].pc = "saveCustomer", req[q].inv = i, req[q].alone, SaveCustomer(q)
      PROVE  DueRight(Owner[i])' /\ (req[q].from = "payment" => InvoiceRight(i)')
  <2>1. totalDue \in [Customers -> Nat] /\ Refers[Owner[i]] \in Customers
    BY <1>1, Types, ReceivablesAssumption DEF LedgerInv
  <2>2. totalDue' = [totalDue EXCEPT ![Refers[Owner[i]]] = req[q].sum] /\ UNCHANGED <<pay, inv>>
    BY <1>1 DEF SaveCustomer
  <2>3. req[q].sum = OpenDue(Owner[i]) /\ (req[q].from = "payment" => InvoiceRight(i))
    BY <1>1 DEF LedgerInv, Known, CustomerSteps
  <2>4. DueRight(Owner[i])'
    <3>1. totalDue'[Refers[Owner[i]]] = OpenDue(Owner[i])
      BY <2>1, <2>2, <2>3
    <3> QED
      BY <2>2, <3>1, SameDue DEF DueRight
  <2>5. req[q].from = "payment" => InvoiceRight(i)'
    BY <2>2, <2>3, InvoiceStaysRight, SamePaid
  <2> QED
    BY <2>4, <2>5
<1>2. LedgerInv /\ [Next]_vars
        => [\A q \in Requests, i \in Invoices :
              req[q].pc = "saveCustomer" /\ req[q].inv = i /\ req[q].alone /\ SaveCustomer(q)
                => /\ DueRight(Owner[i])'
                   /\ req[q].from = "payment" => InvoiceRight(i)']_vars
  BY <1>1
<1> QED
  BY <1>2, LedgerInvariant, PTL DEF Spec, AloneRepairs

=============================================================================
