------------------------------ MODULE ProductLines ------------------------------
(***************************************************************************)
(* The copies of a product in the lines of orders, invoices and receipts:  *)
(* PUT /products/:id starts syncProductLineSnapshots, which nobody awaits, *)
(* to rewrite them (src/utils/syncProductLineSnapshots.ts).  An action is  *)
(* one awaited call, or the rewriting of one document.  What a line shows  *)
(* is what the client sends, taken from a form that was filled in earlier. *)
(*                                                                         *)
(* A line names its product by the SKU, which the frontend also stores as  *)
(* productId, and by the name, also stored as description; both are found  *)
(* and rewritten together.  A productId that holds the _id or the legacyId,*)
(* which are looked for too, would be found until it is first rewritten.   *)
(***************************************************************************)
EXTENDS FiniteSets

CONSTANTS
  Products,
  Names,       \* names products are given
  Skus,        \* SKUs products are given; an index makes them unique
  Documents,   \* orders, invoices and receipts of one line each
  Edits,       \* updates of a product in progress at once
  NoLine

Shown == [name : Names, sku : Skus]

ASSUME LinesAssumption == NoLine \notin [of : Products, copy : Shown]

VARIABLES
  product,   \* [Products -> Shown], the product master
  form,      \* [Documents -> the line a client is about to send, or NoLine]
  line,      \* [Documents -> the copy and, history, whose copy it is, or NoLine]
  edit,      \* [Edits -> local state]
  outdated,  \* history: sent from a form older than an update of the product, and not rewritten since
  disturbed  \* history: updates overlapped, failed, or gave two products one name

lineVars == <<product, form, line, edit, outdated, disturbed>>

Resting == [pc |-> "idle", of |-> CHOOSE p \in Products : TRUE,
            previous |-> CHOOSE s \in Shown : TRUE, next |-> CHOOSE s \in Shown : TRUE, left |-> {}]
Busy == {e \in Edits : edit[e].pc # "idle"}

-----------------------------------------------------------------------------
\* The update of crudFactory.ts reads the product ...
ReadPrevious(e, p) ==
  /\ e \notin Busy
  /\ edit' = [edit EXCEPT ![e] = [Resting EXCEPT !.pc = "update", !.of = p, !.previous = product[p]]]
  /\ disturbed' = (disturbed \/ Busy # {})
  /\ UNCHANGED <<product, form, line, outdated>>

\* ... then writes it, and starts on the lines.
UpdateProduct(e, s) ==
  LET p == edit[e].of
  IN /\ edit[e].pc = "update"
     /\ \A q \in Products \ {p} : product[q].sku # s.sku
     /\ product' = [product EXCEPT ![p] = s]
     /\ edit' = [edit EXCEPT ![e].pc = "lines", ![e].next = s,
                             ![e].left = Documents]
     /\ disturbed' = (disturbed \/ \E q \in Products \ {p} : product[q].name = s.name)
     /\ UNCHANGED <<form, line, outdated>>

\* Mutant: lines are found by what the product is now.
Identified_Next(e, copy) == copy.sku = edit[e].next.sku
\* By its SKU before or after, or by its old name.
Identified(e, copy) ==
  \/ copy.sku \in {edit[e].next.sku, edit[e].previous.sku}
  \/ copy.name = edit[e].previous.name

Rest(e, left) == edit' = [edit EXCEPT ![e] = IF left = {} THEN Resting ELSE [@ EXCEPT !.left = left]]

\* The updateMany of three collections reach their documents in any order, or
\* pass by the place of one that is not there yet.
RewriteLine(e) ==
  /\ edit[e].pc = "lines"
  /\ \E d \in edit[e].left :
       LET found == line[d] # NoLine /\ Identified(e, line[d].copy)
       IN /\ line' = IF found THEN [line EXCEPT ![d].copy = edit[e].next] ELSE line
          /\ outdated' = IF found /\ line[d].of = edit[e].of THEN outdated \ {d} ELSE outdated
          /\ Rest(e, edit[e].left \ {d})
  /\ UNCHANGED <<product, form, disturbed>>

\* There are no documents; or an updateMany fails, which is logged.
LinesEnd(e) ==
  /\ edit[e].pc = "lines"
  /\ \E left \in SUBSET edit[e].left :
       /\ (left = edit[e].left => left = {})
       /\ Rest(e, left)
       /\ disturbed' = (disturbed \/ left # edit[e].left)
  /\ UNCHANGED <<product, form, line, outdated>>

UpdateFails(e) ==
  /\ edit[e].pc = "update"
  /\ edit' = [edit EXCEPT ![e] = Resting]
  /\ UNCHANGED <<product, form, line, outdated, disturbed>>

\* A client fills in a product, or opens the document to edit it; nothing is
\* sent yet.
FillForm(d) ==
  /\ \E c \in {[of |-> p, copy |-> product[p]] : p \in Products} \cup ({line[d]} \ {NoLine}) :
       form' = [form EXCEPT ![d] = c]
  /\ UNCHANGED <<product, line, edit, outdated, disturbed>>

\* POST or PUT of an order, an invoice or a receipt: lines are stored as sent.
Sell(d) ==
  /\ form[d] # NoLine
  /\ line' = [line EXCEPT ![d] = form[d]]
  /\ form' = [form EXCEPT ![d] = NoLine]
  /\ outdated' = IF form[d].copy = product[form[d].of] THEN outdated \ {d} ELSE outdated \cup {d}
  /\ UNCHANGED <<product, edit, disturbed>>

-----------------------------------------------------------------------------
\* Products start with names and SKUs of their own.
Catalogs == {f \in [Products -> Shown] : \A p, q \in Products :
               p # q => f[p].sku # f[q].sku /\ f[p].name # f[q].name}

LinesInit ==
  /\ product \in Catalogs
  /\ form = [d \in Documents |-> NoLine]
  /\ line = [d \in Documents |-> NoLine]
  /\ edit = [e \in Edits |-> Resting]
  /\ outdated = {}
  /\ disturbed = FALSE

LinesNext ==
  \/ \E e \in Edits : RewriteLine(e) \/ LinesEnd(e) \/ UpdateFails(e)
  \/ \E e \in Edits, p \in Products : ReadPrevious(e, p)
  \/ \E e \in Edits, s \in Shown : UpdateProduct(e, s)
  \/ \E d \in Documents : FillForm(d) \/ Sell(d)

LinesSpec == LinesInit /\ [][LinesNext]_lineVars

-----------------------------------------------------------------------------
(* Properties.                                                             *)

(* "Keep SO / invoice / POS line names and photos in sync with the product *)
(* master": each line shows what its product is now as soon as no update is*)
(* at work, whatever becomes of names and SKUs and however sales and edits *)
(* of documents fall between the steps of an update, as long as updates do *)
(* not overlap or fail and no two products share a name.  But for a line   *)
(* sent from a form that was out of date when it was sent: that one is     *)
(* right only once an update of its product has found it.                  *)
OrderlyLines ==
  ~disturbed /\ Busy = {} =>
    \A d \in Documents \ outdated : line[d] # NoLine => line[d].copy = product[line[d].of]
=============================================================================
