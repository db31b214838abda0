--------------------------------- MODULE Reports ---------------------------------
(***************************************************************************)
(* The figures of the summary and of the reports, each computed by its own *)
(* queries: the value of the inventory, the dues and sales of customers and*)
(* suppliers, the products that sell most (reportsController.ts,           *)
(* dashboardMetrics.ts, dashboardController.ts, dashboardDataLoader.ts),   *)
(* read through the projections of listFieldProfiles.ts.  Nothing here     *)
(* keeps state.                                                            *)
(***************************************************************************)
EXTENDS Counting, Sequences, FiniteSetsExt, Functions

CONSTANTS
  Missing,     \* a name, a reference or a SKU that is not there
  ReportLimit  \* REPORT_LIMIT, and the other limits of the reports

ASSUME ReportsAssumption == ReportLimit \in Nat \ {0}

-----------------------------------------------------------------------------
(* Stock.  A document is a function of the fields it has.                  *)

\* a ?? b ?? ... ?? 0, and $ifNull.
Coalesce(doc, fields) ==
  LET has == {i \in DOMAIN fields : fields[i] \in DOMAIN doc}
  IN IF has = {} THEN 0 ELSE doc[fields[Min(has)]]

\* The number fields of each schema.  Imported documents may lack some.
SchemaFields == [
  product |-> {"stock", "cost", "price", "minStock", "reorderLevel"},
  rawMaterial |-> {"quantity", "price", "supplierPrice"},
  semiFinished |-> {"quantity", "avgCost", "minStock"},
  finishedGood |-> {"quantity", "avgCost", "minStock"}]

\* LIST_FIELD_PROFILES
Profile(type) ==
  CASE type = "product" -> {"price", "cost", "stock", "minStock", "reorderLevel"}
    [] type = "rawMaterial" -> {"quantity", "stock", "reorderLevel", "cost", "price"}
    [] type = "semiFinished" -> {"stock", "reorderLevel", "cost"}
    [] type = "finishedGood" -> {"stock", "reorderLevel", "cost", "price"}
Projected(doc, type) == Restrict(doc, DOMAIN doc \cap Profile(type))

\* mapInventoryRow
InventoryRow(doc) ==
  LET qty == Coalesce(doc, <<"stock", "quantity">>)
      cost == Coalesce(doc, <<"cost", "price">>)
      reorder == Coalesce(doc, <<"reorderLevel", "minStock">>)
  IN [qty |-> qty, cost |-> cost, reorderLevel |-> reorder, value |-> qty * cost,
      status |-> IF qty <= reorder THEN "Low Stock" ELSE "In Stock"]

\* inventoryValuePipeline: the value of an item on the summary.
SummaryValue(doc, type) ==
  Coalesce(doc, <<"quantity">>) *
    CASE type = "rawMaterial" -> Coalesce(doc, <<"cost", "price", "supplierPrice">>)
      [] type = "semiFinished" -> Coalesce(doc, <<"avgCost", "cost">>)
      [] type = "finishedGood" -> Coalesce(doc, <<"avgCost", "price", "cost">>)

-----------------------------------------------------------------------------
(* Parties.  A customer: id, name and due; an invoice: whom it names, by   *)
(* id, by name or both, and an amount.  Suppliers and orders are alike.    *)

\* As many as a query returns, of documents or groups.
UpToLimit(S) == kSubset(IF Cardinality(S) < ReportLimit THEN Cardinality(S) ELSE ReportLimit, S)

\* The filter of getCustomerReport and getSupplierReport; party names are
\* required, and compared without their case.
Concerns(invoice, party) == invoice.of = party.id \/ invoice.name = party.name

PartyRow(party, invoices) ==
  LET own == {i \in invoices : Concerns(i, party)}
  IN [id |-> party.id, totalOrders |-> Cardinality(own),
      totalSpent |-> Total([i \in own |-> i.amount]), due |-> party.due]
\* getCustomerReport, getSupplierReport
PartyReports(parties, invoices) ==
  {{PartyRow(p, i) : p \in ps} : ps \in UpToLimit(parties), i \in UpToLimit(invoices)}

\* customerDue and customerDueCount of the summary.
DueSummary(parties) ==
  [total |-> Total([p \in parties |-> p.due]),
   count |-> Cardinality({p \in parties : p.due > 0})]

-----------------------------------------------------------------------------
(* Products that sell most.                                                *)

Collections == {"salesorders", "invoices", "postransactions"}

CancelledOrDraft == {"draft", "cancelled", "canceled", "Draft", "Cancelled", "Canceled"}

\* loadTopProductLineAgg before its limit: the lines of the documents of a
\* collection that count, by SKU, without the lines that have none and the
\* groups that sold nothing.
LineGroups(lines, collection) ==
  LET counted == {l \in lines : l.collection = collection /\ l.status \notin CancelledOrDraft}
      own(s) == {l \in counted : l.sku = s}
  IN {g \in {[collection |-> collection, sku |-> s,
              qty |-> Total([l \in own(s) |-> l.qty]),
              revenue |-> Total([l \in own(s) |-> l.revenue])] : s \in {l.sku : l \in counted} \ {Missing}} :
        g.qty > 0 \/ g.revenue > 0}

\* Its $sort and $limit: of the groups that are alike, any.
NoWorse(g, h) == g.revenue > h.revenue \/ (g.revenue = h.revenue /\ g.qty >= h.qty)
Leading(groups) == {b \in UpToLimit(groups) : \A g \in b, h \in groups \ b : NoWorse(g, h)}
\* What the three queries of getDashboardTopProducts may return.
Fetched(lines) ==
  {a \cup b \cup c : a \in Leading(LineGroups(lines, "salesorders")),
                    b \in Leading(LineGroups(lines, "invoices")),
                    c \in Leading(LineGroups(lines, "postransactions"))}

\* Mutant: the name of a line counts more than its SKU.
Identity_NameFirst(group, names, catalog) ==
  LET name == names[<<group.collection, group.sku>>] IN IF name # Missing THEN name ELSE group.sku
\* What a group is counted under: its SKU if the catalog knows that as a SKU,
\* an id or a name; else the name its first line has, or its SKU.
Identity(group, names, catalog) ==
  LET name == names[<<group.collection, group.sku>>]
  IN IF group.sku \notin catalog /\ name # Missing THEN name ELSE group.sku

\* The rows of getDashboardTopProducts, before the best are picked.
TopProducts(groups, names, catalog) ==
  LET called(i) == {g \in groups : Identity(g, names, catalog) = i}
  IN {[identity |-> i, sold |-> Total([g \in called(i) |-> g.qty]),
       revenue |-> Total([g \in called(i) |-> g.revenue])] :
        i \in {Identity(g, names, catalog) : g \in groups}}

-----------------------------------------------------------------------------
(* Properties.                                                             *)

(* The report of products and raw materials shows what the documents say,  *)
(* although it reads them through a projection; and the value it gives a   *)
(* raw material that has a price is the one the summary adds up.           *)
InventoryAgrees(doc, type) ==
  type \in {"product", "rawMaterial"} =>
    /\ InventoryRow(Projected(doc, type)) = InventoryRow(doc)
    /\ type = "rawMaterial" /\ "price" \in DOMAIN doc =>
         InventoryRow(Projected(doc, type)).value = SummaryValue(doc, type)

(* Every invoice is counted for exactly one customer, so that their sums   *)
(* are those of the invoices, and dues agree with the summary, as long as  *)
(* no query is cut off, ids and names are unique, and each invoice names a *)
(* customer by id, by name or by both alike.                               *)
PartiesAgree(parties, invoices) ==
  \A rows \in PartyReports(parties, invoices) :
    /\ Cardinality(parties) <= ReportLimit
    /\ Cardinality(invoices) <= ReportLimit
    /\ \A p, q \in parties : p # q => p.id # q.id /\ p.name # q.name
    /\ \A i \in invoices : \E p \in parties :
         \/ i.of = p.id /\ i.name \in {p.name, Missing}
         \/ i.of = Missing /\ i.name = p.name
    => /\ Total([r \in rows |-> r.totalSpent]) = Total([i \in invoices |-> i.amount])
       /\ Total([r \in rows |-> r.due]) = DueSummary(parties).total
       /\ Cardinality({r \in rows : r.due > 0}) = DueSummary(parties).count

(* No line is counted twice in the products that sell most, and none of a  *)
(* draft or a cancelled document; and the row of a product in the catalog  *)
(* has lines with its SKU only, from orders, invoices and receipts, what-  *)
(* ever the lines are called, unless one without a SKU of the catalog is   *)
(* called like it.  All such lines are counted, if no query is cut off.    *)
TopAgrees(lines, names, catalog) ==
  LET counted == {l \in lines : l.status \notin CancelledOrDraft /\ l.sku # Missing}
      known == {k \in catalog : \A x \in DOMAIN names : names[x] # k}
      revenue(S) == Total([x \in S |-> x.revenue])
  IN \A groups \in Fetched(lines) :
       LET rows == TopProducts(groups, names, catalog)
       IN /\ revenue(rows) <= revenue(counted)
          /\ \A k \in known : revenue({r \in rows : r.identity = k}) <= revenue({l \in counted : l.sku = k})
          /\ (\A c \in Collections : Cardinality(LineGroups(lines, c)) <= ReportLimit) =>
               /\ revenue(rows) = revenue(counted)
               /\ \A k \in known :
                    revenue({r \in rows : r.identity = k}) = revenue({l \in counted : l.sku = k})

(* "Mongoose `.select()` projections for list endpoints - omit heavy meta/ *)
(* notes fields": the row of the report is the one the whole document      *)
(* would give.                                                             *)
ProjectionKeepsRow(doc, type) == InventoryRow(Projected(doc, type)) = InventoryRow(doc)
=============================================================================
