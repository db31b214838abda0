------------------------------- MODULE StockAlerts -------------------------------
(***************************************************************************)
(* What the dashboard makes of the collections: the low-stock filters and  *)
(* counts, the list of low-stock alerts and the business alerts.  Nothing  *)
(* here keeps state; a query that is cut off without an order returns any  *)
(* part of its matches.                                                    *)
(***************************************************************************)
EXTENDS StockDuration, Counting, Sequences, SequencesExt

CONSTANTS
  PreviewCap,   \* ITEM_CAP, of each query of the business alerts
  ListCap,      \* LIST_CAP, of each query of the list
  BigDue,       \* a due that makes an alert critical
  Urgent,       \* what a nearly empty item adds to its rank, in pieces
  NoDate

ASSUME AlertsAssumption ==
  /\ {PreviewCap, ListCap, BigDue, Urgent} \subseteq Nat \ {0}
  /\ NoDate \notin Int

Least(m, n) == IF m < n THEN m ELSE n
Capped(S, cap) == kSubset(Least(Cardinality(S), cap), S)

-----------------------------------------------------------------------------
(* Low stock.  Items are numbered in the order of their names.             *)

Types == {"product", "rawMaterial", "semiFinished", "finishedGood"}

\* isQtyLowStock
IsQtyLowStock(n, min) == n > 0 /\ min > 0 /\ n <= min

\* Mutant: the reorder level of a product is not looked at.
ResolveMin_MinStock(r) == r.min
\* resolveProductLowStockMin; the other types have one limit.
ResolveMin(r) == IF r.type = "product" /\ r.reorder > 0 THEN r.reorder ELSE r.min

\* The filters MongoDB evaluates.
LowFilter(r) ==
  LET threshold == IF r.type = "product" /\ r.reorder > 0 THEN r.reorder ELSE r.min
  IN r.qty > 0 /\ threshold > 0 /\ r.qty <= threshold
Low(items, type) == {i \in DOMAIN items : items[i].type = type /\ LowFilter(items[i])}

\* What queries with a limit, one for each type, may return.
CutOff(items, types, cap) ==
  LET low == UNION {Low(items, t) : t \in types}
  IN {S \in SUBSET low : \A t \in types :
        Cardinality(S \cap Low(items, t)) = Least(Cardinality(Low(items, t)), cap)}

\* countLowStockItems
CountLowStock(items) == Total([t \in Types |-> Cardinality(Low(items, t))])

-----------------------------------------------------------------------------
(* The list of low-stock alerts.                                           *)

\* mapAlertRow
AlertRow(items, i) ==
  LET r == items[i]
      m == Measures(r.expected, r.elapsed)
  IN [name |-> i, type |-> r.type, qty |-> r.qty, min |-> ResolveMin(r),
      ratio |-> m.ratio, overdue |-> m.overdue]

\* sort(compareByRemainingRatio): rows that compare equal come in any order.
Sorted(S) == {s \in SetToSeqs(S) : \A k, m \in DOMAIN s : k < m => Compare(s[k], s[m]) <= 0}
\* The answers listLowStockAlerts may give, all pages in one.
AlertLists(items, types) ==
  UNION {Sorted({AlertRow(items, i) : i \in found}) : found \in CutOff(items, types, ListCap)}

Counts(rows) ==
  [total |-> Len(rows),
   products |-> Len(SelectSeq(rows, LAMBDA r : r.type = "product")),
   overdue |-> Len(SelectSeq(rows, LAMBDA r : r.overdue))]

Page(rows, page, limit) ==
  SubSeq(rows, (page - 1) * limit + 1, Least(page * limit, Len(rows)))
\* paginationMeta
TotalPages(total, limit) == IF total = 0 THEN 1 ELSE (total + limit - 1) \div limit

-----------------------------------------------------------------------------
(* Business alerts.  A document: its category, a party or amount that      *)
(* matters, and its date in days from today.                               *)

\* The order of the buckets in the answer.
Categories == <<"customer_due", "lead_followup", "low_stock", "pending_purchase",
                "production", "payment_collection", "supplier_due">>

\* The query of each loader; flag is an overdue customer, a closed lead, an
\* order that is under way or no longer pending, the record of a supplier.
Wanted(d) ==
  CASE d.category \in {"customer_due", "supplier_due"} -> d.amount > 0
    [] d.category = "lead_followup" -> d.days # NoDate /\ ~d.flag
    [] d.category = "pending_purchase" -> ~d.flag
    [] d.category = "payment_collection" -> d.days = 0 /\ (d.amount > 0 \/ d.flag)
    [] OTHER -> TRUE
\* Supplier records are counted by the loader of payments, not shown.
Presented(d) == ~(d.category = "payment_collection" /\ d.flag)

Priority(d) ==
  CASE d.category = "customer_due" -> IF d.flag \/ d.amount >= BigDue THEN "critical" ELSE "warning"
    [] d.category = "supplier_due" -> IF d.amount >= BigDue THEN "critical" ELSE "warning"
    [] d.category = "lead_followup" ->
         IF d.days < 0 THEN "critical" ELSE IF d.days = 0 THEN "warning" ELSE "info"
    [] d.category = "pending_purchase" -> IF d.days # NoDate /\ d.days <= 1 THEN "warning" ELSE "info"
    [] d.category = "production" -> IF d.flag THEN "warning" ELSE "info"
    [] OTHER -> "warning"

\* The other loaders: all matches counted, some of them shown.
Buckets(docs, category) ==
  LET found == {i \in DOMAIN docs : docs[i].category = category /\ Wanted(docs[i])}
  IN {[count |-> Cardinality(found),
       items |-> SetToSeq({[of |-> i, priority |-> Priority(docs[i]), rank |-> 0] :
                             i \in {x \in some : Presented(docs[x])}})] : some \in Capped(found, PreviewCap)}

\* An item of loadLowStock.
Need(r) == IF ResolveMin(r) > r.qty THEN ResolveMin(r) - r.qty ELSE 0
StockItem(items, i) ==
  [of |-> i, priority |-> IF items[i].qty <= 1 THEN "critical" ELSE "warning",
   rank |-> Need(items[i]) + IF items[i].qty <= 1 THEN Urgent ELSE 0]
First(s) == SubSeq(s, 1, Least(Len(s), PreviewCap))
\* The sort by rank leaves ties as they were found, which is in any order.
ByRank(S) == {s \in SetToSeqs(S) : \A k, m \in DOMAIN s : k < m => s[k].rank >= s[m].rank}
\* Mutant: the preview is cut before it is sorted.
Previews_CutFirst(S) == {First(s) : s \in SetToSeqs(S)}
Previews(S) == {First(s) : s \in ByRank(S)}
LowStockBuckets(items) ==
  UNION {[count : {Cardinality(found)}, items : Previews({StockItem(items, i) : i \in found})] :
           found \in CutOff(items, Types, PreviewCap)}

HighestPriority(alerts) ==
  LET some == {alerts[i].priority : i \in DOMAIN alerts}
  IN IF "critical" \in some THEN "critical" ELSE IF "warning" \in some THEN "warning" ELSE "info"
\* summarize leaves out a category without matches.
Summaries(buckets) ==
  {[category |-> c, count |-> buckets[c].count, priority |-> HighestPriority(buckets[c].items)] :
     c \in {x \in DOMAIN buckets : buckets[x].count > 0}}

-----------------------------------------------------------------------------
(* Properties.                                                             *)

(* The list of low-stock alerts shows exactly what countLowStockItems      *)
(* counts on the summary ("Shared low-stock count across dashboard summary *)
(* and alerts"), while no query is cut off; each row is low by the rule the*)
(* tests state, with the limit the list shows; overdue items come first,   *)
(* then those with the larger share of their time left; and the pages      *)
(* together are the list, at any page size.                                *)
ListExact(items) ==
  \A rows \in AlertLists(items, Types) :
    /\ (\A t \in Types : Cardinality(Low(items, t)) <= ListCap) =>
         {rows[k].name : k \in DOMAIN rows} = UNION {Low(items, t) : t \in Types}
         /\ Counts(rows).total = CountLowStock(items)
    /\ \A k \in DOMAIN rows : IsQtyLowStock(rows[k].qty, rows[k].min)
    /\ \A k, m \in DOMAIN rows : k < m =>
         /\ rows[m].overdue => rows[k].overdue
         /\ {rows[k].ratio, rows[m].ratio} \subseteq Nat => rows[k].ratio >= rows[m].ratio
    /\ \A limit \in 1..3 :
         FlattenSeq([p \in 1..TotalPages(Len(rows), limit) |-> Page(rows, p, limit)]) = rows

(* The low-stock bucket of the business alerts counts the same items, while*)
(* no query is cut off; and if one of them is nearly used up it is on top, *)
(* and the category critical, also when the preview leaves others out -    *)
(* unless another lacks more pieces than urgency counts for.               *)
PreviewExact(items) ==
  \A b \in LowStockBuckets(items) :
    (\A t \in Types : Cardinality(Low(items, t)) <= PreviewCap) =>
      /\ b.count = CountLowStock(items)
      /\ /\ \E t \in Types : \E i \in Low(items, t) : items[i].qty <= 1
         /\ \A t \in Types : \A i \in Low(items, t) : Need(items[i]) < Urgent
         =>
           b.items[1].priority = "critical" /\ HighestPriority(b.items) = "critical"

(* Every other category that has a match is announced, with at least as    *)
(* many matches as are shown, and is critical if one of them is, while its *)
(* query is not cut off.                                                   *)
SummariesExact(docs) ==
  \A c \in {docs[i].category : i \in DOMAIN docs} : \A b \in Buckets(docs, c) :
    LET found == {i \in DOMAIN docs : docs[i].category = c /\ Wanted(docs[i])}
        row == [category |-> c, count |-> Cardinality(found), priority |-> HighestPriority(b.items)]
    IN /\ Summaries([x \in {c} |-> b]) = IF found = {} THEN {} ELSE {row}
       /\ Len(b.items) <= b.count
       /\ Cardinality(found) <= PreviewCap =>
            (row.priority = "critical" <=> \E i \in found : Priority(docs[i]) = "critical")
=============================================================================
