--------------------------------- MODULE Figures ---------------------------------
(***************************************************************************)
(* The figures the dashboard and the reports compute from documents, by    *)
(* the operators of StockAlerts, ChartSeries and Reports: what they may be *)
(* computed from, and what must be true of them.                           *)
(***************************************************************************)
EXTENDS StockAlerts, ChartSeries, Reports

VARIABLES
  part,     \* what is at work: these figures, or something beside them
  sample    \* what the figures are computed from

-----------------------------------------------------------------------------
(* What the collections hold: documents by their schemas, any number of    *)
(* them.                                                                   *)

\* Scale is a multiple of the expected durations.
ListedItem == [type : Types, qty : Nat, min : Nat, reorder : Nat,
               expected : {e \in Nat : e = 0 \/ Scale % e = 0}, elapsed : Nat]
AlertDocument == [category : {Categories[c] : c \in DOMAIN Categories \ {3}}, amount : Nat,
                  days : Int \cup {NoDate}, flag : BOOLEAN]
ForAlerts(s) == s.rows \in Seq(ListedItem) /\ s.docs \in Seq(AlertDocument)

CalendarDays == {p \in [year : Nat, month : 1..12, day : 1..31] : p.day <= DaysIn(p.year, p.month)}
IsDayKey(k) ==
  k = NoKey \/ (k \in Nat /\ Date(k \div 10000, (k \div 100) % 100, k % 100) \in CalendarDays)
IsDated(d) == IsDayKey(d.date) /\ IsDayKey(d.issueDate) /\ d.timed \in BOOLEAN /\ d.amount \in Nat
ForCharts(s) ==
  /\ s.range \in Ranges /\ s.today \in CalendarDays /\ s.pass \in 0..1
  /\ IsFiniteSet(s.sales) /\ IsFiniteSet(s.invoices)
  /\ \A d \in s.sales \cup s.invoices : IsDated(d)

\* A document may lack fields, and has none that its schema does not name.
ForStockReport(s) ==
  /\ s.type \in DOMAIN SchemaFields
  /\ DOMAIN s.doc \subseteq SchemaFields[s.type] /\ \A f \in DOMAIN s.doc : s.doc[f] \in Nat
ForPartyReport(s) ==
  /\ IsFiniteSet(s.parties) /\ IsFiniteSet(s.invoices)
  /\ \A p \in s.parties : p.due \in Nat /\ Missing \notin {p.id, p.name}
  /\ \A i \in s.invoices : i.amount \in Nat
ForTopProducts(s) ==
  /\ IsFiniteSet(s.lines)
  /\ \A l \in s.lines : l.collection \in Collections /\ l.qty \in Nat /\ l.revenue \in Nat
  /\ Missing \notin s.catalog
  /\ DOMAIN s.names = Collections \X ({l.sku : l \in s.lines} \ {Missing})

Admissible ==
  /\ part = "alerts" => ForAlerts(sample)
  /\ part = "charts" => ForCharts(sample)
  /\ part = "stock report" => ForStockReport(sample)
  /\ part = "party report" => ForPartyReport(sample)
  /\ part = "top products" => ForTopProducts(sample)

-----------------------------------------------------------------------------
(* Properties.                                                             *)

Drawn == AddDays(sample.today, sample.pass)

(* The list of low-stock alerts, the previews and the summaries of the     *)
(* business alerts are exact and in order, whatever the documents are.     *)
AlertsExact ==
  part = "alerts" => ListExact(sample.rows) /\ PreviewExact(sample.rows) /\ SummariesExact(sample.docs)

(* On every day, in every range, each document is drawn once, today's sales*)
(* are today's, and the month's chart of revenue is the month's revenue and*)
(* the month's receipts, if all sales are receipts.                        *)
SeriesExact ==
  part = "charts" =>
    /\ DrawnOnce(sample.sales, sample.range, sample.today, Drawn)
    /\ TodayExact(sample.sales, sample.today, Drawn)
    /\ MonthAgrees(sample.invoices, sample.sales, sample.today)

(* The reports agree with the documents and with the summary.              *)
ReportsAgree ==
  /\ part = "stock report" => InventoryAgrees(sample.doc, sample.type)
  /\ part = "party report" => PartiesAgree(sample.parties, sample.invoices)
  /\ part = "top products" => TopAgrees(sample.lines, sample.names, sample.catalog)

(* "omit heavy meta/notes fields": the inventory report shows of every item*)
(* what its document says.                                                 *)
ReportKeepsStock == part = "stock report" => ProjectionKeepsRow(sample.doc, sample.type)
=============================================================================
