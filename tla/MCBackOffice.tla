------------------------------ MODULE MCBackOffice ------------------------------
(* What goes on behind the requests, one part at a time: the lists a       *)
(* process keeps, the deadline job, the copies of a product, the clock of  *)
(* an item, and the figures computed from documents, which are checked on  *)
(* a sample of documents and days.                                         *)
EXTENDS MCResponseCache, DeadlineJob, ProductLines, Figures

cacheRest == <<deadlineVars, lineVars, durationVars, part, sample>>
deadlineRest == <<cacheVars, lineVars, durationVars, part, sample>>
lineRest == <<cacheVars, deadlineVars, durationVars, part, sample>>
durationRest == <<cacheVars, deadlineVars, lineVars, part, sample>>

-----------------------------------------------------------------------------
(* Samples.                                                                *)

Row(type, qt, limit, reorder, expected, elapsed) ==
  [type |-> type, qty |-> qt, min |-> limit, reorder |-> reorder, expected |-> expected, elapsed |-> elapsed]
\* Items that are out of stock, low, or not; below one limit only; with and
\* without a target, on time, late, with equal and with different ratios.
StockRows ==
  {Row("product", n, 2, r, 0, 0) : n \in {0, 1, 4}, r \in {0, 4}}
  \cup {Row("product", 2, 2, 0, e, l) : e \in {2, 4}, l \in {0, 1, 6}}
  \cup {Row("rawMaterial", n, 2, 0, 4, 1) : n \in {1, 2}}
  \cup {Row("finishedGood", 2, 2, 0, 0, 0), Row("product", 1, 2, 0, 2, 3), Row("product", 2, 2, 5, 0, 0)}

\* One or two documents of a category: due or not, large or not, of yesterday,
\* today, tomorrow or no date.
AlertDocs(c) ==
  [category : {c}, amount : {0, 1, BigDue}, days : {NoDate, -1, 0, 1}, flag : BOOLEAN]
DocSamples == UNION {[1..n -> AlertDocs(Categories[c])] : n \in 1..2, c \in DOMAIN Categories \ {3}}

\* Two years, one of them a leap year; the ends of months, and every day of
\* some weeks.
AllDays == {p \in {Date(y, m, d) : y \in 2023..2024, m \in 1..12, d \in 1..31} : p.day <= DaysIn(p.year, p.month)}
Turns == {p \in AllDays : p.day \in {1, 2, 15, DaysIn(p.year, p.month) - 1, DaysIn(p.year, p.month)}}
Weeks == {p \in AllDays : p.year = 2024 /\ (p.month = 2 \/ (p.month = 3 /\ p.day <= 10))}
Todays == {p \in Turns : p.year = 2024 /\ p.day \notin {2, 15}} \cup {p \in Weeks : p.month = 3 /\ p.day > 3}

\* Imported products and raw materials with any of their fields; the others
\* with all of them.
StockDocs ==
  UNION {[type : {t}, doc : UNION {[f -> 0..2] : f \in
            {s \in SUBSET SchemaFields[t] : t \in {"product", "rawMaterial"} \/ s = SchemaFields[t]}}] :
           t \in DOMAIN SchemaFields}
\* Customers with distinct names, with swapped ones, and one alone.
SomeCustomers ==
  {{[id |-> "p", name |-> "P", due |-> 0], [id |-> "q", name |-> "Q", due |-> 2]},
   {[id |-> "p", name |-> "Q", due |-> 1], [id |-> "q", name |-> "P", due |-> 1]},
   {[id |-> "p", name |-> "P", due |-> 3]}}
SomeInvoices ==
  {s \in SUBSET [of : {"p", "q", Missing}, name : {"P", "Q", Missing}, amount : 1..2] : Cardinality(s) \in 1..2}
\* Two lines; or one more group than a query returns, with or without another
\* order of one of its SKUs, and a line that is cancelled.
Line(c, s, amount, status) == [collection |-> c, sku |-> s, qty |-> 1, revenue |-> amount, status |-> status]
SomeLines ==
  {{Line(c1, s1, a1, "paid"), Line(c2, s2, a2, "paid")} :
     c1, c2 \in {"invoices", "salesorders"}, s1, s2 \in {"s", "t", Missing}, a1, a2 \in 0..2}
  \cup {{Line("invoices", "s", a1, "paid"), Line("invoices", "t", a2, "paid"), Line("invoices", "u", a3, "paid"),
         Line("salesorders", k, 1, st), Line("invoices", "t", 1, "Draft")} :
          a1, a2, a3 \in 0..2, k \in {"s", "u"}, st \in {"done", "cancelled"}}
\* Lines with SKU s are called alike everywhere, those with others are not.
SomeNames(skus) ==
  {[x \in Collections \X skus |-> IF x[2] = "s" THEN m ELSE IF x[1] = "invoices" THEN n ELSE "t"] :
     m, n \in {"s", "N", Missing}}

AlertSamples ==
  [rows : [1..3 -> StockRows], docs : {<< >>}] \cup [rows : {<< >>}, docs : DocSamples]
\* Sales of some day and of today; invoices of that day, by either date.
Of(own, issued, status) == [date |-> own, issueDate |-> issued, timed |-> FALSE, amount |-> 1, status |-> status]
SomeSales(k, t) == {Of(k, NoKey, "done"), Of(Key(t), NoKey, "done")}
SomeBills(k) ==
  {Of(k, NoKey, "paid"), Of(NoKey, k, "paid"), Of(k, k, "draft"), Of(k, k, "Draft"), Of(k, NoKey, "canceled")}
DaySamples ==
  {[range |-> r, today |-> t, pass |-> n, sales |-> SomeSales(k, t), invoices |-> SomeBills(k)] :
     r \in Ranges, t \in Todays, n \in 0..1, k \in {Key(p) : p \in Turns \cup Weeks}}
PartySamples == [parties : SomeCustomers, invoices : SomeInvoices]
SaleSamples ==
  UNION {[lines : {ls}, names : SomeNames({l.sku : l \in ls} \ {Missing}), catalog : {{"s"}, {"s", "t"}, {"N"}}] :
           ls \in SomeLines}

ASSUME SamplesAssumption ==
  /\ \A s \in AlertSamples : ForAlerts(s)
  /\ \A s \in DaySamples : ForCharts(s)
  /\ \A s \in StockDocs : ForStockReport(s)
  /\ \A s \in PartySamples : ForPartyReport(s)
  /\ \A s \in SaleSamples : ForTopProducts(s)

-----------------------------------------------------------------------------
Parts == {"cache", "deadlines", "lines", "duration", "alerts", "charts", "stock report", "party report", "top products"}
\* A part that is not at work rests in one of its initial states.
OfficeInit ==
  /\ part \in Parts
  /\ CacheInit
  /\ DeadlineInit /\ (part # "deadlines" => \A t \in Tasks : task[t].deadline = 0)
  /\ LinesInit /\ (part # "lines" => product = CHOOSE f \in Catalogs : TRUE)
  /\ DurationInit /\ (part # "duration" => qty = 0)
  /\ \/ part \in {"cache", "deadlines", "lines", "duration"} /\ sample = << >>
     \/ part = "alerts" /\ sample \in AlertSamples
     \/ part = "charts" /\ sample \in DaySamples
     \/ part = "stock report" /\ sample \in StockDocs
     \/ part = "party report" /\ sample \in PartySamples
     \/ part = "top products" /\ sample \in SaleSamples

DeadlineStep == part = "deadlines" /\ DeadlineNext /\ UNCHANGED deadlineRest
OfficeNext ==
  \/ part = "cache" /\ CacheNext /\ UNCHANGED cacheRest
  \/ DeadlineStep
  \* Bound: lines are watched until they are disturbed, which stays so.
  \/ part = "lines" /\ ~disturbed /\ LinesNext /\ UNCHANGED lineRest
  \/ part = "duration" /\ DurationNext /\ UNCHANGED durationRest

officeVars == <<cacheVars, deadlineVars, lineVars, durationVars, part, sample>>
OfficeSpec ==
  /\ OfficeInit /\ [][OfficeNext]_officeVars
  /\ \A j \in Jobs : WF_officeVars(part = "deadlines" /\ Job(j) /\ UNCHANGED deadlineRest)
  /\ WF_officeVars(part = "cache" /\ CacheGoesOn /\ UNCHANGED cacheRest)

=============================================================================
