------------------------------- MODULE ChartSeries -------------------------------
(***************************************************************************)
(* The trends of the dashboard: the business calendar (businessDate.ts,    *)
(* monthPrefix.ts), the dates a chart reads (dashboardDateRange.ts), the   *)
(* points it draws (dashboardChartSeries.ts) and the figures taken from    *)
(* them (salesMetrics.ts, dashboardMetrics.ts).  Dates are written         *)
(* year-month-day and compared as strings, here as the numbers those       *)
(* digits make.  Nothing here keeps state.                                 *)
(***************************************************************************)
EXTENDS Counting, Sequences

CONSTANT NoKey   \* a document without this date

ASSUME ChartAssumption == NoKey \notin Int

-----------------------------------------------------------------------------
(* The business calendar.                                                  *)

Leap(y) == (y % 4 = 0 /\ y % 100 # 0) \/ y % 400 = 0
DaysIn(y, m) ==
  CASE m = 2 -> IF Leap(y) THEN 29 ELSE 28
    [] m \in {4, 6, 9, 11} -> 30
    [] OTHER -> 31

Date(y, m, d) == [year |-> y, month |-> m, day |-> d]
Key(p) == 10000 * p.year + 100 * p.month + p.day
MonthKey(p) == 100 * p.year + p.month

\* addBusinessMonths: the first of a month some months away.
AddMonths(p, n) ==
  LET m == 12 * p.year + p.month - 1 + n
  IN Date(m \div 12, (m % 12) + 1, 1)
\* lastDayOfBusinessMonth
LastDay(y, m) == Date(y, m, DaysIn(y, m))
\* addBusinessDays, for steps of four weeks at most.
AddDays(p, n) ==
  LET last == AddMonths(p, -1)
      next == AddMonths(p, 1)
      d == p.day + n
  IN CASE d < 1 -> Date(last.year, last.month, DaysIn(last.year, last.month) + d)
       [] d > DaysIn(p.year, p.month) -> Date(next.year, next.month, d - DaysIn(p.year, p.month))
       [] OTHER -> Date(p.year, p.month, d)

\* getUTCDay, 0 for Sunday, by the days since the first of January of year 1.
Weekday(p) ==
  LET y == p.year - 1
      past == Total([m \in 1..(p.month - 1) |-> DaysIn(p.year, m)])
  IN (365 * y + y \div 4 - y \div 100 + y \div 400 + past + p.day) % 7
\* getBusinessMondayParts
Monday(p) == AddDays(p, IF Weekday(p) = 0 THEN -6 ELSE 1 - Weekday(p))

-----------------------------------------------------------------------------
(* The dates a chart reads.                                                *)

Ranges == {"day", "week", "month", "quarter", "year"}

\* Mutant: the last quarter of last year is looked for in this year.
QuarterStart_SameYear(today) ==
  Date(today.year, IF today.month <= 3 THEN 10 ELSE 3 * ((today.month - 1) \div 3) - 2, 1)
\* The quarter before the current one.
QuarterStart(today) ==
  IF today.month <= 3 THEN Date(today.year - 1, 10, 1)
  ELSE Date(today.year, 3 * ((today.month - 1) \div 3) - 2, 1)

\* chartRangeDateBounds; all ranges end today.
StartOf(range, today) ==
  CASE range = "day" -> AddDays(today, -6)
    [] range = "week" -> AddDays(Monday(today), -21)
    [] range = "month" -> Date(today.year, today.month, 1)
    [] range = "quarter" -> QuarterStart(today)
    [] range = "year" -> AddMonths(today, -11)

\* A document: the day of each date field, and whether a time follows it in
\* the string, which then comes after the key of that day and before the next.
Within(k, timed, range, today) ==
  /\ k # NoKey
  /\ Key(StartOf(range, today)) <= k
  /\ IF timed THEN k < Key(today) ELSE k <= Key(today)
\* tenantDateRangeMatch
Matches(d, range, today) ==
  Within(d.date, d.timed, range, today) \/ Within(d.issueDate, d.timed, range, today)

-----------------------------------------------------------------------------
(* The points a chart draws.                                               *)

\* buildDayRange
DayPoints(today) == [i \in 1..7 |-> LET k == Key(AddDays(today, i - 7)) IN [from |-> k, to |-> k]]
\* buildWeekRange cuts the current week off at today.
WeekPoints(today) ==
  [i \in 1..4 |->
     LET start == AddDays(Monday(today), 7 * (i - 4))
         end == Key(AddDays(start, 6))
     IN [from |-> Key(start), to |-> IF end > Key(today) THEN Key(today) ELSE end]]
\* buildMonthRange
MonthPoints(today) ==
  [i \in 1..today.day |-> LET k == Key([today EXCEPT !.day = i]) IN [from |-> k, to |-> k]]
WholeMonth(p) == [from |-> Key(p), to |-> Key(LastDay(p.year, p.month))]
\* buildQuarterRange works its quarter out once more.
QuarterPoints(today) ==
  LET current == (today.month - 1) \div 3
      start == IF current = 0 THEN Date(today.year - 1, 10, 1)
               ELSE Date(today.year, 3 * (current - 1) + 1, 1)
  IN [i \in 1..3 |-> WholeMonth([start EXCEPT !.month = @ + i - 1])]
\* buildYearRange
YearPoints(today) == [i \in 1..12 |-> WholeMonth(AddMonths(today, i - 12))]

\* buildChartSeries
Points(range, today) ==
  CASE range = "day" -> DayPoints(today)
    [] range = "week" -> WeekPoints(today)
    [] range = "month" -> MonthPoints(today)
    [] range = "quarter" -> QuarterPoints(today)
    [] range = "year" -> YearPoints(today)

\* The row of a sale has its date, of an invoice the date of issue first.
SaleKey(d) == d.date
InvoiceKey(d) == IF d.issueDate # NoKey THEN d.issueDate ELSE d.date
\* Sums of a set of rows over the points.
Series(rows, range, today) ==
  [i \in DOMAIN Points(range, today) |->
     LET p == Points(range, today)[i]
     IN Total([r \in {x \in rows : x.key \in p.from..p.to} |-> r.amount])]

\* Drafts and cancelled invoices earn nothing, but each figure has its own list
\* of what they are called: the chart's reads them in any case, of which the
\* capital stands for all others.
OffChart == {"cancelled", "canceled", "draft", "Cancelled", "Canceled", "Draft"}
OffSummary == {"cancelled", "draft"}

\* getSalesTrend of orders and receipts, and getRevenueTrend of invoices and
\* receipts, whose rows it adds to the same points; the documents were read on
\* a day that may be over when the points are drawn.
SalesTrend(docs, range, today, drawn) ==
  Series({[of |-> d, key |-> SaleKey(d), amount |-> d.amount] :
            d \in {x \in docs : Matches(x, range, today)}}, range, drawn)
BilledTrend(invoices, range, today, drawn) ==
  Series({[of |-> d, key |-> InvoiceKey(d), amount |-> d.amount] :
            d \in {x \in invoices : Matches(x, range, today) /\ x.status \notin OffChart}}, range, drawn)
RevenueTrend(invoices, receipts, range, today, drawn) ==
  [i \in DOMAIN Points(range, drawn) |->
     BilledTrend(invoices, range, today, drawn)[i] + SalesTrend(receipts, range, today, drawn)[i]]

\* getTodaySales looks its day up in the chart of the last seven.
TodaySales(docs, today, drawn) ==
  LET day == {i \in DOMAIN DayPoints(drawn) : DayPoints(drawn)[i].from = Key(today)}
  IN SumOver(SalesTrend(docs, "day", today, drawn), day)

\* monthPrefixRange: what begins with this month, with or without a time.
InMonth(k, today) ==
  k # NoKey /\ 100 * MonthKey(today) <= k /\ k < 100 * MonthKey(AddMonths(today, 1))
\* The month's revenue on the summary, by invoiceMonthMatch; of invoices only.
MonthRevenue(invoices, today) ==
  Total([d \in {x \in invoices :
                  x.status \notin OffSummary /\ (InMonth(x.issueDate, today) \/ InMonth(x.date, today))}
           |-> d.amount])

-----------------------------------------------------------------------------
(* Properties.                                                             *)

\* The last day a chart shows.
LastShown(range, today) ==
  IF range = "quarter" THEN Key(AddDays(AddMonths(QuarterStart(today), 3), -1)) ELSE Key(today)

(* "Calendar window for a chart range": what is read is drawn once, in one *)
(* point and no other, at every turn of a month, a year or a leap day, also*)
(* if midnight passes between the query and the drawing.  (Of a quarter    *)
(* more is read than drawn.)  Orders and receipts have one date, a day     *)
(* without a time, since one with a time is not read on its own day.       *)
DrawnOnce(docs, range, today, drawn) ==
  LET seen == Key(StartOf(range, today))..Key(today)
      shown == Key(StartOf(range, drawn))..LastShown(range, drawn)
  IN (\A d \in docs : ~d.timed /\ d.issueDate = NoKey) =>
       Total(SalesTrend(docs, range, today, drawn)) =
         Total([d \in {x \in docs : x.date \in seen /\ x.date \in shown} |-> d.amount])

(* "Authoritative today sales": the sales of the business day that began   *)
(* the request, whenever the chart is drawn.                               *)
TodayExact(docs, today, drawn) ==
  (\A d \in docs : ~d.timed /\ d.issueDate = NoKey) =>
    TodaySales(docs, today, drawn) = Total([d \in {x \in docs : x.date = Key(today)} |-> d.amount])

(* The revenue chart of the month shows the month's revenue of the summary *)
(* and the receipts of the month, which the summary does not count, of what*)
(* has one date each, which is not to come; and does not show the invoices *)
(* whose status only the chart takes for a draft or cancelled.             *)
MonthAgrees(invoices, receipts, today) ==
  /\ \A d \in invoices :
       /\ ~d.timed /\ (d.issueDate = NoKey \/ d.date = NoKey \/ d.issueDate = d.date)
       /\ \A k \in {d.date, d.issueDate} \ {NoKey} : k <= Key(today)
  /\ \A d \in receipts : ~d.timed /\ d.issueDate = NoKey /\ (d.date # NoKey => d.date <= Key(today))
  => Total(RevenueTrend(invoices, receipts, "month", today, today)) =
       MonthRevenue({d \in invoices : d.status \notin OffChart}, today)
       + Total([d \in {x \in receipts : InMonth(x.date, today)} |-> d.amount])
=============================================================================
