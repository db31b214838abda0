------------------------------ MODULE StockDuration ------------------------------
(***************************************************************************)
(* How long the stock of an item is meant to last: the measures and the    *)
(* order of src/utils/stockDuration.ts, and the clock that a PUT of        *)
(* crudFactory.ts restarts when the quantity rises.  The stock workflow    *)
(* changes quantities too and leaves the clock alone.  An action is one    *)
(* awaited call.                                                           *)
(***************************************************************************)
EXTENDS Integers

CONSTANTS
  NoTarget,    \* null: the item has no expected duration
  Scale,       \* ratios are counted in parts of this size, see Measures
  Updates,     \* PUTs of the item in progress at once
  MaxQty,      \* bound on quantities
  MaxAge       \* bound on the days that pass

ASSUME DurationAssumption ==
  /\ NoTarget \notin Int
  /\ Scale \in Nat \ {0}
  /\ {MaxQty, MaxAge} \subseteq Nat

-----------------------------------------------------------------------------
(* Measures and order.                                                     *)

\* stockDurationMetrics: an item that has been expected to last so many days
\* for so many days.  Scale is a multiple of the durations in use.
Measures(expected, elapsed) ==
  IF expected = 0
  THEN [remaining |-> NoTarget, ratio |-> NoTarget, overdue |-> FALSE]
  ELSE [remaining |-> expected - elapsed,
        ratio |-> (expected - elapsed) * (Scale \div expected),
        overdue |-> elapsed > expected]

\* Rows of a list: a ratio or NoTarget, and the place of the name in the
\* alphabet.
Listed == [ratio : Int \cup {NoTarget}, name : Int]
Before(m, n) == IF m < n THEN -1 ELSE IF m > n THEN 1 ELSE 0

\* Mutant: the rows without a target are not told apart from the others.
Compare_NoTarget(a, b) ==
  IF NoTarget \in {a.ratio, b.ratio} THEN Before(a.name, b.name)
  ELSE IF (a.ratio < 0) # (b.ratio < 0) THEN (IF a.ratio < 0 THEN -1 ELSE 1)
  ELSE IF a.ratio = b.ratio THEN Before(a.name, b.name)
  ELSE IF a.ratio < 0 THEN Before(a.ratio, b.ratio) ELSE Before(b.ratio, a.ratio)
\* compareByRemainingRatio: overdue rows first, the most overdue leading, then
\* those with most time left, then those without a target; equals by name.
Compare(a, b) ==
  CASE a.ratio = NoTarget /\ b.ratio = NoTarget -> Before(a.name, b.name)
    [] a.ratio = NoTarget /\ b.ratio # NoTarget -> 1
    [] a.ratio # NoTarget /\ b.ratio = NoTarget -> -1
    [] OTHER ->
         IF (a.ratio < 0) # (b.ratio < 0) THEN (IF a.ratio < 0 THEN -1 ELSE 1)
         ELSE IF a.ratio = b.ratio THEN Before(a.name, b.name)
         ELSE IF a.ratio < 0 THEN Before(a.ratio, b.ratio) ELSE Before(b.ratio, a.ratio)

-----------------------------------------------------------------------------
(* The clock of one item.                                                  *)

VARIABLES
  qty,
  startedAt,   \* stockDurationStartedAt
  day,
  update,      \* [Updates -> local state]
  restocked,   \* history: the day the quantity last rose
  regular      \* history: only PUTs that do not overlap have changed it

durationVars == <<qty, startedAt, day, update, restocked, regular>>

Waiting == [pc |-> "idle", before |-> 0, after |-> 0]
Updating == {u \in Updates : update[u].pc # "idle"}
Rises(n) == restocked' = IF n > qty THEN day ELSE restocked

\* The update reads the item; the payload has a quantity, or keeps this one.
ReadItem(u, n) ==
  /\ update[u].pc = "idle"
  /\ update' = [update EXCEPT ![u] = [pc |-> "update", before |-> qty, after |-> n]]
  /\ regular' = (regular /\ Updating = {})
  /\ UNCHANGED <<qty, startedAt, day, restocked>>

\* Mutant: the clock restarts whenever the quantity is written.
Stamp_Always(c) == day
\* stampStockDurationOnUpdate looks at what the item was when it was read.
\* The stamp is made just before the update, on the same day.
StampOnUpdate(c) == IF c.after > c.before THEN day ELSE startedAt

UpdateItem(u) ==
  /\ update[u].pc = "update"
  /\ qty' = update[u].after
  /\ startedAt' = StampOnUpdate(update[u])
  /\ update' = [update EXCEPT ![u] = Waiting]
  /\ Rises(update[u].after)
  /\ UNCHANGED <<day, regular>>

UpdateLost(u) ==
  /\ update[u].pc = "update"
  /\ update' = [update EXCEPT ![u] = Waiting]
  /\ UNCHANGED <<qty, startedAt, day, restocked, regular>>

\* A stock-in, stock-out or adjustment is applied to the item.
StockMoves(n) ==
  /\ n # qty
  /\ qty' = n
  /\ Rises(n)
  /\ regular' = FALSE
  /\ UNCHANGED <<startedAt, day, update>>

DayPasses ==
  /\ day < MaxAge
  /\ Updating = {}
  /\ day' = day + 1
  /\ UNCHANGED <<qty, startedAt, update, restocked, regular>>

\* stampStockDurationOnCreate
DurationInit ==
  /\ qty \in 0..MaxQty
  /\ day = 0 /\ startedAt = 0 /\ restocked = 0
  /\ update = [u \in Updates |-> Waiting]
  /\ regular = TRUE

DurationNext ==
  \/ \E u \in Updates : UpdateItem(u) \/ UpdateLost(u) \/ \E n \in 0..MaxQty : ReadItem(u, n)
  \/ \E n \in 0..MaxQty : StockMoves(n)
  \/ DayPasses

DurationSpec == DurationInit /\ [][DurationNext]_durationVars

-----------------------------------------------------------------------------
(* Properties.                                                             *)

(* "Reset the duration clock only when on-hand quantity increases": the    *)
(* clock runs from the day of the last restock, as long as every change is *)
(* a PUT and PUTs do not overlap.                                          *)
DurationClock == regular => startedAt = restocked
=============================================================================
