# Verification of the toys factory ERP backend

This directory keeps TLA+ models of the backend in `src/`: an Express server in
TypeScript, a MongoDB database behind Mongoose, an optional Redis cache, timers
and a chat assistant.  No MongoDB transaction is used anywhere in the code, so
nearly everything that is hard about the program comes from one fact: **a
handler is a chain of awaited calls, and anything can happen between two of
them** - another request, a failing call, the end of the process, a timer.

- [The system](#the-system): components, state, operations, hazards
- [The modules](#the-modules): what models what
- [The runs](#the-runs): what TLC checks, bounds, fairness, what came out
- [The proofs](#the-proofs): what TLAPS checks, from what, and how
- [What is not modelled](#what-is-not-modelled)
- [Plan](#plan)

## The system

One server process (or several, behind a load balancer, sharing MongoDB and
perhaps Redis) answers HTTP requests.  A request passes `requireAuth` (a user
looked up through a 3 s cache), `resolveTenant`, `requireSectionAccess`, for GETs
`cacheGetResponse`, and ends in a controller.  Most resources share the
controller of `crudFactory`; hooks of the Mongoose models and "after" hooks of
the controllers carry a write on to derived data.

| component | state | operations | interacts with | what is hard | what makes it correct |
|---|---|---|---|---|---|
| Inventory stock workflow (`inventoryStockController`, `Stock*` models) | per item `stock`/`quantity`, `warehouseStock`, `warehouseId`; status of stock-in, stock-out, transfer and adjustment records | approve or complete a record; edit and delete records through CRUD | CRUD controller, response cache | each handler is four to six awaited calls; retries; crashes between the item and the record | a record moves its stock once, before it is settled; nothing is booked out that is not there; a product's total is the sum of its warehouses |
| Receivables (`Payment`, `Invoice`, `Customer` models) | `paid`, `due`, `status` of an invoice, `totalDue` of a customer | writes and deletions of payments and invoices; hooks that recompute | CRUD controller | hooks of concurrent requests, hooks that fail silently, payments that move | balances agree with the payments once the requests are over |
| Projects and tasks (`pmController`, `pmService`) | `taskCount`, `completedTaskCount` of a project; tasks | task and project routes, status patch, recount, deletion of a project's tasks | CRUD controller, notifications | as above, and two-step deletions | counters agree with the tasks; a project's tasks go with it |
| GET response cache (`responseCache`, `redisClient`) | a Map of entries and a table of misses in progress per process; Redis | look up, join a miss, write on `res.json`, abort, time out, clear by prefix | every cached GET and every mutation of CRUD | a miss that fails, disconnects, or is invalidated while others wait; entries older than a mutation | a GET is answered; nothing outlives its time to live; a mutation clears; one query per miss |
| Product SKU counter (`productSkuSequence`) | one `Sequence` document per tenant | lazy creation from the highest SKU, increment | products | two first requests; products typed meanwhile | numbers handed out rise and are free |
| Deadline job (`pmDeadlineNotifications`, `notify`) | two stamps per task, inbox rows | a run every 15 min: overdue, then due tomorrow | tasks, inbox, sockets | runs overlap or break off between notice and stamp; limited queries | a notice is neither lost nor repeated; no task starves |
| AI chat (`aiChatController`, `ai/chat`, `ai/tools`, `ai/providers`) | the conversation of one request, its results so far; per process a window of timestamps per user | check the message, the rate limit and the prompt; rounds of a model call and the tool calls it asks for | read-only queries of the other components, an external model | a model that never stops asking, repeats a call or invents a tool; tools that fail; a provider that hangs | each request ends, within its rounds; each tool call has exactly one result; a user keeps to his limit |
| AI metrics (`aiRequestMetrics`, `aiMetricsAggregator`) | counters per process, tables of at most 32 tools and 16 models | record at the end of a request, report | AI chat | full tables, requests that end in an error | counts agree with the requests that ended |
| Dashboard loader (`dashboardDataLoader`) | per process a snapshot of rows per key, and the loads in flight | share a load, serve its rows for 15 s, drop both after a mutation | every mutation of CRUD, the dashboard | a load begun before an invalidation ends after it, and clears the entry of its successor | mutations show after one lifetime and one load; a key is read once at a time |
| Dashboard figures, reports (`dashboard*`, `lowStock*`, `reportsController`) | none | filters, counts, previews, buckets, groupings, each computed by more than one query | every collection | capped queries without an order, the turns of weeks, months and years, documents that lack fields, references by id or by name | two figures of the same thing agree; every document is drawn once |
| Stock duration (`stockDuration`, hooks of the items) | `stockDurationStartedAt` | ratios and their order; the clock restarts with the quantity | CRUD, low-stock alerts | missing ratios in a sort; the quantity before an update is read earlier | the order is a total preorder; the clock runs from the last restock |
| Authentication (`authToken`, `authUserCache`, `auth.routes`, `admin.routes`) | users, a 3 s cache of them per process, JWTs | register, log in, administer users, look up | all routes | a look-up overtaken by a change of rights; administrators changing each other | lost rights are gone in time; somebody can administer |
| Access rules (`sectionAccess`, `granularPermissions`, `resolveTenant`) | none | tables of sections, edit rights, tenants; order of routes | all routes, tools of the assistant | three tables and the order of almost 500 routes must fit each other; paths are compared by the gates and by the router in two ways | a route is answered by itself, and guarded by its section and edit right |
| Product line snapshots | copies of a product's name, SKU and price in orders, invoices, POS lines | rewritten, not awaited, after a product update | CRUD controller | lines are found by what the product was; rewrites overtake each other; clients send lines from forms they filled in earlier | lines end up with what the product is |
| Server lifecycle, schemas, sockets | connections | start, stop, emit | all | - | - |

`PROJECT.json` lists every component with its sources and how far it is
modelled, and the hazards, each at its line with the properties that cover it.

## The modules

In all modules a MongoDB call is atomic, and an action is the code of one
handler from one awaited call to the next. `req[q]` (`get[g]`, `run[j]`,
`chat[c]`) is the local state of a running handler: `pc` names the call it is
about to make, the other fields are its local variables that outlive an await.
An operator `X_Something` above an operator `X`, commented "Mutant", is `X` with
a plausible mistake; the properties have been seen to fail with it.

| module | models | state | code that became actions |
|---|---|---|---|
| `StockLedger` | abstract: a record settles once, together with its movement, of which a Decrease may be cut short | `status`, `onHand` | - |
| `InventoryStock` | the stock workflow | `stock`, `status`, `req`; history `applied`, `booked`, `padded` | `Load` / `CheckStockOut`, `CheckProductTransfer`, `CheckWholeTransfer` / `Fetch` / `Apply` / `Relocate` / `Stamp` are the awaited calls of the four handlers and of `applyInventoryDelta`; `EditStatus`, `RemoveRecord` are the generic routes |
| `Receivables` | post hooks of payments and invoices | `pay`, `inv`, `totalDue`, `req`; history `orderly`, `asSent` | writes of the routes, then `SumPayments`, `ReadInvoice`, `SaveInvoice`, `SumInvoices`, `SaveCustomer`; `HookFails` is the `catch` that logs |
| `ResponseCache` | the GET cache for one key | `memory`, `inflight`, `promise`, `redis`, `version` of the data, `now`, `get`, `put`; history `cleared` | `Lookup`, `RedisGet`, `RedisReply`, `Query`, `Respond`, `RespondError`, `ClientCloses`, `Poll`, `WaiterTimeout`, `Wake` for a GET; `Commit`, `Clear`, `RedisScan`, `RedisDel` for a mutation |
| `SkuAllocator` | abstract: numbers handed out rise | `issued` | - |
| `SkuSequence` | the SKU counter | `counter`, `catalog`, `req`; history `late` | `FindSequence`, `ReadCatalog`, `CreateSequence`, `Increment`, and what clients do to the catalog |
| `ProjectTasks` | tasks and the counters of projects | `task`, `project`, `req`; history `orderly`, `asSent`, `astray` | the task routes, `ReadTasks`, `SaveProject` (`recalcProjectProgress`), the two steps of deleting a project |
| `DeadlineJob` | overdue and due-tomorrow reminders | `task`, `today`, `run`; history `sent`, `nobody`, `restamped`, `overlapped` | `Start`, `FindTomorrow`, `Notify`, `Stamp`; `SetStatus`, `Reschedule`, `PutStamps`, `NextDay` around it |
| `AiRateLimit` | the sliding window | `now`, `windows`; history `admitted` | `Admit`, `Refuse` (both outcomes of `checkAiRateLimit`) |
| `AiMetrics` | the counters | `metrics` | `RecordMetrics` (`recordAiRequestMetrics`) |
| `AuthUsers` | users and their cache | `users`, `loggedIn`, `cached`, `call`, `clock`; history `orderly`, `past` of a copy | `Register`, `Insert`, `Load`, `Save`, `Invalidate` for writes; `Authenticate`, `UserFound` for the look-up of each request; `Login` |
| `AccessRules` | the gates: sections, edit rights, tenants, the table of routes in Express's order, tool authorization | `asked`: a route, a user and a spelling of the path | operators |
| `DashboardLoader` | the shared loader | `snapshot`, `underWay`, `load`, `reader`, `instant`; history `writes`, `overtook` | `Request`, `Find`, `Loaded`, `LoadFails` of `cachedLoad`; `Mutation`, served here or elsewhere, and `DropSnapshots` |
| `ProductLines` | lines after an update of a product | `product`, `form`, `line`, `edit`; history `outdated`, `disturbed` | `ReadPrevious`, `UpdateProduct`, `RewriteLine`, `LinesEnd`, `UpdateFails`; `FillForm` and `Sell` of clients |
| `StockDuration` | ratios, their order, the clock of an item | `qty`, `startedAt`, `day`, `update`; history `restocked`, `regular` | the read and the write of an update, a stock-in, a day |
| `Counting` | sums of natural amounts, as cardinalities | - | `$sum`, the loops that add up |
| `StockAlerts` | low-stock lists and counts, previews, business alerts | - | operators over lists of rows and documents |
| `ChartSeries` | calendar, ranges, buckets, sums of a series | - | operators over dates |
| `Reports` | reports of stock, customers, suppliers, top products and the summary figures beside them; list projections | - | operators over documents |
| `Figures` | what the last three may be computed from (`Admissible`), and what must be true of them | `part`, `sample`: some collections | - |
| `AiChat` | composes `AiRateLimit` and `AiMetrics` with the handler of `POST /ai/chat` | `chat` | `Receive` (up to the first model call), `Respond` and `AskTools` (an answer of the model), `ToolReturns`, `Collect` (`Promise.all` has settled) |

`MC*` modules give the constants of these modules values for TLC. Three of them put
several components side by side, one `part` at a time, with the others at rest:
`MCRequestPath` (users, gates, loader, SKU counter: what a request passes),
`MCProcesses` (the cache and the deadline job of several processes) and
`MCBackOffice` (cache, deadline job, product lines, item clock, and the figures of
alerts, charts and reports over samples of documents and days, which are its
initial states). `*Proofs` modules hold the theorems; three of them, as the `MC`
modules do, put several components side by side, since the components share no
state: `RequestPathProofs`, `BackOfficeProofs` and `FiguresProofs`. `PROJECT.json` maps every definition to its lines.

History variables (`applied`, `booked`, `padded`, `orderly`, `asSent`, `astray`,
`admitted`, `sent`, `nobody`, `late`, `cleared`, `overlapped`, `writes`, `overtook`,
`outdated`, `disturbed`, `restocked`, `regular`, and fields such as `executions`,
`alone`, `raced`, `past`, `at`) are read by no guard: they only let a property speak
about what happened earlier. The one exception is `restamped`, by which `PutStamps` is
bounded to once per task.

### What the models assume

- **Inventory.** Clients change a record's status through the generic `PUT` only
  as far as `EditTo` says (cancelling it); a client that writes `Approved`
  itself bypasses the workflow altogether. Quantities of items are not edited by
  hand and items are not deleted. `StockIsSum` and `LedgerExact` need products'
  records to name a warehouse, which the handlers do not enforce. A record that
  is cancelled while it is being approved ends up approved: the last save wins.
  A Decrease is clamped at zero per warehouse, so of a product it may write off
  less than there is elsewhere: `StockLedger` leaves open how much. `warehouseStock`
  has keys for some warehouses only (`keys`); it is one path of a document, which
  `save()` sends as a whole as soon as a value differs or a key has been added.
  An overtaken copy that gained nothing but an empty key is therefore saved without
  the total: `padded` holds the items this has happened to, and `StockIsSum` is
  about the others.
- **Receivables.** The amount of a payment and the id by which an invoice names its
  customer are constants, each id is that of a customer, and customers are not
  deleted; payments and invoices are finite sets, of which a `$sum` counts the units
  (`Counting`). The figures of an invoice (`amount`, `paid`, `due`) are whatever
  clients send (`Sent`), in a `POST` or a `PUT`: nothing computes `due` from the
  amount until a payment's hook does, and `asSent` holds the invoices that wait for
  one. A customer may go by his `_id` and by his `legacyId` (`Refs`); the hook sums
  the invoices that carry one of them, so that a balance is that of one id. The bulk
  seed, which bypasses the hooks, is left out.
- **Cache.** Storing an entry and answering are one step, since `setCached` is
  not awaited by the handler; Redis is ready all the time or not at all; one key;
  all processes share one clock.
- **SKU.** SKUs are the numbers of the canonical spelling `TOY-n`; the `$toInt`
  of the aggregation fails above `IntLimit`.
- **Projects.** The percentage shown is a function of the two counters. Clients may
  send counters with a project (`Sent`, `asSent`) and put a task on a project that is
  not there (`astray`): no handler looks for it.
- **Deadlines.** Processes agree on the date; only the tasks in `Edited` are
  edited while the job runs. Those outside `Assigned` may be reassigned, or their
  assignee's account be gone, at any time: a notice may find its user or not.
  Clients write the stamps of a task at most once (`restamped`).
- **Chat.** `Date.now` does not step back. The checks before a tool runs
  (registry, arguments, rights) have a constant verdict per call. A restart, which
  empties windows and counters, is left out, as are times and tokens. The limiter
  is switched on.
- **Users.** One tenant of e-mail addresses; a token, once given, is good (its
  lifetime and signature are left out); a `findById` takes at most `MaxQuery`
  (the lifetime of an entry is counted from the arrival of its user). An expired
  entry disappears when it expires instead of when it is next looked at.
- **Loader.** One tenant; a load takes at most `MaxLoad`; mutations served by
  another process are committed here unannounced.
- **Product lines.** A document has one line; of a product, name and SKU are
  modelled (what lines are found by), the rest travels with them. A line names its
  product by the SKU, which the frontend also stores as `productId`, and by the name,
  also stored as `description`. A client sends a line from a form that shows the
  product, or the document, as it was when the form was filled in (`FillForm`,
  `Sell`); `outdated` holds the lines sent from a form that an update of the product
  had overtaken. Lines made up by hand and bulk imports are left out.
- **Item clock.** Ages are days; `stockDurationStartedAt` is not written by hand.
- **Figures.** A pipeline of MongoDB is modelled by what it computes; a `limit`
  without a `sort` returns any part of the matches. Amounts are natural numbers, a
  ratio is a multiple of `1/Scale`; a date is `year*10000 + month*100 + day`, which
  orders as the strings do. The conversion of an instant to the business time zone
  is that of `Intl`. `Admissible` says what collections may hold: documents by their schemas,
  in finite number; a product in the catalog has an SKU, and the names of the top
  products are known for every SKU of a line. Of users, `User` says the same: any
  role, any strings for sections and permissions.
- **Gates.** Express matches a path without regard to the case of its letters and to a
  slash at the end; the gates compare the path as it was sent. A spelling says whether
  the first segment differs from the one registered, the rest does, or a slash
  follows (`Spellings`).

## The runs

| run | instance | shows |
|---|---|---|
| `InventoryOverlap` | a product with a transfer and an adjustment that is clamped at a warehouse it has no key for, a raw material with a transfer and an adjustment that is clamped; 3 requests (any of them may be a retry), 1 crash | whatever overlaps: types and non-negative stock, the sum over warehouses (but for `padded` items), nothing settled that was never applied, relocation keeps quantities |
| `InventoryLedger` | a stock-in and a stock-out of a finished good with a reservation; a stock-out, a transfer and a clamped adjustment of a product; 3 requests that do not overlap on an item, 1 crash | quantities are the exact sum of what was saved, but for what a Decrease clamps; each record moves its stock once (up to the crash), and the refinement of `StockLedger` |
| `InventoryOversell` | two stock-outs and an increase of one product, 2 requests | **violated**: see below |
| `ReceivablesOverlap` | a payment, two invoices that name one customer by two ids and are sent with all of their amount due or nothing; 2 requests, 1 fault | balances agree while nothing irregular happened, but for invoices as sent; an undisturbed hook run repairs its invoice and customer |
| `ReceivablesRepoint` | one request at a time, which may move a payment to another invoice | **violated**: see below |
| `Processes` | *cache*: two processes with Redis, 3 GETs, 1 mutation, failing handlers and clients that leave, clock to 3 with a time to live of 2; *deadlines*: 2 tasks, one of which may lose its assignee, 2 overlapping runs, queries limited to 1, 2 days, 1 fault | nothing is served that is older than its time to live, also after it went from Redis to a memory; a GET that still polls for a miss that is over has an entry to find, unless that was cleared or has expired; no notice is lost, however runs overlap and break off, and none is repeated while they do neither |
| `CachePrefix` | as in `BackOffice`, with the key as the code builds it | **violated**: see below |
| `ProjectProgress` | 2 projects, 2 tasks, 2 requests, 1 fault, a client that sends more completed tasks than tasks | counters agree while nothing irregular happened, but for those a client sent; an undisturbed recount repairs; a deleted project takes along the tasks it had |
| `AiChatLoop` | 2 chats of one user, limit 1 in a window of 2, 2 rounds of up to 2 calls over 2 tools, one call refused by its schema, a table with room for one tool | well-formed conversations, bounded cost, agreeing counters, no request that never ends |
| `RequestPath` | *users*: 2 accounts, 2 processes, 2 requests, entries and queries of one tick, clock to 2; *gates*: each of the 494 routes against 48 users, spelled as registered and with each difference alone; *loader*: 2 keys, readers and loads, 2 mutations, clock to 3; *SKU*: 3 requests on an empty catalog, clients typing 1, 2 and 6, conversion failing above 5 | lost rights are gone in time, an administrator remains while nothing irregular happens; a route is answered by itself and, as far as the gates can tell from the spelling, guarded by its section and edit right; snapshots are fresh in time and loads shared; reserved numbers are free, numbers rise (refinement of `SkuAllocator`) |
| `BackOffice` | *cache*: one process, 3 GETs, 1 mutation, failing handlers and clients that leave; *deadlines*: 2 tasks, one of which may lose its assignee, runs one after another, queries limited to 1, 2 days, 1 fault; *lines*: 2 products, 3 names, 3 SKUs, a document and its form, 2 updates; *duration*: 2 updates, quantities to 2; *samples*: lists of 3 rows, one or two documents of a category, the turns of all months and weeks of two years, stock documents that lack fields, swapped names, lines without SKU, revoked documents in every spelling of their status, more SKUs than a query returns | waiters are answered, a mutation clears, one query per miss; no task starves; lines follow their product; the clock runs from the last restock; alerts, charts and reports agree with the documents and with each other |
| `ReportProjection` | the inventory report of `BackOffice` | **violated**: see below |

**Why these bounds are enough to be interesting.** The hazards need two or three
actors: a lost update two, a retry during an overlap three, a waiter that joins a
miss that a mutation clears three. One crash or fault suffices, since nothing in
the code counts them and recovery starts from any state. The clocks run past
one expiry and one refill (time to live 2, clock to 3); the window opens
again within the clock of the chat. `Batch` is 1 for 200: what matters is that
more tasks qualify than a query returns. Fairness is asked of a single run of the
deadline job; two overlapping runs are checked for safety in `Processes`.
One document suffices for product lines, since neither an update nor a client reads
one document to write another. Two tool rounds with two calls each
contain a repetition within a round, one across rounds and one of a failed call.

The gates need no two differences at once: each decision looks at the first segment,
at the end of the path, or at both, and `GatesHoldThm` covers the combinations.

The samples contain every day next to the turn of a week, month or year, a leap
February and a quarter; ratios that are equal, missing and negative; more items
than a capped query returns. Product lines are watched until updates overlap or
fail or two products share a name, which their property is conditional on and
which never ceases.

**Symmetry** is used only over identifiers of requests, and in `ProjectProgress`
over projects and tasks and in `ReceivablesOverlap` over the two invoices together with
the ids they carry, where constants do not tell them apart, and in no run with a
liveness property under fairness. **Deadlock** is not checked: every run
has requests or a clock that come to an end, or samples that make no step.

**Fairness.** `BackOffice`: in the cache part the event loop goes on
(`CacheGoesOn`): as long as some handler can continue, answer or fail, or the
interval or timer of some waiter can fire, one of these happens; clients need
never leave and mutations need never come. That is less than what Node.js gives
to each of them. In the deadlines part each process's timer and its awaited calls
go on (`Job`). `AiChatLoop`: a handler goes on (`Handle`); for a call of the
model this is the abort after the provider's timeout, for a tool it assumes that
its query returns, for which the code sets no limit of its own. No other run
assumes fairness.

### Disagreements found

- `InventoryOversell`. `completeStockOut` checks availability on one read, and
  `applyInventoryDelta` reads again and clamps at zero. Two overlapping
  completions both pass the check that refuses "Insufficient stock".
- `ReceivablesRepoint`. The hook after an update synchronises the invoice the
  payment names *now*; the one it named before keeps counting it until it is
  written to again.
- `CachePrefix`. Lists and reports build their keys from `req.path`, which
  inside the mounted router lacks `/api/v1`, while `clearCaches` looks for the
  full path: a mutation does not clear them and they stay until they expire.
- `ReportProjection`. The list profiles of semi-finished products and finished
  goods (`listFieldProfiles.ts:22-23`) name fields their schemas lack and leave out
  `quantity`, `minStock` and `avgCost`. The inventory report reads through them
  and shows each of these items with quantity 0, value 0 and "Low Stock".

The models also show behaviour that no document rules out and no property
forbids: a crash between saving the item and saving the record makes a retry
apply the record again; two payments written at once can leave an invoice with
the older sum; a refund of everything leaves the status at `paid`; a task moved
to another project leaves the old project's counters as they were; overlapping
reminder runs repeat a notice; with Redis two handlers may run for one miss. A
look-up that overtakes an invalidation keeps the old rights for up to the lifetime
of an entry; administrators who disable each other in overlapping requests, or
demote themselves, lock everybody out; two products that share a name take over
each other's lines. A product's stock and the sum of its warehouses come apart when
an overtaken handler has added nothing but an empty key to its copy of
`warehouseStock`: its `save()` sends the old map without the total. An invoice posted
with an amount and no `due` owes nothing until a payment's hook runs, and the balance
of a customer whose invoices name him by two ids is that of the id used last. Tasks
may be put on projects that have been deleted, and counters are what a client sends
until the next recount. An order saved from a form that was filled in before a product
was renamed keeps the old name. The gates compare paths as they are spelled, and the
router does not. The chart of a month's revenue includes receipts, which the month's
revenue in the summary does not. The top products are exact only as long as no
collection has more groups than its query returns. The inventory report ignores the `threshold` of raw materials;
the approval of a stock-in does not restart `stockDurationStartedAt`, though
`stockDuration.ts:22` counts "days elapsed since last restock"; a date that is
stored with a time misses the last day of a range; the payments-due summary
counts supplier records it does not show; the low-stock preview ranks an item that
lacks very many pieces above one that is nearly empty; a product sold by SKU in
one collection and by id in another fills two rows of the top products.

## The proofs

All of them hold for every value of the constants that meets the `ASSUME` of
the module, with unbounded numbers of requests, crashes, records and rounds; of
figures and gates, for all collections, days, routes and users. Every safety
property that a passing run checks is a theorem.

Finiteness is assumed of what is counted: payments, invoices, mutations of the
cache, tool calls that differ. `ResponseCache` also assumes that `NoEntry` is not
an entry. Each assumption is an `ASSUME` of its module, evaluated by every run.
All the inductive invariants named below were given to TLC before they were proved.

**`InventoryStockProofs`.** `TypeCorrect` needs to know that a request always
carries the record and the leg its program counter calls for: `Typed` is
`TypeOK` and `Routed`. `DoneImpliesAppliedThm` is not inductive by itself:
`Stamp` must know what its request has saved before, hence `LegsBehind`, which
links `pc`, `leg` and the history `applied`. It assumes that clients do not write
the final status themselves. `StockIsSumThm`: whatever updates handlers lose to
each other, `stock` and the sum of `warehouseStock` change together, because both
come from one copy that itself satisfies the equation (`CopiesAgree`) and are
saved by one update - unless the total of the copy did not change and its map
changed by an empty key alone, which is what `padded` records and the only case the
proof leaves. The sum is counted in pieces (`SumWs` is the cardinality of a
set of pairs), so that the library's theorems about finite sets apply;
`SumOfChange` is the lemma that changing one shelf changes the sum by the
difference. `RelocationThm` shows the action property that a relocation, saving a
stale copy, touches no quantity.

`LedgerExactThm` and `ImplementsLedgerThm` are about requests that do not overlap
on an item (`Exclusive`), on products whose records name a warehouse and whose
stock is the sum of their shelves at first. `LedgerInv` says that only one request
is at work on an item (`Apart`), that the copy it holds is therefore the item as it
is, and what its availability test found still covers the record (`Steady`), and
that a record which is still pending while nobody works on it has not moved its
stock, unless a crash cut it short (`Unmoved`). From that a save is exact
(`ApplyEffect`), and only a Decrease is ever clamped. The refinement maps a record
to settled from the moment its last leg is saved, not from its stamp, and counts
the pieces of a transfer that have left one warehouse and not reached the other
(`InTransit`) as on hand; the proof has one lemma per kind of step (`HalfApplied`,
`LastApplied`, `Relocated`, `Stamped`, `Withdrawn`). Trying it showed that the
ledger had been wrong for a Decrease of a product whose warehouse holds less than
the quantity while others hold more: `StockLedger` now leaves open how much such a
Decrease writes off, and `InventoryLedger` contains one. It also showed that
`LedgerExact` was excusing a surplus by the mere existence of a Decrease; it now
asks for one that was applied.

**`ReceivablesProofs`.** `OrderlyLedgerThm`: as long as one request is at work
at a time, each state between its awaited calls is described by what is still
stale (an invoice, then its customer) and by what the request has read and is about
to write; every other invoice and customer agrees already, but for invoices in
`asSent`. What `due` a client sends does not matter to a customer, whose balance is the
sum of what his invoices say. A customer of two ids agrees by one of them, that of
the invoice last synchronised. `AloneRepairsThm` needs
only the second half, for a request nobody has disturbed since its write, and
assumes nothing about what came before. Sums are counted unit by unit (`SumOver`), so
that a change of one document changes a sum by a cardinality.

**`ProjectTasksProofs`.** The same argument with counters in place of sums, and
with the deletion of a project, whose tasks are the one thing that may be left
without a project while the request is at work (`OrderlyProgressThm`,
`AloneRepairsThm`). Counters in `asSent` and tasks in `astray` are what clients made
them; a recount or the next write of the task takes them out.

**`ResponseCacheProofs`.** `AnswersWithinTTLThm` rests on the age of whatever may
still be served: an entry in a memory, in Redis, or in the hands of a request
expires no later than its lifetime after it was made, also when a memory is
refilled from Redis. `NoOrphanWaiterThm` holds in every configuration; the rest of
`CoalescingSoundThm`, that a process runs one handler at a time, needs that a miss
is registered for as long as its handler runs, which is so only without Redis: with
it, a GET that waited for Redis may start a miss after an earlier one has ended, and
the poll of the earlier one then drops the registration of the new one (three GETs
of one process suffice).
`TypeCorrect`, the type invariant, is proved and left out of the runs.
`ClearedAfterMutationThm` assumes, besides, that the prefix occurs in the key
(`KeyMatches`); the run `CachePrefix` shows what happens otherwise. It adds what
handlers have read: one that is not marked as raced has read everything its process
has been cleared for (`ReadAfterClear`).

**`BackOfficeProofs`.** Deadline job: `NoticesExactThm`: a run carries the tasks it still has to
notify; a task that is stamped, or about to be, has its notice in the history; while
runs neither overlap nor fail, a task on the list of the run has not been notified
yet, which follows from the query of the run and survives the edits of clients and
midnight, because the notice of a reminder is that of the run's day. A notice may find
no user (`nobody`), and of tasks whose stamps a client has written (`restamped`)
nothing is said.
Lines: `OrderlyLinesThm` needs to know what lines show *during* an
update (`LinesFollow`): what the product is, or, if not yet reached, what it was;
and that no other product has that name or SKU, so that none of its lines is
taken over. This is why a rename and a new SKU in one update lose no line. What a
client sends is from a form that may be older than the product; such a line is in
`outdated` until an update of its product finds it. Item
clock: `CompareIsOrder`: the comparator is a total preorder for all ratios, which is
what `sort` requires. `DurationClockThm`: while updates do not overlap, the clock
runs from the last restock.

**`AiChatProofs`.** `WindowRespectedThm` says that no stretch of the window's
length, wherever it begins, holds more than `Limit` admitted requests, though
the code forgets timestamps: `WindowInv` adds that a user's entry still holds all
that was admitted within the last window (`EntriesComplete`). Conversely
`RefusedOnlyWhenFullThm` needs that an entry holds only what was admitted
(`EntriesHonest`). `ImplementsLimiter`: every step of a chat is a step of the
limiter or leaves it alone, so `ChatWindowRespected` carries the bound over.
`CostBoundedThm`: `CostInv` counts that, up to the last one, each model call has
asked for a round of tools (`RoundsCounted`), and that only keys with a result
have been executed, at most once (`ExecutedOnce`). `ConversationAnsweredThm`:
`TalkInv` says of every position of the messages what it is (`Complete`), up to the
request for tools that is being worked on, and that the results it awaits are those
of the table, which keeps a result once it has one (`StaysComplete`,
`RoundCompletes`). `MetricsAgreeThm`: a request is counted in the step that ends it,
and what has ended stays as it was (`HistoryGrows`, `FinishCounted`); what is not
inductive by itself is the bounded table of tools, which needs `Room`: a tool
without a row was never called, or the table is full, so that a row is never begun
too late.

**`RequestPathProofs`.** Users: `RightsTakeHoldThm` bounds how long lost rights are
acted on. `AuthInv` adds that an entry expires within its lifetime of a look-up that
began before the copy was outdated (`Timely`), and that a copy which differs from
the user is about to be dropped or was overtaken or changed elsewhere (`Justified`);
the latter is preserved by the hook only because it marks the look-ups under way.
It assumes that a query takes at most `MaxQuery`. `AdministratorRemainsThm`: a write
that takes an administrator away is made by another one who is active and whom
nothing can take away before it is done (`Spares`, `Guarded`). Loader:
`LoadsSharedThm` rests on `LoaderInv`: an entry of the in-flight map is a load in
progress for its key, and conversely until an invalidation overtakes a load;
`SnapshotsFreshThm` on the times of loads and the rows they saw.
SKU counter: `ReservedIsFreeThm` rests on `IInv`: numbers
handed out are at most the counter, the counter is at least every number in the
catalog that was not typed late, and so is the maximum a request has read and is
about to create the counter with. `ImplementsAllocator` gets refinement from the
same invariant.
Gates: `GatesHoldThm` is about a constant table of 494 routes, which TLC evaluates
completely for 48 users, and the proof for all. The table is not enumerated in it but
built up as the code builds it: each route is of one of five shapes (`Regular`), only a
path that ends in an id takes others (`Taker`), and only a GET of a fixed name can be
taken (`Taken`, `TakesIs`). Parts of the table may be joined in an order in which no
taker comes before what it would take (`Orderly`, `Joined`), and `next-sku`, `my`,
`summary` and `team-overview` are registered in one. The gates then know each handler by its
path (`EditsAreTold`, `GrantedIs`, `ToolsGuarded`). What they make sure of depends on
the spelling of the path, and the theorem says it for each: the user is active in any
spelling; with the first segment as registered the section is granted, and so is the
right to edit for updates and removals; for bulk seeding and moves of stock the edit
right takes the spelling of the whole path, since those are told by its end.

**`FiguresProofs`.** Sums, counts and groupings of any length. A sum is the
cardinality of a set of units (`Counting`), so sums over parts are the library's facts
about unions and bijections of finite sets (`SumOfParts`, `SumByClass`, `SumOfImage`).
The theorems of the library that do induction take an operator, which the prover
cannot instantiate; what needs induction takes instead the least counterexample in the
well-founded order of the naturals (`LeastNumber`, from `WFMin`): the flattening of
pages (`FlattenIs`), and the points of a chart that follow one another (`ChainShows`).
`AlertsExactThm`: rows and items found correspond one to one, a capped query that is
not full returns everything, and the sort of rows by a total preorder and the slices
of a page lose nothing. `SeriesExactThm`: days are counted by months since the year 0
(`At`), in which `addCalendarDays` is an addition (`AddDaysAt`, `AddDaysTwice`) and
the order of keys that of the days (`KeyOrder`); the points of each range form a chain
without gap or overlap from the first day drawn to the last (`IsChain`, `WeekShown`,
`MonthShown`, `QuarterShown`, `YearShown`), and so each document is in one of them.
The chart of revenue adds two such series, of invoices (`BilledLemma`) and of receipts
(`ReceiptsLemma`, `SumAdds`); `MonthLemma` compares it with the month's revenue, with
receipts on one side only and two lists of revoked states (`OffChart`, `OffSummary`).
`ReportsAgreeThm`: each invoice concerns one customer, each line with an SKU is in one
group and each group under one identity, so that sums over the parts are the sum of
the whole. The top products are merged from groups of which each query returns the
leading ones only (`Fetched`): their sum is never more than that of the lines, and
equal when no query is cut short (`FewerGroups`, `FetchedGroups`, `TopLemma`).

Trying these proofs changed three definitions. The sums were folds, about which nothing
can be proved here, and are cardinalities now. `PartiesAgree` compared the id and the
name on an invoice with those of a customer as an unordered pair, which let through an
invoice whose id is the name of another customer; each field is compared with its own
now, and ids are unique as names are. The figures were stated of the samples alone; they
are now stated of every member of `Admissible`, of which TLC checks that the samples are
members (`SamplesAssumption`, and `UsersAssumption` for the users of the gates).

**Only model-checked.** Everything temporal under fairness (`EveryGetAnswered`,
`EveryOverdueHandled`, `EveryChatEnds`) is out of the prover's reach, and so is
`ENABLED`. `CoalescingSound` and `ClearedAfterMutation` are stated, proved and checked
for a process that keeps its cache to itself: with Redis they do not hold, but for
`NoOrphanWaiter`, the part of the former that is also checked with Redis.

## What is not modelled

- HTTP, validation of bodies, file uploads, password hashing, JWT signatures,
  Socket.IO, Cloudinary, logging and timing: libraries or I/O.
- The filters of list queries, identifier generation and the bulk seed of the CRUD
  controller.
- The reports of sales, purchases, finance and personnel, accounting, payroll and
  the other cards of the summary: further sums of the same kind, with no second
  figure to agree with.
- The adapters of AI providers (wire formats of services) and the shortening of
  tool results.
- Start-up, shutdown and seeding: connections, with no state the properties are
  about. Crashes of the process are actions of the modules they matter to.

## Plan

1. Several keys per process in `ResponseCache`, so that a prefix clears some and
   spares others.
2. The size of shortened tool results, and the sums of accounting and payroll
   where they meet the reports; `Counting` and the lemmas of `FiguresProofs` are
   made for them.
3. `CoalescingSound` with Redis, in the weaker form that holds there: at most one
   handler for each time the registration was dropped.
