----------------------------- MODULE AccessRules -----------------------------
(***************************************************************************)
(* Who may call what: the routes of src/routes in the order Express tries  *)
(* them, and the gates a request passes before it reaches its handler -    *)
(* requireAuth, resolveTenant, requireSectionAccess, requireInventoryEdit -*)
(* with their tables (src/config).  The last part is the gate of the       *)
(* assistant's tools (src/ai/tools).  Nothing here keeps state: "asked" is *)
(* what the properties are asked about.                                    *)
(*                                                                         *)
(* A path is the sequence of its segments after /api/v1 as the router of   *)
(* Express compares them: letters in one case, a trailing "/" dropped; all *)
(* routes are registered that way.  The gates compare the path as sent, so *)
(* "other" says where it is spelled otherwise: in the case of its first    *)
(* segment, of the rest, or with a trailing slash.                         *)
(***************************************************************************)
EXTENDS Naturals, Sequences, SequencesExt

CONSTANT Undefined   \* a field the client or the document does not have

VARIABLE asked   \* a route, by its position, a user and a spelling; empty while something else is at work

\* Where a path may be spelled otherwise than it is registered.
Spellings == SUBSET {"first", "rest", "slash"}

-----------------------------------------------------------------------------
(* Sections.                                                               *)

\* API_PREFIX_TO_SECTION, turned round.  No prefix begins another.
Area == [
  dashboard |-> {"dashboard", "ai", "notifications"},
  sales |-> {"customers", "sales-orders", "invoices", "leads", "deals", "quotations", "deliveries", "dispatch",
             "payments", "returns", "complaints", "pos-transactions", "crm-activities", "wholesale-orders"},
  inventory |-> {"inventory", "products", "categories", "units", "warehouses", "raw-materials", "semi-finished-products",
                 "finished-goods", "stock-in", "stock-out", "stock-transfers", "stock-adjustments"},
  purchases |-> {"suppliers", "purchase-orders", "goods-received", "vendor-bills", "purchase-payments",
                 "purchase-returns", "recipes", "purchase-rm"},
  factory |-> {"production-orders", "machine-maintenance", "molds", "wastage", "packing"},
  accounts |-> {"journals", "ledger", "dues", "cashbox", "trial-balance", "profit-loss", "balance-sheet"},
  hrm |-> {"employees", "departments", "designations", "attendance", "leave-requests"},
  payroll |-> {"salary-structures", "payroll-runs", "payroll-slips", "salary-sheet"},
  projects |-> {"pm-projects", "pm-tasks", "projects"},
  assets |-> {"assets"},
  approvals |-> {"workflow-approvals"},
  reports |-> {"reports"},
  administration |-> {"users", "roles", "permissions", "documents", "company-settings", "audit-logs"}]

\* ALL_SECTION_IDS: the frontend has one more.
Sections == DOMAIN Area \cup {"settings"}

\* apiPathToSectionId: no section for the root and for what is spelled like no area;
\* what follows the first segment does not matter to startsWith.
SectionOf(path, other) == {s \in DOMAIN Area : path # <<>> /\ "first" \notin other /\ path[1] \in Area[s]}

\* normalizeAllowedSections
AllowedSections(granted) ==
  CASE granted = Undefined -> {"dashboard"}
    [] granted # Undefined /\ "*" \in granted -> {"*"}
    [] granted # Undefined /\ "*" \notin granted ->
         IF granted \cap Sections = {} THEN {"dashboard"} ELSE granted \cap Sections

CanAccessSection(user, section) ==
  /\ user.active
  /\ user.role = "admin" \/ {"*", section} \cap AllowedSections(user.sections) # {}

PassesSection(user, path, other) == \A s \in SectionOf(path, other) : CanAccessSection(user, s)

-----------------------------------------------------------------------------
(* The right to edit the inventory.                                        *)

EditScope == {"products", "categories", "units", "warehouses", "raw-materials", "semi-finished-products",
              "finished-goods", "stock-in", "stock-out", "stock-transfers", "stock-adjustments"}

CanEditInventory(user) == user.role = "admin" \/ "inventory:edit" \in user.permissions

\* Mutant: bulk seeding counts as creating.
EditRequired_NoSeed(method, path, other) ==
  /\ path # <<>> /\ "first" \notin other /\ path[1] \in EditScope
  /\ \/ other = {} /\ method = "POST" /\ Last(path) \in {"approve", "complete"}
     \/ method \in {"PUT", "PATCH", "DELETE"}
\* isInventoryEditRequiredPath: creating needs the section only; startsWith tests the
\* first segment, endsWith the last one and that nothing follows it.
EditRequired(method, path, other) ==
  /\ path # <<>> /\ "first" \notin other /\ path[1] \in EditScope
  /\ \/ other = {} /\ Last(path) = "seed"
     \/ other = {} /\ method = "POST" /\ Last(path) \in {"approve", "complete"}
     \/ method \in {"PUT", "PATCH", "DELETE"}

-----------------------------------------------------------------------------
(* Tenants.                                                                *)

\* normalizeTenantId
TenantId(value) == IF value \in {Undefined, ""} THEN "default" ELSE value
\* attachAuthUserTenant: the document, else the token.
TenantOf(user) == TenantId(IF user.tenant = Undefined THEN user.tokenTenant ELSE user.tenant)
TenantConflict(value, tenant) == value \notin {Undefined, "", tenant}
\* resolveTenant looks at the query, and at the body of a writing request.
PassesTenant(user, method, query, body) ==
  /\ ~TenantConflict(query, TenantOf(user))
  /\ method \in {"POST", "PUT", "PATCH"} => ~TenantConflict(body, TenantOf(user))

-----------------------------------------------------------------------------
(* The routes.                                                             *)

Route(method, path, handler) == [method |-> method, path |-> path, handler |-> handler]
Get(path, handler) == <<Route("GET", path, handler)>>

\* registerCrud; ":id" stands for any segment.
Crud(r) ==
  << Route("GET", <<r>>, "list"), Route("POST", <<r, "seed">>, "bulkSeed"), Route("GET", <<r, ":id">>, "getById"),
     Route("POST", <<r>>, "create"), Route("PUT", <<r, ":id">>, "update"), Route("PATCH", <<r, ":id">>, "update"),
     Route("DELETE", <<r, ":id">>, "remove") >>
Cruds(names) == [k \in 1..(7 * Len(names)) |-> Crud(names[((k - 1) \div 7) + 1])[((k - 1) % 7) + 1]]

DashboardRoutes ==
  [i \in 1..6 |-> Route("GET", <<"dashboard", <<"summary", "top-products", "business-alerts", "recent-invoices",
                                               "sales-trend", "revenue-trend">>[i]>>, "dashboard")]
  \o <<Route("POST", <<"ai", "chat">>, "chat")>> \o Get(<<"ai", "metrics">>, "metrics")
  \o Get(<<"inventory", "low-stock-alerts">>, "lowStock") \o Get(<<"notifications">>, "notifications")
  \o [i \in 1..4 |-> Route("GET", <<<<"balance-sheet", "profit-loss", "trial-balance", "salary-sheet">>[i],
                                    "summary">>, "summary")]
  \o [i \in 1..8 |-> Route("GET", <<"reports", <<"sales", "product-sales", "purchases", "inventory", "customers",
                                               "suppliers", "financial", "hr">>[i]>>, "report")]

\* Mutant: the CRUD routes of products come before the next SKU.
ResourceRoutes_Late ==
  Cruds(<<"customers", "products">>) \o Get(<<"products", "next-sku">>, "nextSku")
ResourceRoutes ==
  Crud("customers") \o Get(<<"products", "next-sku">>, "nextSku")
  \o Cruds(<<"products", "suppliers", "employees", "sales-orders", "invoices", "leads", "deals", "quotations",
             "deliveries", "dispatch", "payments", "returns", "complaints", "pos-transactions", "categories",
             "units", "warehouses", "raw-materials", "semi-finished-products", "finished-goods", "stock-in",
             "stock-out", "stock-transfers", "stock-adjustments">>)

StockRoutes ==
  << Route("POST", <<"stock-in", ":id", "approve">>, "moveStock"),
     Route("POST", <<"stock-out", ":id", "complete">>, "moveStock"),
     Route("POST", <<"stock-transfers", ":id", "complete">>, "moveStock"),
     Route("POST", <<"stock-adjustments", ":id", "approve">>, "moveStock") >>

\* EXTENDED_RESOURCES
ExtendedRoutes ==
  Cruds(<<"purchase-orders", "goods-received", "vendor-bills", "purchase-payments", "purchase-returns", "recipes",
          "purchase-rm", "departments", "designations", "attendance", "leave-requests", "salary-structures",
          "payroll-runs", "payroll-slips", "production-orders", "machine-maintenance", "molds", "wastage", "packing",
          "journals", "ledger", "dues", "crm-activities", "wholesale-orders", "users", "roles", "permissions",
          "documents", "company-settings", "projects", "assets", "workflow-approvals", "audit-logs", "notifications",
          "cashbox", "trial-balance", "profit-loss", "balance-sheet", "salary-sheet">>)

ProjectRoutes ==
  Get(<<"pm-projects", "summary">>, "summary") \o Get(<<"pm-tasks", "my">>, "myTasks")
  \o Get(<<"pm-tasks", "team-overview">>, "overview")
  \o <<Route("PATCH", <<"pm-tasks", ":id", "status">>, "patchStatus")>>
  \o Cruds(<<"pm-projects", "pm-tasks">>)

Routes ==
  Get(<<>>, "index") \o DashboardRoutes \o ResourceRoutes \o StockRoutes \o ExtendedRoutes \o ProjectRoutes

\* The case of a letter and a trailing slash make no difference.
Matches(r, method, path) ==
  /\ r.method = method
  /\ Len(r.path) = Len(path)
  /\ \A i \in DOMAIN path : r.path[i] \in {":id", path[i]}
\* The route Express takes: the first that matches.
RouteOf(method, path) == SelectInSeq(Routes, LAMBDA r : Matches(r, method, path))

\* What the gates of /api/v1 say; requireAuth has let the user in.
Verdict(user, method, path, other, query, body) ==
  CASE ~user.active -> 401
    [] user.active /\ ~(/\ PassesTenant(user, method, query, body)
                        /\ PassesSection(user, path, other)
                        /\ EditRequired(method, path, other) => CanEditInventory(user)) -> 403
    [] OTHER -> IF RouteOf(method, path) = 0 THEN 404 ELSE 200

-----------------------------------------------------------------------------
(* The tools of the assistant.                                             *)

\* requiredSections of the production tools, and a route with the same data.
Tools == {"getTodaySales", "getSalesTrend", "getRevenueTrend", "getDashboardSummary", "getLowStockCount"}
RequiredSections(tool) == IF tool = "getLowStockCount" THEN {"inventory"} ELSE {"dashboard"}
DataOf(tool) ==
  CASE tool = "getLowStockCount" -> <<"inventory", "low-stock-alerts">>
    [] tool \in {"getTodaySales", "getSalesTrend"} -> <<"dashboard", "sales-trend">>
    [] tool = "getRevenueTrend" -> <<"dashboard", "revenue-trend">>
    [] tool = "getDashboardSummary" -> <<"dashboard", "summary">>

\* buildAiExecutionContext leaves the status behind; userCanExecuteTool.
CanExecuteTool(user, tool) ==
  \/ user.role = "admin"
  \/ \A s \in RequiredSections(tool) : CanAccessSection([user EXCEPT !.active = TRUE], s)

\* The checks of executeToolCall, in their order.
ToolVerdict(user, tool, valid) ==
  CASE tool \notin Tools -> "TOOL_NOT_FOUND"
    [] tool \in Tools /\ ~valid -> "TOOL_VALIDATION_FAILED"
    [] tool \in Tools /\ valid /\ ~CanExecuteTool(user, tool) -> "TOOL_AUTH_DENIED"
    [] OTHER -> "callable"

-----------------------------------------------------------------------------
(* Properties, of a route (by its position) and a user.                    *)

\* A user by its schema: any role, and any strings for sections.
User == [role : STRING, active : BOOLEAN, sections : {Undefined} \cup SUBSET STRING,
         permissions : SUBSET STRING, tenant : {Undefined} \cup STRING, tokenTenant : {Undefined} \cup STRING]
Asked == [route : 1..Len(Routes), user : User, other : Spellings]

\* A request for route i; the client fills in an id nothing is called by.
Concrete(path) == [k \in DOMAIN path |-> IF path[k] = ":id" THEN "68f0" ELSE path[k]]

(* A route with a name of its own is not taken for an id: the request for  *)
(* a route is answered by that route or by an earlier one of the same path,*)
(* and every route but the index lies in exactly one section.              *)
RouteReached(i) ==
  LET r == Routes[i]
      first == Routes[RouteOf(r.method, Concrete(r.path))]
  IN /\ first.path = r.path
     /\ r.path # <<>> => \E s \in Sections : SectionOf(r.path, {}) = {s}

\* What changes existing inventory, told by the handler.
EditsInventory(r) ==
  \/ r.handler = "moveStock"
  \/ r.handler \in {"update", "remove", "bulkSeed"} /\ r.path[1] \in Area.inventory

(* What the gates make sure of.  In any spelling a handler is reached by an*)
(* active user only.  If the first segment is spelled as registered, the   *)
(* user is an administrator or has been granted the section the route lies *)
(* in (the dashboard, if nothing valid was granted), and may edit if he    *)
(* updates or removes existing inventory.  For bulk seeding and the moves  *)
(* of stock, told by the end of the path, that takes the spelling of the   *)
(* whole path.  And a tool of the assistant answers only what a route would*)
(* have answered.                                                          *)
HandlerGuarded(i, user, other) ==
  LET r == Routes[i]
      granted == IF user.sections = Undefined THEN {} ELSE user.sections
  IN /\ Verdict(user, r.method, Concrete(r.path), other, Undefined, Undefined) = 200 =>
          /\ user.active
          /\ "first" \notin other =>
               user.role = "admin" \/ \A s \in SectionOf(r.path, {}) :
                 {s, "*"} \cap granted # {} \/ (s = "dashboard" /\ granted \cap Sections = {})
          /\ EditsInventory(r) /\ (other = {} \/ ("first" \notin other /\ r.handler \in {"update", "remove"})) =>
               user.role = "admin" \/ "inventory:edit" \in user.permissions
     /\ \A t \in Tools : DataOf(t) = r.path /\ user.active /\ ToolVerdict(user, t, TRUE) = "callable" =>
          Verdict(user, "GET", r.path, {}, Undefined, Undefined) = 200

(* Both, of the route, the user and the spelling that are asked about.     *)
GatesHold == asked # << >> => RouteReached(asked.route) /\ HandlerGuarded(asked.route, asked.user, asked.other)
=============================================================================
