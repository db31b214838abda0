----------------------------- MODULE MCRequestPath -----------------------------
(* What a request meets on its way, one part at a time: the users and their*)
(* cache, the gates, the loader behind the dashboard, the SKU counter.     *)
(* Parts share no state, so each runs while the others rest.               *)
EXTENDS AuthUsers, AccessRules, DashboardLoader, SkuSequence, TLC

CONSTANTS p1, p2, a1, a2

VARIABLE part   \* the part at work

authRest == <<loaderVars, vars, part, asked>>
loaderRest == <<authVars, vars, part, asked>>
skuRest == <<authVars, loaderVars, part, asked>>

\* The first process serves everything, the second lets the second user read.
RoutedCalls ==
  ({p1} \X Accounts \X {"get", "put"}) \cup {<<p1, a1, "post">>, <<p1, a1, "register">>, <<p2, a2, "get">>}

\* Users with valid, invalid, all and no sections.
SomeUsers ==
  [role : {"user", "admin"}, active : BOOLEAN,
   sections : {Undefined, {}, {"*"}, {"bogus"}, {"sales"}, {"inventory", "settings"}},
   permissions : {{}, {"inventory:edit"}}, tenant : {Undefined}, tokenTenant : {Undefined}]

\* As registered, and with each difference alone.
SomeSpellings == {s \in Spellings : Cardinality(s) <= 1}

PathInit ==
  /\ AuthInit /\ LoaderInit /\ Init
  /\ \/ part \in {"users", "loader", "sku"} /\ asked = << >>
     \/ part = "gates" /\ asked \in [route : 1..Len(Routes), user : SomeUsers, other : SomeSpellings]

ASSUME UsersAssumption == SomeUsers \subseteq User

PathNext ==
  \/ part = "users" /\ AuthNext /\ UNCHANGED authRest
  \/ part = "loader" /\ LoaderNext /\ UNCHANGED loaderRest
  \/ part = "sku" /\ Next /\ UNCHANGED skuRest

PathSpec == PathInit /\ [][PathNext]_<<authVars, loaderVars, vars, part, asked>>

\* Requests at the user routes are interchangeable: no definition names one.
CallSymmetry == Permutations(Calls)
=============================================================================
