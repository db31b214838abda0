------------------------------ MODULE AuthUsers ------------------------------
(***************************************************************************)
(* Users and the rights a request acts on: the user cache of each process  *)
(* (src/middleware/authUserCache.ts), the look-up of requireAuth           *)
(* (authToken.ts), the first registration and login (auth.routes.ts) and   *)
(* the routes of administrators (admin.routes.ts).  An action is the code  *)
(* from one awaited MongoDB call to the next.                              *)
(***************************************************************************)
EXTENDS Integers, FiniteSets

CONSTANTS
  Accounts,    \* e-mail addresses; the index of User allows one user each
  Processes,   \* server processes, each with a cache
  Routed,      \* <<process, account, sort of request>>: what reaches which process
  Calls,       \* requests in progress at once
  NoUser,      \* the cache holds no entry
  UserTTL,     \* AUTH_USER_CACHE_TTL_MS
  MaxQuery,    \* the longest a findById takes, assumed
  MaxClock     \* bound on the clock

ASSUME AuthAssumption ==
  /\ Accounts # {} /\ Processes # {}
  /\ UserTTL \in Nat \ {0}
  /\ MaxQuery \in Nat
  /\ MaxClock \in Nat

VARIABLES
  users,       \* [Accounts -> Rights], the collection
  loggedIn,    \* accounts that hold a token
  cached,      \* [Processes -> [Accounts -> UserEntry or NoUser]]
  call,        \* the requests' local state
  clock,
  orderly      \* history: see OrderlyIf

authVars == <<users, loggedIn, cached, call, clock, orderly>>

Rights == [role : {"none", "user", "admin"}, active : BOOLEAN]
Unknown == [role |-> "none", active |-> FALSE]
\* History of a copy of a user: since when it is outdated, and why a copy
\* may outlive the invalidation.
Past == [since : 0..(MaxClock + 1), why : {"none", "overtaken", "elsewhere"}]
Fresh == [since |-> MaxClock + 1, why |-> "none"]
Outdated(h, n, by) == [since |-> IF clock < h.since THEN clock ELSE h.since,
                       why |-> IF n = by THEN h.why ELSE "elsewhere"]
Late(copy, n, by) == [copy EXCEPT !.past = Outdated(copy.past, n, by)]
UserEntry == [rights : Rights, expiresAt : Nat, past : Past]

Changes == {"disable", "enable", "promote", "demote"}
Quiet == [pc |-> "idle", of |-> "get", at |-> CHOOSE n \in Processes : TRUE,
          actor |-> CHOOSE a \in Accounts : TRUE, rights |-> Unknown, readAt |-> 0, past |-> Fresh]
CallState == [pc : {"idle", "found", "load", "save", "insert", "hook"},
              of : {"get", "put", "post", "register"} \cup Changes,
              at : Processes, actor : Accounts, rights : Rights, readAt : Nat, past : Past]
Step(q, new) == call' = [call EXCEPT ![q] = new]

Admins == {a \in Accounts : users[a].role = "admin"}
Writing == {q \in Calls : call[q].pc \in {"load", "save", "insert", "hook"}}
\* Writes do not overlap, none is let in on rights its actor has lost, and
\* no administrator takes his own role away.
OrderlyIf(ok) == orderly' = (orderly /\ ok)

-----------------------------------------------------------------------------
(* requireAuth.                                                            *)

\* Mutant: an entry is good for one more tick.
Kept_Late(e) == IF e # NoUser /\ e.expiresAt < clock + 1 THEN NoUser ELSE e
\* getCachedAuthUser drops an expired entry when it comes upon it; nothing
\* else looks at one, so it may as well be gone when it expires.
Kept(e) == IF e # NoUser /\ e.expiresAt <= clock + 1 THEN NoUser ELSE e

\* A request that is let in reads, or goes on to the routes of administrators.
LetIn(q, new) ==
  LET write == new.of # "get" /\ new.rights.role = "admin"
  IN /\ Step(q, IF ~write THEN Quiet
                ELSE [Quiet EXCEPT !.pc = IF new.of = "put" THEN "load" ELSE "insert",
                                   !.of = new.of, !.at = new.at, !.actor = new.actor])
     /\ OrderlyIf(write => Writing = {} /\ new.rights = users[new.actor])

\* authenticateAccessToken: the cache, or else findById.  The duplicate
\* check of POST /admin/users is part of the insertion, whose index repeats it.
Authenticate(q, n, a, of) ==
  LET new == [Quiet EXCEPT !.at = n, !.actor = a, !.of = of]
  IN /\ call[q].pc = "idle"
     /\ a \in loggedIn /\ <<n, a, of>> \in Routed
     /\ IF cached[n][a] # NoUser
        THEN /\ LetIn(q, [new EXCEPT !.rights = cached[n][a].rights])
             /\ UNCHANGED cached
        ELSE /\ Step(q, [new EXCEPT !.pc = "found", !.rights = users[a], !.readAt = clock])
             /\ UNCHANGED <<cached, orderly>>
     /\ UNCHANGED <<users, loggedIn, clock>>

\* The user arrives: a disabled one is refused, any other cached and let in.
UserFound(q) ==
  LET c == call[q]
  IN /\ c.pc = "found"
     /\ IF ~c.rights.active
        THEN Step(q, Quiet) /\ UNCHANGED <<cached, orderly>>
        ELSE /\ cached' = [cached EXCEPT ![c.at][c.actor] =
                  [rights |-> c.rights, expiresAt |-> clock + UserTTL, past |-> c.past]]
             /\ LetIn(q, c)
     /\ UNCHANGED <<users, loggedIn, clock>>

\* POST /auth/login; a token outlives the log-out, which only drops the cookie.
Login(a) ==
  /\ users[a].active
  /\ loggedIn' = loggedIn \cup {a}
  /\ UNCHANGED <<users, cached, call, clock, orderly>>

-----------------------------------------------------------------------------
(* Writes.                                                                 *)

\* PUT /admin/users/:id loads the user and changes its copy; nobody disables
\* himself.  save() will send the field that differs, if there is one.
Changed(r, c) ==
  CASE c = "disable" -> [r EXCEPT !.active = FALSE]
    [] c = "enable" -> [r EXCEPT !.active = TRUE]
    [] c = "promote" -> [r EXCEPT !.role = "admin"]
    [] c = "demote" -> [r EXCEPT !.role = "user"]
\* Mutant: nothing keeps an administrator from disabling himself.
Load_Self(q, t, c) ==
  LET new == Changed(users[t], c)
  IN /\ call[q].pc = "load"
     /\ Step(q, IF users[t] = Unknown THEN Quiet
                ELSE [call[q] EXCEPT !.pc = IF new = users[t] THEN "hook" ELSE "save",
                                     !.of = IF new = users[t] THEN "get" ELSE c, !.actor = t])
     /\ OrderlyIf(~(c = "demote" /\ t = call[q].actor))
     /\ UNCHANGED <<users, loggedIn, cached, clock>>
Load(q, t, c) ==
  LET new == Changed(users[t], c)
  IN /\ call[q].pc = "load"
     /\ Step(q, IF users[t] = Unknown \/ (c = "disable" /\ t = call[q].actor) THEN Quiet
                ELSE [call[q] EXCEPT !.pc = IF new = users[t] THEN "hook" ELSE "save",
                                     !.of = IF new = users[t] THEN "get" ELSE c, !.actor = t])
     /\ OrderlyIf(~(c = "demote" /\ t = call[q].actor))
     /\ UNCHANGED <<users, loggedIn, cached, clock>>

\* A write that has reached the database: every copy of t is outdated.
Put(q, t, rights) ==
  LET by == call[q].at
  IN /\ users' = [users EXCEPT ![t] = rights]
     /\ cached' = [n \in Processes |-> [a \in Accounts |->
          IF a # t \/ cached[n][a] = NoUser THEN cached[n][a] ELSE Late(cached[n][a], n, by)]]
     /\ call' = [x \in Calls |->
          CASE x = q -> [call[q] EXCEPT !.pc = "hook", !.of = "get", !.actor = t]
            [] x # q /\ call[x].pc = "found" /\ call[x].actor = t ->
                 Late(call[x], call[x].at, by)
            [] OTHER -> call[x]]
     /\ UNCHANGED <<loggedIn, clock>>

Save(q) ==
  /\ call[q].pc = "save"
  /\ Put(q, call[q].actor, Changed(users[call[q].actor], call[q].of))
  /\ UNCHANGED orderly

\* POST /auth/register counts the administrators before it inserts one.
Register(q, n) ==
  /\ call[q].pc = "idle"
  /\ \E a \in Accounts : <<n, a, "register">> \in Routed
  /\ Admins = {}
  /\ Step(q, [Quiet EXCEPT !.pc = "insert", !.of = "register", !.at = n])
  /\ OrderlyIf(Writing = {})
  /\ UNCHANGED <<users, loggedIn, cached, clock>>

\* save() of a new user, for an address that is free; else it throws.
Insert(q, t) ==
  /\ call[q].pc = "insert"
  /\ IF users[t] # Unknown
     THEN Step(q, Quiet) /\ UNCHANGED <<users, loggedIn, cached, clock>>
     ELSE \E role \in IF call[q].of = "register" THEN {"admin"} ELSE {"user", "admin"} :
            Put(q, t, [role |-> role, active |-> TRUE])
  /\ UNCHANGED orderly

\* Mutant: the hook of the model is missing.
Invalidate_Not(q) ==
  /\ call[q].pc = "hook"
  /\ Step(q, Quiet)
  /\ UNCHANGED <<users, loggedIn, cached, clock, orderly>>
\* The post-save hook, and the route once more, drop the entry of their
\* process; a look-up that has read the user stores it all the same.
Invalidate(q) ==
  LET c == call[q]
  IN /\ c.pc = "hook"
     /\ cached' = [cached EXCEPT ![c.at][c.actor] = NoUser]
     /\ call' = [x \in Calls |->
          CASE x = q -> Quiet
            [] call[x].pc = "found" /\ call[x].at = c.at /\ call[x].actor = c.actor ->
                 [call[x] EXCEPT !.past.why = "overtaken"]
            [] OTHER -> call[x]]
     /\ UNCHANGED <<users, loggedIn, clock, orderly>>

AuthTick ==
  /\ clock < MaxClock
  /\ \A q \in Calls : call[q].pc = "found" => clock < call[q].readAt + MaxQuery
  /\ clock' = clock + 1
  /\ cached' = [n \in Processes |-> [a \in Accounts |-> Kept(cached[n][a])]]
  /\ UNCHANGED <<users, loggedIn, call, orderly>>

-----------------------------------------------------------------------------
AuthInit ==
  /\ users = [a \in Accounts |-> Unknown]
  /\ loggedIn = {}
  /\ cached = [n \in Processes |-> [a \in Accounts |-> NoUser]]
  /\ call = [q \in Calls |-> Quiet]
  /\ clock = 0
  /\ orderly = TRUE

AuthNext ==
  \/ \E q \in Calls, n \in Processes :
       Register(q, n) \/ \E a \in Accounts, of \in {"get", "put", "post"} : Authenticate(q, n, a, of)
  \/ \E q \in Calls : UserFound(q) \/ Save(q) \/ Invalidate(q)
  \/ \E q \in Calls, t \in Accounts : Insert(q, t) \/ \E c \in Changes : Load(q, t, c)
  \/ \E a \in Accounts : Login(a)
  \/ AuthTick

AuthSpec == AuthInit /\ [][AuthNext]_authVars

-----------------------------------------------------------------------------
(* Properties.                                                             *)

(* The types of the state; no process caches a disabled user, since the    *)
(* look-up refuses it.                                                     *)
AuthTypeOK ==
  /\ users \in [Accounts -> Rights]
  /\ loggedIn \subseteq {a \in Accounts : users[a] # Unknown}
  /\ cached \in [Processes -> [Accounts -> UserEntry \cup {NoUser}]]
  /\ \A n \in Processes, a \in Accounts : cached[n][a] # NoUser =>
       cached[n][a].rights.active
  /\ call \in [Calls -> CallState]
  /\ \A q \in Calls : call[q].readAt <= clock
  /\ clock \in 0..MaxClock
  /\ orderly \in BOOLEAN

(* Rights that were taken away are gone everywhere after the lifetime of   *)
(* an entry and the time of one look-up, also if a look-up overtakes the   *)
(* invalidation; and in the process that served the change they go at once,*)
(* except in the entry of a look-up that was under way.                    *)
RightsTakeHold ==
  \A n \in Processes, a \in Accounts :
    cached[n][a] # NoUser /\ cached[n][a].rights # users[a] =>
      /\ clock < cached[n][a].past.since + UserTTL + MaxQuery
      /\ \/ cached[n][a].past.why # "none"
         \/ \E q \in Calls : call[q].pc = "hook" /\ call[q].at = n /\ call[q].actor = a

(* The system does not lock its administrators out: from the first         *)
(* registration on some active administrator is left, as long as writes of *)
(* administrators do not overlap, none is let in on rights the account has *)
(* lost, and none takes away his own role.                                 *)
AdministratorRemains ==
  orderly /\ (\E a \in Accounts : users[a] # Unknown) => \E a \in Admins : users[a].active
=============================================================================
