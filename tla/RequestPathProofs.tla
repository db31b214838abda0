-------------------------- MODULE RequestPathProofs --------------------------
(***************************************************************************)
(* What a request meets on its way: the users and their cache, the loader  *)
(* behind the dashboard, the SKU counter of the products, and the routes   *)
(* with their gates. The parts share no state; each has its own            *)
(* specification, but for the gates, which keep none.                      *)
(***************************************************************************)
EXTENDS AuthUsers, AccessRules, DashboardLoader, SkuSequence, WellFoundedInduction, TLAPS

-----------------------------------------------------------------------------
(* That rights which were taken away are gone in time, for any number of   *)
(* accounts, processes and requests, any lifetime and any query time.      *)

\* The <<process, account>> whose entries are about to be dropped.
Dropping == {d \in Processes \X Accounts :
               \E q \in Calls : call[q].pc = "hook" /\ <<call[q].at, call[q].actor>> = d}

(* A user that is to be saved is known, and a known user has a role.       *)
Known ==
  /\ \A a \in Accounts : users[a].role = "none" => users[a] = Unknown
  /\ \A q \in Calls : call[q].pc = "save" => call[q].of \in Changes /\ users[call[q].actor] # Unknown

(* A look-up does not last longer than MaxQuery, an entry not longer than  *)
(* its lifetime; neither shows what was outdated before it was read.       *)
Timely ==
  /\ \A q \in Calls : call[q].pc = "found" =>
       clock <= call[q].readAt + MaxQuery /\ call[q].readAt <= call[q].past.since
  /\ \A n \in Processes, a \in Accounts : cached[n][a] # NoUser =>
       LET e == cached[n][a]
       IN clock < e.expiresAt /\ e.expiresAt <= clock + UserTTL
            /\ e.expiresAt <= e.past.since + UserTTL + MaxQuery

(* A copy that differs from the user is about to be dropped, or its        *)
(* history says why it is not.                                             *)
Justified ==
  /\ \A n \in Processes, a \in Accounts : cached[n][a] # NoUser /\ cached[n][a].rights # users[a] =>
       cached[n][a].past.why # "none" \/ <<n, a>> \in Dropping
  /\ \A q \in Calls : call[q].pc = "found" /\ call[q].rights # users[call[q].actor] =>
       call[q].past.why # "none" \/ <<call[q].at, call[q].actor>> \in Dropping

AuthInv == AuthTypeOK /\ Known /\ Timely /\ Justified

-----------------------------------------------------------------------------
LEMMA QuietType == Quiet \in CallState /\ Quiet.pc = "idle" /\ Quiet.readAt = 0
BY AuthAssumption DEF Quiet, CallState, Rights, Unknown, Past, Fresh

LEMMA UnknownType == Unknown \in Rights /\ Unknown.role = "none" /\ Unknown.active = FALSE
BY DEF Unknown, Rights

LEMMA FreshType == Fresh \in Past /\ Fresh.since = MaxClock + 1
BY AuthAssumption DEF Fresh, Past

LEMMA AuthInitial == AuthInit => AuthInv
<1> SUFFICES ASSUME AuthInit PROVE AuthInv
  OBVIOUS
<1> USE QuietType, UnknownType, AuthAssumption
<1> HIDE DEF Quiet, Unknown
<1>1. AuthTypeOK
  BY DEF AuthInit, AuthTypeOK
<1>2. Known /\ Timely /\ Justified
  BY DEF AuthInit, Known, Timely, Justified
<1> QED
  BY <1>1, <1>2 DEF AuthInv

(* What a write makes of the history of a copy.                            *)
LEMMA OutdatedType ==
  ASSUME AuthTypeOK, NEW h \in Past, NEW n \in Processes, NEW by \in Processes
  PROVE  /\ Outdated(h, n, by) \in Past
         /\ Outdated(h, n, by).since = IF clock < h.since THEN clock ELSE h.since
         /\ n # by => Outdated(h, n, by).why = "elsewhere"
BY AuthAssumption DEF AuthTypeOK, Outdated, Past

(* A step of one request that writes nothing and is not the hook's.        *)
LEMMA CallStep ==
  ASSUME AuthInv, NEW q \in Calls, NEW k \in CallState,
         call' = [call EXCEPT ![q] = k], call[q].pc # "hook", k.readAt <= clock,
         k.pc = "save" => k.of \in Changes /\ users[k.actor] # Unknown,
         k.pc = "found" => k.rights = users[k.actor] /\ k.readAt = clock /\ k.past = Fresh,
         orderly' \in BOOLEAN, UNCHANGED <<users, loggedIn, cached, clock>>
  PROVE  AuthInv'
<1> USE FreshType, AuthAssumption
<1> HIDE DEF Fresh
<1>1. AuthTypeOK /\ Known /\ Timely /\ Justified
  BY DEF AuthInv
<1>2. call'[q] = k /\ \A x \in Calls \ {q} : call'[x] = call[x]
  BY <1>1 DEF AuthTypeOK
<1>3. \A n, a : <<n, a>> \in Dropping => <<n, a>> \in Dropping'
  BY <1>2 DEF Dropping
<1>4. AuthTypeOK'
  BY <1>1, <1>2 DEF AuthTypeOK
<1>5. Known'
  BY <1>1, <1>2 DEF Known
<1>6. Timely'
  <2>1. k.pc = "found" => clock <= k.readAt + MaxQuery /\ k.readAt <= k.past.since
    BY <1>1 DEF AuthTypeOK
  <2> QED
    BY <1>1, <1>2, <2>1 DEF Timely
<1>7. Justified'
  <2>1. \A x \in Calls : call'[x].pc = "found" /\ call'[x].rights # users[call'[x].actor] =>
          x # q
    BY <1>2
  <2> QED
    BY <1>1, <1>2, <1>3, <2>1 DEF Justified
<1> QED
  BY <1>4, <1>5, <1>6, <1>7 DEF AuthInv

(* Being let in leaves a request at rest or on its way to a write.         *)
LEMMA LetInStep ==
  ASSUME AuthTypeOK, NEW q \in Calls, NEW new \in CallState, LetIn(q, new)
  PROVE  /\ orderly' \in BOOLEAN
         /\ \E k \in CallState : /\ k.pc \in {"idle", "load", "insert"} /\ k.readAt = 0
                                /\ call' = [call EXCEPT ![q] = k]
<1> USE QuietType
<1> HIDE DEF Quiet
<1>1. orderly' \in BOOLEAN
  BY DEF LetIn, OrderlyIf, AuthTypeOK
<1> DEFINE k == [Quiet EXCEPT !.pc = IF new.of = "put" THEN "load" ELSE "insert",
                              !.of = new.of, !.at = new.at, !.actor = new.actor]
<1>2. k \in CallState /\ k.pc \in {"load", "insert"} /\ k.readAt = 0
  BY DEF CallState
<1> HIDE DEF k
<1>3. call' = [call EXCEPT ![q] = Quiet] \/ call' = [call EXCEPT ![q] = k]
  BY DEF LetIn, Step, k
<1> QED
  BY <1>1, <1>2, <1>3

(* Put leaves the hook of the writing process pending.                     *)
LEMMA PutStep ==
  ASSUME AuthInv, NEW q \in Calls, NEW t \in Accounts, NEW rights \in Rights,
         Put(q, t, rights), call[q].pc \in {"save", "insert"}, rights.role # "none",
         orderly' \in BOOLEAN
  PROVE  AuthInv'
<1> USE FreshType, UnknownType, AuthAssumption
<1> HIDE DEF Fresh, Unknown
<1>1. AuthTypeOK /\ Known /\ Timely /\ Justified
  BY DEF AuthInv
<1> DEFINE by == call[q].at
           k == [call[q] EXCEPT !.pc = "hook", !.of = "get", !.actor = t]
<1>2. call[q] \in CallState /\ by \in Processes /\ clock \in Nat /\ clock <= MaxClock
  BY <1>1 DEF AuthTypeOK, CallState
<1>3. k \in CallState /\ k.pc = "hook" /\ k.at = by /\ k.actor = t /\ k.readAt = call[q].readAt
  BY <1>2 DEF CallState
<1>4. users' = [users EXCEPT ![t] = rights] /\ UNCHANGED <<loggedIn, clock>>
  BY DEF Put
<1>5. users'[t] = rights /\ (\A a \in Accounts \ {t} : users'[a] = users[a]) /\ users' \in [Accounts -> Rights]
  BY <1>1, <1>4 DEF AuthTypeOK
<1> DEFINE tooLate(e, n) == Late(e, n, by)
<1>6. ASSUME NEW n \in Processes, NEW a \in Accounts
      PROVE  cached'[n][a] = IF a # t \/ cached[n][a] = NoUser THEN cached[n][a] ELSE tooLate(cached[n][a], n)
  BY DEF Put
<1>7. ASSUME NEW x \in Calls \ {q}
      PROVE  call'[x] = IF call[x].pc = "found" /\ call[x].actor = t THEN tooLate(call[x], call[x].at) ELSE call[x]
  BY <1>7 DEF Put
<1>8. call'[q] = k /\ call' = [x \in Calls |-> call'[x]]
  BY DEF Put
\* An outdated copy is what it was but for its history.
<1>9. ASSUME NEW e \in UserEntry, NEW n \in Processes
      PROVE  /\ tooLate(e, n) \in UserEntry /\ tooLate(e, n).rights = e.rights /\ tooLate(e, n).expiresAt = e.expiresAt
             /\ tooLate(e, n).past.since = IF clock < e.past.since THEN clock ELSE e.past.since
             /\ n # by => tooLate(e, n).past.why = "elsewhere"
  <2>1. e.past \in Past
    BY DEF UserEntry
  <2>2. /\ Outdated(e.past, n, by) \in Past
        /\ Outdated(e.past, n, by).since = IF clock < e.past.since THEN clock ELSE e.past.since
        /\ n # by => Outdated(e.past, n, by).why = "elsewhere"
    BY <1>1, <1>2, <2>1, OutdatedType
  <2> QED
    BY <2>2 DEF UserEntry, Late
<1>10. ASSUME NEW c \in CallState
       PROVE  /\ tooLate(c, c.at) \in CallState /\ tooLate(c, c.at).rights = c.rights /\ tooLate(c, c.at).readAt = c.readAt
              /\ tooLate(c, c.at).pc = c.pc /\ tooLate(c, c.at).at = c.at /\ tooLate(c, c.at).actor = c.actor
              /\ tooLate(c, c.at).of = c.of
              /\ tooLate(c, c.at).past.since = IF clock < c.past.since THEN clock ELSE c.past.since
              /\ c.at # by => tooLate(c, c.at).past.why = "elsewhere"
  <2>1. c.past \in Past /\ c.at \in Processes
    BY DEF CallState
  <2>2. /\ Outdated(c.past, c.at, by) \in Past
        /\ Outdated(c.past, c.at, by).since = IF clock < c.past.since THEN clock ELSE c.past.since
        /\ c.at # by => Outdated(c.past, c.at, by).why = "elsewhere"
    BY <1>1, <1>2, <2>1, OutdatedType
  <2> QED
    BY <2>2 DEF CallState, Late
<1> HIDE DEF k, tooLate
<1>11. \A x \in Calls : call'[x] \in CallState /\ call'[x].readAt = call[x].readAt
  BY <1>1, <1>3, <1>7, <1>8, <1>10 DEF AuthTypeOK
<1>12. \A x \in Calls \ {q} : call'[x].pc = call[x].pc /\ call'[x].at = call[x].at /\ call'[x].of = call[x].of
                               /\ call'[x].actor = call[x].actor /\ call'[x].rights = call[x].rights
  BY <1>1, <1>7, <1>10 DEF AuthTypeOK
<1>13. \A n \in Processes, a \in Accounts : cached'[n][a] # NoUser => cached[n][a] # NoUser /\ cached[n][a] \in UserEntry
  BY <1>1, <1>6 DEF AuthTypeOK
<1>14. AuthTypeOK'
  <2>1. cached' = [n \in Processes |-> cached'[n]] /\ \A n \in Processes : cached'[n] = [a \in Accounts |-> cached'[n][a]]
    <3>1. \A n \in Processes : cached[n] \in [Accounts -> UserEntry \cup {NoUser}]
      BY <1>1 DEF AuthTypeOK
    <3> QED
      BY <3>1 DEF Put
  <2>2. ASSUME NEW n \in Processes, NEW a \in Accounts
        PROVE  /\ cached'[n][a] \in UserEntry \cup {NoUser}
               /\ cached'[n][a] # NoUser => cached'[n][a].rights.active
    BY <1>1, <1>6, <1>9, <1>13 DEF AuthTypeOK
  <2>3. \A a \in Accounts : users[a] # Unknown => users'[a] # Unknown
    BY <1>5
  <2> QED
    BY <1>1, <1>4, <1>5, <1>8, <1>11, <2>1, <2>2, <2>3 DEF AuthTypeOK
<1>15. Known'
  <2>1. \A a \in Accounts : users[a] # Unknown => users'[a] # Unknown
    BY <1>5
  <2>2. \A x \in Calls : call'[x].pc = "save" => x # q
    BY <1>3, <1>8
  <2>3. \A x \in Calls : call[x].actor \in Accounts
    BY <1>1 DEF AuthTypeOK, CallState
  <2> QED
    BY <1>1, <1>5, <1>12, <2>1, <2>2, <2>3 DEF Known
<1>16. Timely'
  <2>1. ASSUME NEW x \in Calls, call'[x].pc = "found"
        PROVE  clock <= call'[x].readAt + MaxQuery /\ call'[x].readAt <= call'[x].past.since
    <3>1. x # q /\ call[x].pc = "found" /\ call[x] \in CallState /\ call[x].readAt <= clock
      BY <1>1, <1>3, <1>8, <1>12, <2>1 DEF AuthTypeOK
    <3>2. clock <= call[x].readAt + MaxQuery /\ call[x].readAt <= call[x].past.since
      BY <1>1, <3>1 DEF Timely
    <3>3. call'[x] = call[x] \/ call'[x].past.since = IF clock < call[x].past.since THEN clock ELSE call[x].past.since
      BY <1>7, <1>10, <3>1
    <3> QED
      BY <1>11, <3>1, <3>2, <3>3
  <2>2. ASSUME NEW n \in Processes, NEW a \in Accounts, cached'[n][a] # NoUser
        PROVE  /\ clock < cached'[n][a].expiresAt /\ cached'[n][a].expiresAt <= clock + UserTTL
               /\ cached'[n][a].expiresAt <= cached'[n][a].past.since + UserTTL + MaxQuery
    <3> DEFINE e == cached[n][a]
    <3>1. e # NoUser /\ e \in UserEntry
      BY <1>13, <2>2
    <3>2. /\ clock < e.expiresAt /\ e.expiresAt <= clock + UserTTL
          /\ e.expiresAt <= e.past.since + UserTTL + MaxQuery
      BY <1>1, <3>1 DEF Timely
    <3>3. cached'[n][a] = e \/ cached'[n][a] = tooLate(e, n)
      BY <1>6
    <3>4. e.expiresAt \in Nat
      BY <3>1 DEF UserEntry
    <3> HIDE DEF e
    <3>5. tooLate(e, n).expiresAt = e.expiresAt
          /\ tooLate(e, n).past.since = IF clock < e.past.since THEN clock ELSE e.past.since
      BY <1>9, <3>1
    <3> QED
      BY <1>2, <3>2, <3>3, <3>4, <3>5
  <2> QED
    BY <1>4, <2>1, <2>2 DEF Timely
<1>17. Justified'
  <2>1. <<by, t>> \in Dropping'
    BY <1>2, <1>3, <1>8 DEF Dropping
  <2>2. \A n, a : <<n, a>> \in Dropping => <<n, a>> \in Dropping'
    BY <1>12 DEF Dropping
  <2>3. ASSUME NEW n \in Processes, NEW a \in Accounts,
               cached'[n][a] # NoUser, cached'[n][a].rights # users'[a]
        PROVE  cached'[n][a].past.why # "none" \/ <<n, a>> \in Dropping'
    <3>1. cached[n][a] # NoUser /\ cached[n][a] \in UserEntry
      BY <1>13, <2>3
    <3>2. CASE a # t
      BY <1>1, <1>5, <1>6, <2>2, <2>3, <3>1, <3>2 DEF Justified
    <3>3. CASE a = t /\ n = by
      BY <2>1, <3>3
    <3>4. CASE a = t /\ n # by
      <4>1. cached'[n][a].past.why = "elsewhere"
        BY <1>6, <1>9, <3>1, <3>4
      <4> QED
        BY <4>1
    <3> QED
      BY <3>2, <3>3, <3>4
  <2>4. ASSUME NEW x \in Calls, call'[x].pc = "found", call'[x].rights # users'[call'[x].actor]
        PROVE  call'[x].past.why # "none" \/ <<call'[x].at, call'[x].actor>> \in Dropping'
    <3>1. x # q /\ call[x].pc = "found" /\ call[x] \in CallState
      BY <1>1, <1>3, <1>8, <1>12, <2>4 DEF AuthTypeOK
    <3>2. CASE call[x].actor # t
      <4>1. call'[x] = call[x] /\ call[x].actor \in Accounts /\ call[x].rights # users[call[x].actor]
        BY <1>5, <1>7, <2>4, <3>1, <3>2 DEF CallState
      <4> QED
        BY <1>1, <2>2, <3>1, <4>1 DEF Justified
    <3>3. CASE call[x].actor = t /\ call[x].at = by
      BY <1>12, <2>1, <3>1, <3>3
    <3>4. CASE call[x].actor = t /\ call[x].at # by
      <4>1. call'[x].past.why = "elsewhere"
        BY <1>7, <1>10, <3>1, <3>4
      <4> QED
        BY <4>1
    <3> QED
      BY <3>2, <3>3, <3>4
  <2> QED
    BY <2>3, <2>4 DEF Justified
<1> QED
  BY <1>14, <1>15, <1>16, <1>17 DEF AuthInv

LEMMA AuthStep == AuthInv /\ [AuthNext]_authVars => AuthInv'
<1> SUFFICES ASSUME AuthInv, [AuthNext]_authVars PROVE AuthInv'
  OBVIOUS
<1> USE QuietType, UnknownType, FreshType, AuthAssumption
<1> HIDE DEF Quiet, Unknown, Fresh
<1>1. AuthTypeOK /\ Known /\ Timely /\ Justified
  BY DEF AuthInv
<1>2. clock \in Nat /\ \A q \in Calls : call[q] \in CallState
  BY <1>1 DEF AuthTypeOK
<1>3. ASSUME NEW q \in Calls, NEW n \in Processes, Register(q, n) PROVE AuthInv'
  <2> DEFINE k == [Quiet EXCEPT !.pc = "insert", !.of = "register", !.at = n]
  <2>1. k \in CallState /\ k.pc = "insert" /\ k.readAt = 0
    BY DEF CallState
  <2> HIDE DEF k
  <2>2. call' = [call EXCEPT ![q] = k] /\ call[q].pc = "idle" /\ orderly' \in BOOLEAN
        /\ UNCHANGED <<users, loggedIn, cached, clock>>
    BY <1>1, <1>3 DEF Register, Step, OrderlyIf, k, AuthTypeOK
  <2>3. k.readAt <= clock
    BY <1>2, <2>1
  <2> QED
    BY <2>1, <2>2, <2>3, CallStep
<1>4. ASSUME NEW q \in Calls, NEW n \in Processes, NEW a \in Accounts, NEW of \in {"get", "put", "post"},
             Authenticate(q, n, a, of)
      PROVE  AuthInv'
  <2> DEFINE new == [Quiet EXCEPT !.at = n, !.actor = a, !.of = of]
  <2>1. new \in CallState /\ new.past = Quiet.past /\ new.readAt = 0
    BY DEF CallState
  <2>2. new.past = Fresh /\ new.actor = a
    BY <2>1 DEF Quiet
  <2>3. UNCHANGED <<users, loggedIn, cached, clock>> /\ call[q].pc = "idle"
    BY <1>4 DEF Authenticate
  <2>4. CASE cached[n][a] # NoUser
    <3> DEFINE k == [new EXCEPT !.rights = cached[n][a].rights]
    <3>1. cached[n][a].rights \in Rights
      BY <1>1, <2>4 DEF AuthTypeOK, UserEntry
    <3>2. k \in CallState
      BY <2>1, <3>1 DEF CallState
    <3>3. LetIn(q, k)
      BY <1>4, <2>4 DEF Authenticate
    <3> HIDE DEF k
    <3> QED
      BY <1>1, <1>2, <2>3, <3>2, <3>3, LetInStep, CallStep
  <2>5. CASE cached[n][a] = NoUser
    <3> DEFINE k == [new EXCEPT !.pc = "found", !.rights = users[a], !.readAt = clock]
    <3>1. /\ k \in CallState /\ k.pc = "found" /\ k.rights = users[a] /\ k.actor = a
          /\ k.readAt = clock /\ k.past = Fresh
      BY <1>1, <1>2, <2>1, <2>2 DEF CallState, AuthTypeOK
    <3>2. call' = [call EXCEPT ![q] = k] /\ orderly' = orderly
      BY <1>4, <2>5 DEF Authenticate, Step
    <3> HIDE DEF k
    <3>3. orderly' \in BOOLEAN
      BY <1>1, <3>2 DEF AuthTypeOK
    <3>4. k.readAt <= clock
      BY <1>2, <3>1
    <3> QED
      BY <2>3, <3>1, <3>2, <3>3, <3>4, CallStep
  <2> QED
    BY <2>4, <2>5
<1>5. ASSUME NEW q \in Calls, UserFound(q) PROVE AuthInv'
  <2> DEFINE c == call[q]
  <2>1. c \in CallState /\ c.pc = "found" /\ c.at \in Processes /\ c.actor \in Accounts
        /\ c.rights \in Rights /\ c.past \in Past /\ UNCHANGED <<users, loggedIn, clock>>
    BY <1>2, <1>5 DEF UserFound, CallState
  <2>2. CASE ~c.rights.active
    <3>1. call' = [call EXCEPT ![q] = Quiet] /\ UNCHANGED <<cached, orderly>>
      BY <1>5, <2>2 DEF UserFound, Step
    <3>2. orderly' \in BOOLEAN
      BY <1>1, <3>1 DEF AuthTypeOK
    <3>3. Quiet.readAt <= clock
      BY <1>2
    <3> QED
      BY <2>1, <3>1, <3>2, <3>3, CallStep
  <2>3. CASE c.rights.active
    <3> DEFINE e == [rights |-> c.rights, expiresAt |-> clock + UserTTL, past |-> c.past]
    <3>1. e \in UserEntry /\ e.rights.active /\ e.rights = c.rights /\ e.past = c.past
          /\ e.expiresAt = clock + UserTTL
      BY <1>2, <2>1, <2>3 DEF UserEntry
    <3>2. cached' = [cached EXCEPT ![c.at][c.actor] = e] /\ LetIn(q, c)
      BY <1>5, <2>3 DEF UserFound
    <3>3. clock <= c.readAt + MaxQuery /\ c.readAt <= c.past.since
      BY <1>1, <2>1 DEF Timely
    <3>4. c.rights # users[c.actor] => c.past.why # "none" \/ <<c.at, c.actor>> \in Dropping
      BY <1>1, <2>1 DEF Justified
    <3>5. c.readAt \in Nat /\ c.past.since \in Nat
      BY <2>1 DEF CallState, Past
    <3> HIDE DEF e
    <3>6. PICK k \in CallState : /\ k.pc \in {"idle", "load", "insert"} /\ k.readAt = 0
                                 /\ call' = [call EXCEPT ![q] = k]
      BY <1>1, <2>1, <3>2, LetInStep
    <3>7. orderly' \in BOOLEAN
      BY <1>1, <2>1, <3>2, LetInStep
    <3> HIDE DEF c
    <3>8. call'[q] = k /\ (\A x \in Calls \ {q} : call'[x] = call[x]) /\ call' \in [Calls -> CallState]
      BY <1>1, <3>6 DEF AuthTypeOK
    <3>9. /\ cached' \in [Processes -> [Accounts -> UserEntry \cup {NoUser}]]
          /\ cached'[c.at][c.actor] = e
          /\ \A n \in Processes, a \in Accounts : n # c.at \/ a # c.actor => cached'[n][a] = cached[n][a]
      BY <1>1, <2>1, <3>1, <3>2 DEF AuthTypeOK
    <3>10. \A n, a : <<n, a>> \in Dropping => <<n, a>> \in Dropping'
      BY <2>1, <3>8 DEF Dropping, c
    <3>11. AuthTypeOK'
      BY <1>1, <1>2, <2>1, <3>1, <3>6, <3>7, <3>8, <3>9 DEF AuthTypeOK
    <3>12. Known'
      BY <1>1, <2>1, <3>6, <3>8 DEF Known
    <3>13. Timely'
      <4>1. \A x \in Calls : call'[x].pc = "found" =>
              clock <= call'[x].readAt + MaxQuery /\ call'[x].readAt <= call'[x].past.since
        BY <1>1, <3>6, <3>8 DEF Timely
      <4>2. /\ clock < e.expiresAt /\ e.expiresAt <= clock + UserTTL
            /\ e.expiresAt <= e.past.since + UserTTL + MaxQuery
        BY <1>2, <3>1, <3>3, <3>5
      <4> QED
        BY <1>1, <2>1, <3>9, <4>1, <4>2 DEF Timely
    <3>14. Justified'
      <4>1. ASSUME NEW n \in Processes, NEW a \in Accounts,
                   cached'[n][a] # NoUser, cached'[n][a].rights # users'[a]
            PROVE  cached'[n][a].past.why # "none" \/ <<n, a>> \in Dropping'
        <5>1. CASE n = c.at /\ a = c.actor
          BY <2>1, <3>1, <3>4, <3>9, <3>10, <4>1, <5>1
        <5>2. CASE n # c.at \/ a # c.actor
          BY <1>1, <2>1, <3>9, <3>10, <4>1, <5>2 DEF Justified
        <5> QED
          BY <5>1, <5>2
      <4>2. \A x \in Calls : call'[x].pc = "found" => x # q
        BY <3>6, <3>8
      <4> QED
        BY <1>1, <2>1, <3>8, <3>10, <4>1, <4>2 DEF Justified
    <3> QED
      BY <3>11, <3>12, <3>13, <3>14 DEF AuthInv
  <2> QED
    BY <2>2, <2>3
<1>6. ASSUME NEW q \in Calls, Save(q) PROVE AuthInv'
  <2> DEFINE t == call[q].actor
             rights == Changed(users[t], call[q].of)
  <2>1. call[q].pc = "save" /\ Put(q, t, rights) /\ orderly' = orderly
    BY <1>6 DEF Save
  <2>2. t \in Accounts /\ call[q].of \in Changes /\ users[t] \in Rights /\ users[t].role # "none"
    BY <1>1, <1>2, <2>1 DEF Known, CallState, AuthTypeOK
  <2>3. rights \in Rights /\ rights.role # "none"
    BY <2>2 DEF Changed, Changes, Rights
  <2>4. orderly' \in BOOLEAN
    BY <1>1, <2>1 DEF AuthTypeOK
  <2> HIDE DEF t, rights
  <2> QED
    BY <2>1, <2>2, <2>3, <2>4, PutStep
<1>7. ASSUME NEW q \in Calls, NEW t \in Accounts, Insert(q, t) PROVE AuthInv'
  <2>1. call[q].pc = "insert" /\ orderly' \in BOOLEAN
    BY <1>1, <1>7 DEF Insert, AuthTypeOK
  <2>2. CASE users[t] # Unknown
    BY <1>2, <1>7, <2>1, <2>2, CallStep DEF Insert, Step
  <2>3. CASE users[t] = Unknown
    <3>1. PICK role \in {"user", "admin"} : Put(q, t, [role |-> role, active |-> TRUE])
      BY <1>7, <2>3 DEF Insert
    <3> DEFINE rights == [role |-> role, active |-> TRUE]
    <3>2. rights \in Rights /\ rights.role # "none"
      BY DEF Rights
    <3>3. Put(q, t, rights)
      BY <3>1
    <3> HIDE DEF rights
    <3> QED
      BY <2>1, <3>2, <3>3, PutStep
  <2> QED
    BY <2>2, <2>3
<1>8. ASSUME NEW q \in Calls, NEW t \in Accounts, NEW c \in Changes, Load(q, t, c) PROVE AuthInv'
  <2> DEFINE hook == [call[q] EXCEPT !.pc = "hook", !.of = "get", !.actor = t]
             save == [call[q] EXCEPT !.pc = "save", !.of = c, !.actor = t]
  <2>1. /\ hook \in CallState /\ hook.pc = "hook" /\ hook.readAt = call[q].readAt
        /\ save \in CallState /\ save.pc = "save" /\ save.readAt = call[q].readAt /\ save.of = c /\ save.actor = t
    BY <1>2 DEF CallState
  <2>2. call[q].pc = "load" /\ orderly' \in BOOLEAN /\ UNCHANGED <<users, loggedIn, cached, clock>>
        /\ call[q].readAt <= clock
    BY <1>1, <1>8 DEF Load, OrderlyIf, AuthTypeOK
  <2>3. \/ call' = [call EXCEPT ![q] = Quiet]
        \/ call' = [call EXCEPT ![q] = hook]
        \/ call' = [call EXCEPT ![q] = save] /\ users[t] # Unknown
    BY <1>8 DEF Load, Step
  <2> HIDE DEF hook, save
  <2> QED
    BY <1>2, <2>1, <2>2, <2>3, CallStep
<1>9. ASSUME NEW q \in Calls, Invalidate(q) PROVE AuthInv'
  <2> DEFINE c == call[q]
             m == c.at
             b == c.actor
  <2>1. c.pc = "hook" /\ m \in Processes /\ b \in Accounts /\ UNCHANGED <<users, loggedIn, clock, orderly>>
    BY <1>2, <1>9 DEF Invalidate, CallState
  <2> DEFINE tooLate(x) == [call[x] EXCEPT !.past.why = "overtaken"]
             Overtaken(x) == call[x].pc = "found" /\ call[x].at = m /\ call[x].actor = b
  <2>2. call'[q] = Quiet /\ call' = [x \in Calls |-> call'[x]]
    BY <1>9 DEF Invalidate
  <2>3. \A x \in Calls \ {q} : call'[x] = IF Overtaken(x) THEN tooLate(x) ELSE call[x]
    BY <1>9 DEF Invalidate
  <2>4. ASSUME NEW x \in Calls
        PROVE  /\ tooLate(x) \in CallState /\ tooLate(x).past.why = "overtaken" /\ tooLate(x).past.since = call[x].past.since
               /\ tooLate(x).pc = call[x].pc /\ tooLate(x).of = call[x].of /\ tooLate(x).at = call[x].at
               /\ tooLate(x).actor = call[x].actor /\ tooLate(x).rights = call[x].rights /\ tooLate(x).readAt = call[x].readAt
    <3>1. call[x] \in CallState /\ call[x].past \in Past
      BY <1>2 DEF CallState
    <3>2. [call[x].past EXCEPT !.why = "overtaken"] \in Past
      BY <3>1 DEF Past
    <3> QED
      BY <3>1, <3>2 DEF CallState, Past
  <2>5. /\ cached' \in [Processes -> [Accounts -> UserEntry \cup {NoUser}]]
        /\ cached'[m][b] = NoUser
        /\ \A n \in Processes, a \in Accounts : n # m \/ a # b => cached'[n][a] = cached[n][a]
    <3>1. cached' = [cached EXCEPT ![m][b] = NoUser]
      BY <1>9 DEF Invalidate
    <3> QED
      BY <1>1, <2>1, <3>1 DEF AuthTypeOK
  <2> HIDE DEF tooLate
  <2>6. \A x \in Calls \ {q} : /\ call'[x] \in CallState /\ call'[x].past.since = call[x].past.since
                               /\ call'[x].pc = call[x].pc /\ call'[x].of = call[x].of /\ call'[x].at = call[x].at
                               /\ call'[x].actor = call[x].actor /\ call'[x].rights = call[x].rights
                               /\ call'[x].readAt = call[x].readAt
    BY <1>2, <2>3, <2>4
  <2>7. \A n, a : <<n, a>> \in Dropping /\ (n # m \/ a # b) => <<n, a>> \in Dropping'
    BY <2>6 DEF Dropping
  <2>8. AuthTypeOK'
    <3>1. \A x \in Calls : call'[x] \in CallState /\ call'[x].readAt <= clock
      BY <1>1, <1>2, <2>2, <2>6 DEF AuthTypeOK
    <3>2. \A n \in Processes, a \in Accounts : cached'[n][a] # NoUser => cached'[n][a].rights.active
      BY <1>1, <2>5 DEF AuthTypeOK
    <3> QED
      BY <1>1, <2>1, <2>2, <2>5, <3>1, <3>2 DEF AuthTypeOK
  <2>9. Known'
    BY <1>1, <2>1, <2>2, <2>6 DEF Known
  <2>10. Timely'
    BY <1>1, <2>1, <2>2, <2>5, <2>6 DEF Timely
  <2>11. Justified'
    <3>1. ASSUME NEW n \in Processes, NEW a \in Accounts, cached'[n][a] # NoUser, cached'[n][a].rights # users'[a]
          PROVE  cached'[n][a].past.why # "none" \/ <<n, a>> \in Dropping'
      <4>1. (n # m \/ a # b) /\ cached'[n][a] = cached[n][a]
        BY <2>5, <3>1
      <4>2. cached[n][a].past.why # "none" \/ <<n, a>> \in Dropping
        BY <1>1, <2>1, <3>1, <4>1 DEF Justified
      <4> QED
        BY <2>7, <4>1, <4>2
    <3>2. ASSUME NEW x \in Calls, call'[x].pc = "found", call'[x].rights # users'[call'[x].actor]
          PROVE  call'[x].past.why # "none" \/ <<call'[x].at, call'[x].actor>> \in Dropping'
      <4>1. x # q /\ call[x].pc = "found"
        BY <2>2, <2>6, <3>2
      <4>2. CASE Overtaken(x)
        <5>1. call'[x].past.why = "overtaken"
          BY <2>3, <2>4, <4>1, <4>2
        <5> QED
          BY <5>1
      <4>3. CASE ~Overtaken(x)
        <5>1. call'[x] = call[x] /\ (call[x].at # m \/ call[x].actor # b)
          BY <2>3, <4>1, <4>3
        <5>2. call[x].past.why # "none" \/ <<call[x].at, call[x].actor>> \in Dropping
          BY <1>1, <2>1, <3>2, <4>1, <5>1 DEF Justified
        <5> QED
          BY <2>7, <5>1, <5>2
      <4> QED
        BY <4>2, <4>3
    <3> QED
      BY <3>1, <3>2 DEF Justified
  <2> QED
    BY <2>8, <2>9, <2>10, <2>11 DEF AuthInv
<1>10. ASSUME NEW a \in Accounts, Login(a) PROVE AuthInv'
  <2>1. users[a] # Unknown /\ loggedIn' = loggedIn \cup {a} /\ UNCHANGED <<users, cached, call, clock, orderly>>
    BY <1>10 DEF Login
  <2>2. AuthTypeOK'
    BY <1>1, <2>1 DEF AuthTypeOK
  <2> QED
    BY <1>1, <2>1, <2>2 DEF AuthInv, Known, Timely, Justified, Dropping
<1>11. ASSUME AuthTick PROVE AuthInv'
  <2>1. clock' = clock + 1 /\ clock < MaxClock /\ UNCHANGED <<users, loggedIn, call, orderly>>
    BY <1>11 DEF AuthTick
  <2>2. \A n \in Processes, a \in Accounts :
          cached'[n][a] = IF cached[n][a] # NoUser /\ cached[n][a].expiresAt <= clock + 1 THEN NoUser ELSE cached[n][a]
    BY <1>11 DEF AuthTick, Kept
  <2>3. \A n \in Processes, a \in Accounts : cached'[n][a] # NoUser =>
          /\ cached[n][a] # NoUser /\ cached'[n][a] = cached[n][a] /\ cached[n][a] \in UserEntry
          /\ ~(cached[n][a].expiresAt <= clock + 1)
    BY <1>1, <2>2 DEF AuthTypeOK
  <2>4. AuthTypeOK'
    <3>1. cached' \in [Processes -> [Accounts -> UserEntry \cup {NoUser}]]
      BY <1>1, <1>11 DEF AuthTick, Kept, AuthTypeOK
    <3>2. \A q \in Calls : call[q].readAt \in Nat /\ call[q].readAt <= clock
      BY <1>1, <1>2 DEF AuthTypeOK, CallState
    <3>3. \A q \in Calls : call'[q].readAt <= clock'
      BY <1>2, <2>1, <3>2
    <3>4. clock' \in 0..MaxClock
      BY <1>2, <2>1
    <3>5. \A n \in Processes, a \in Accounts : cached'[n][a] # NoUser => cached'[n][a].rights.active
      BY <1>1, <2>3 DEF AuthTypeOK
    <3> QED
      BY <1>1, <2>1, <3>1, <3>3, <3>4, <3>5 DEF AuthTypeOK
  <2>5. Timely'
    <3>1. ASSUME NEW q \in Calls, call[q].pc = "found"
          PROVE  clock + 1 <= call[q].readAt + MaxQuery /\ call[q].readAt <= call[q].past.since
      <4>1. clock < call[q].readAt + MaxQuery /\ call[q].readAt \in Nat
        BY <1>2, <1>11, <3>1 DEF AuthTick, CallState
      <4> QED
        BY <1>1, <1>2, <3>1, <4>1 DEF Timely
    <3>2. ASSUME NEW n \in Processes, NEW a \in Accounts, cached'[n][a] # NoUser
          PROVE  /\ clock + 1 < cached'[n][a].expiresAt /\ cached'[n][a].expiresAt <= clock + 1 + UserTTL
                 /\ cached'[n][a].expiresAt <= cached'[n][a].past.since + UserTTL + MaxQuery
      <4> DEFINE e == cached[n][a]
      <4>1. e # NoUser /\ cached'[n][a] = e /\ e.expiresAt \in Nat /\ ~(e.expiresAt <= clock + 1)
        BY <2>3, <3>2 DEF UserEntry
      <4>2. e.expiresAt <= clock + UserTTL /\ e.expiresAt <= e.past.since + UserTTL + MaxQuery
        BY <1>1, <4>1 DEF Timely
      <4> HIDE DEF e
      <4> QED
        BY <1>2, <4>1, <4>2
    <3> QED
      BY <2>1, <3>1, <3>2 DEF Timely
  <2>6. Known' /\ Justified'
    BY <1>1, <2>1, <2>3 DEF Known, Justified, Dropping
  <2> QED
    BY <2>4, <2>5, <2>6 DEF AuthInv
<1>12. CASE UNCHANGED authVars
  BY <1>1, <1>12 DEF AuthInv, AuthTypeOK, Known, Timely, Justified, Dropping, authVars
<1> QED
  BY <1>3, <1>4, <1>5, <1>6, <1>7, <1>8, <1>9, <1>10, <1>11, <1>12 DEF AuthNext

LEMMA JustifiedHolds == AuthInv => RightsTakeHold
<1>1. ASSUME AuthInv, NEW n \in Processes, NEW a \in Accounts,
             cached[n][a] # NoUser, cached[n][a].rights # users[a]
      PROVE  /\ clock < cached[n][a].past.since + UserTTL + MaxQuery
             /\ cached[n][a].past.why # "none" \/ <<n, a>> \in Dropping
  <2> DEFINE e == cached[n][a]
  <2>1. e \in UserEntry /\ clock \in Nat
    BY <1>1, AuthAssumption DEF AuthInv, AuthTypeOK
  <2>2. clock < e.expiresAt /\ e.expiresAt <= e.past.since + UserTTL + MaxQuery
    BY <1>1 DEF AuthInv, Timely
  <2>3. e.past.why # "none" \/ <<n, a>> \in Dropping
    BY <1>1 DEF AuthInv, Justified
  <2>4. e.expiresAt \in Nat /\ e.past.since \in Nat
    BY <2>1, AuthAssumption DEF UserEntry, Past
  <2> QED
    BY <2>1, <2>2, <2>3, <2>4, AuthAssumption
<1> SUFFICES ASSUME AuthInv, NEW n \in Processes, NEW a \in Accounts,
                    cached[n][a] # NoUser, cached[n][a].rights # users[a]
             PROVE  /\ clock < cached[n][a].past.since + UserTTL + MaxQuery
                    /\ \/ cached[n][a].past.why # "none"
                       \/ \E q \in Calls : call[q].pc = "hook" /\ call[q].at = n /\ call[q].actor = a
  BY DEF RightsTakeHold
<1>2. <<n, a>> \in Dropping => \E q \in Calls : call[q].pc = "hook" /\ call[q].at = n /\ call[q].actor = a
  BY DEF Dropping
<1>3. /\ clock < cached[n][a].past.since + UserTTL + MaxQuery
      /\ cached[n][a].past.why # "none" \/ <<n, a>> \in Dropping
  BY <1>1
<1> QED
  BY <1>2, <1>3

-----------------------------------------------------------------------------
(* The types of users, entries and requests, for any number of them; no    *)
(* process caches a user that requireAuth found disabled.                  *)
THEOREM AuthTypeOKThm == AuthSpec => []AuthTypeOK
<1>1. AuthSpec => []AuthInv
  BY AuthInitial, AuthStep, PTL DEF AuthSpec
<1>2. AuthInv => AuthTypeOK
  BY DEF AuthInv
<1> QED
  BY <1>1, <1>2, PTL

(* Rights that an administrator has taken away are acted on for the        *)
(* lifetime of a cache entry and one look-up at most; in the process that  *)
(* served the change only a look-up under way brings them back.            *)
THEOREM RightsTakeHoldThm == AuthSpec => []RightsTakeHold
<1>1. AuthSpec => []AuthInv
  BY AuthInitial, AuthStep, PTL DEF AuthSpec
<1> QED
  BY <1>1, JustifiedHolds, PTL

-----------------------------------------------------------------------------
(* That some administrator is left.                                        *)

\* An administrator who can act.
Acting(a) == users[a].role = "admin" /\ users[a].active

\* The writer about to pick a user is that of an acting administrator, the one
\* about to change a user spares some acting administrator, and the one about
\* to create a user other than the first is let in by one.
Spares(q) ==
  /\ call[q].pc = "load" => Acting(call[q].actor)
  /\ call[q].pc = "save" =>
       \E a \in Accounts : Acting(a) /\ (a # call[q].actor \/ call[q].of \in {"enable", "promote"})
  /\ call[q].pc = "insert" /\ call[q].of # "register" => \E a \in Accounts : Acting(a)

(* One request writes at a time, and it leaves an acting administrator.    *)
Guarded ==
  orderly =>
    /\ \A x, y \in Writing : x = y
    /\ \A q \in Calls : Spares(q)
    /\ (\E a \in Accounts : users[a] # Unknown) => \E a \in Accounts : Acting(a)

\* A step of one request that writes nothing.
LEMMA GuardedCallStep ==
  ASSUME AuthTypeOK, Guarded, users' = users, NEW q \in Calls, NEW k,
         call' = [call EXCEPT ![q] = k], orderly' => orderly,
         orderly' =>
           /\ k.pc \in {"load", "save", "insert", "hook"} => Writing \subseteq {q}
           /\ k.pc = "load" => Acting(k.actor)
           /\ k.pc = "save" =>
                \E a \in Accounts : Acting(a) /\ (a # k.actor \/ k.of \in {"enable", "promote"})
           /\ k.pc = "insert" /\ k.of # "register" => \E a \in Accounts : Acting(a)
  PROVE  Guarded'
<1> SUFFICES ASSUME orderly' PROVE Guarded'
  BY DEF Guarded
<1>1. call'[q] = k /\ \A x \in Calls \ {q} : call'[x] = call[x]
  BY DEF AuthTypeOK
<1>2. \A a \in Accounts : Acting(a)' <=> Acting(a)
  BY DEF Acting
<1>3. \A x, y \in Writing' : x = y
  <2>1. Writing' \subseteq Writing \cup {q}
    BY <1>1 DEF Writing
  <2>2. CASE q \in Writing'
    <3>1. Writing \subseteq {q}
      BY <1>1, <2>2 DEF Writing
    <3> QED
      BY <2>1, <3>1
  <2>3. CASE q \notin Writing'
    BY <2>1, <2>3 DEF Guarded
  <2> QED
    BY <2>2, <2>3
<1>4. ASSUME NEW x \in Calls PROVE Spares(x)'
  <2>1. CASE x = q
    <3>1. call'[x] = k
      BY <1>1, <2>1
    <3> QED
      BY <1>2, <3>1 DEF Spares, Acting
  <2>2. CASE x # q
    <3>1. call'[x] = call[x] /\ Spares(x)
      BY <1>1, <2>2 DEF Guarded
    <3> QED
      BY <1>2, <3>1 DEF Spares, Acting
  <2> QED
    BY <2>1, <2>2
<1>5. (\E a \in Accounts : users'[a] # Unknown) => \E a \in Accounts : Acting(a)'
  BY <1>2 DEF Guarded
<1> QED
  BY <1>3, <1>4, <1>5 DEF Guarded

\* A request is let in to write while nobody writes, on rights it has.
LEMMA GuardedLetIn ==
  ASSUME AuthTypeOK, Guarded, users' = users, NEW q \in Calls, NEW new \in CallState,
         new.rights.active, LetIn(q, new)
  PROVE  Guarded'
<1> USE QuietType
<1> HIDE DEF Quiet
<1> DEFINE k == [Quiet EXCEPT !.pc = IF new.of = "put" THEN "load" ELSE "insert",
                              !.of = new.of, !.at = new.at, !.actor = new.actor]
<1>1. orderly' => orderly
  BY DEF LetIn, OrderlyIf
<1>2. CASE new.of # "get" /\ new.rights.role = "admin"
  <2>1. call' = [call EXCEPT ![q] = k]
    BY <1>2 DEF LetIn, Step
  <2>2. orderly' => Writing = {} /\ new.rights = users[new.actor]
    BY <1>2 DEF LetIn, OrderlyIf
  <2>3. k.pc \in {"load", "insert"} /\ k.actor = new.actor /\ new.actor \in Accounts
    BY DEF CallState
  <2>4. orderly' => Acting(k.actor)
    BY <1>2, <2>2, <2>3 DEF Acting
  <2> HIDE DEF k
  <2> QED
    BY <1>1, <2>1, <2>2, <2>3, <2>4, GuardedCallStep
<1>3. CASE ~(new.of # "get" /\ new.rights.role = "admin")
  <2>1. call' = [call EXCEPT ![q] = Quiet]
    BY <1>3 DEF LetIn, Step
  <2> QED
    BY <1>1, <2>1, GuardedCallStep
<1> QED
  BY <1>2, <1>3

\* A write that leaves an acting administrator.
LEMMA GuardedPut ==
  ASSUME AuthTypeOK, AuthTypeOK', Guarded, NEW q \in Calls, NEW t \in Accounts, NEW rights,
         Put(q, t, rights), call[q].pc \in {"save", "insert"}, orderly' = orderly,
         orderly => (rights.role = "admin" /\ rights.active) \/ \E a \in Accounts : a # t /\ Acting(a)
  PROVE  Guarded'
<1> SUFFICES ASSUME orderly PROVE Guarded'
  BY DEF Guarded
<1>1. users'[t] = rights /\ \A a \in Accounts : a # t => users'[a] = users[a]
  BY DEF Put, AuthTypeOK
<1>2. \E a \in Accounts : Acting(a)'
  BY <1>1 DEF Acting
<1>3. Writing \subseteq {q}
  BY DEF Guarded, Writing
<1>4. call'[q].pc = "hook"
  <2>1. call'[q] = [call[q] EXCEPT !.pc = "hook", !.of = "get", !.actor = t]
    BY DEF Put
  <2> QED
    BY <2>1 DEF AuthTypeOK, CallState
<1>5. ASSUME NEW x \in Calls, x # q PROVE call'[x].pc = call[x].pc
  <2>1. call'[x] = call[x] \/ call'[x] = Late(call[x], call[x].at, call[q].at)
    BY <1>5 DEF Put
  <2> QED
    BY <2>1 DEF Late, AuthTypeOK, CallState
<1>6. Writing' \subseteq {q}
  BY <1>3, <1>5 DEF Writing
<1>7. \A x \in Calls : call'[x].pc \notin {"load", "save", "insert"}
  BY <1>4, <1>6 DEF Writing
<1> QED
  BY <1>2, <1>6, <1>7 DEF Guarded, Spares

LEMMA GuardedStep == AuthInv /\ AuthInv' /\ Guarded /\ [AuthNext]_authVars => Guarded'
<1> SUFFICES ASSUME AuthInv, AuthInv', Guarded, [AuthNext]_authVars PROVE Guarded'
  OBVIOUS
<1> USE QuietType, UnknownType
<1> HIDE DEF Quiet, Unknown
<1>1. AuthTypeOK /\ AuthTypeOK' /\ Known
  BY DEF AuthInv
<1>2. \A q \in Calls : call[q] \in CallState
  BY <1>1 DEF AuthTypeOK
<1>3. ASSUME NEW q \in Calls, NEW n \in Processes, Register(q, n) PROVE Guarded'
  <2> DEFINE k == [Quiet EXCEPT !.pc = "insert", !.of = "register", !.at = n]
  <2>1. k.pc = "insert" /\ k.of = "register"
    BY DEF CallState
  <2>2. /\ call' = [call EXCEPT ![q] = k] /\ users' = users /\ (orderly' => orderly)
        /\ orderly' => Writing = {}
    BY <1>3 DEF Register, Step, OrderlyIf
  <2> HIDE DEF k
  <2> QED
    BY <1>1, <2>1, <2>2, GuardedCallStep
<1>4. ASSUME NEW q \in Calls, NEW n \in Processes, NEW a \in Accounts, NEW of \in {"get", "put", "post"},
             Authenticate(q, n, a, of)
      PROVE  Guarded'
  <2> DEFINE new == [Quiet EXCEPT !.at = n, !.actor = a, !.of = of]
  <2>1. new \in CallState /\ users' = users
    BY <1>4 DEF CallState, Authenticate
  <2>2. CASE cached[n][a] # NoUser
    <3> DEFINE k == [new EXCEPT !.rights = cached[n][a].rights]
    <3>1. cached[n][a].rights \in Rights /\ cached[n][a].rights.active
      BY <1>1, <2>2 DEF AuthTypeOK, UserEntry
    <3>2. k \in CallState /\ k.rights.active
      BY <2>1, <3>1 DEF CallState
    <3>3. LetIn(q, k)
      BY <1>4, <2>2 DEF Authenticate
    <3> HIDE DEF k
    <3> QED
      BY <1>1, <2>1, <3>2, <3>3, GuardedLetIn
  <2>3. CASE cached[n][a] = NoUser
    <3> DEFINE k == [new EXCEPT !.pc = "found", !.rights = users[a], !.readAt = clock]
    <3>1. k.pc = "found"
      BY <2>1 DEF CallState
    <3>2. call' = [call EXCEPT ![q] = k] /\ orderly' = orderly
      BY <1>4, <2>3 DEF Authenticate, Step
    <3> HIDE DEF k
    <3> QED
      BY <1>1, <2>1, <3>1, <3>2, GuardedCallStep
  <2> QED
    BY <2>2, <2>3
<1>5. ASSUME NEW q \in Calls, UserFound(q) PROVE Guarded'
  <2>1. users' = users
    BY <1>5 DEF UserFound
  <2>2. CASE ~call[q].rights.active
    <3>1. call' = [call EXCEPT ![q] = Quiet] /\ orderly' = orderly
      BY <1>5, <2>2 DEF UserFound, Step
    <3> QED
      BY <1>1, <2>1, <3>1, GuardedCallStep
  <2>3. CASE call[q].rights.active
    <3>1. LetIn(q, call[q])
      BY <1>5, <2>3 DEF UserFound
    <3> QED
      BY <1>1, <1>2, <2>1, <2>3, <3>1, GuardedLetIn
  <2> QED
    BY <2>2, <2>3
<1>6. ASSUME NEW q \in Calls, Save(q) PROVE Guarded'
  <2>1. PICK t \in Accounts : t = call[q].actor
    BY <1>2 DEF CallState
  <2>2. PICK rights : rights = Changed(users[t], call[q].of)
    OBVIOUS
  <2>3. call[q].pc = "save" /\ Put(q, t, rights) /\ orderly' = orderly
    BY <1>6, <2>1, <2>2 DEF Save
  <2>4. orderly => (rights.role = "admin" /\ rights.active) \/ \E a \in Accounts : a # t /\ Acting(a)
    <3> SUFFICES ASSUME orderly, \A a \in Accounts : a = t \/ ~Acting(a)
                 PROVE  rights.role = "admin" /\ rights.active
      OBVIOUS
    <3>1. Acting(t) /\ call[q].of \in {"enable", "promote"}
      BY <2>1, <2>3 DEF Guarded, Spares
    <3>2. users[t] \in Rights
      BY <1>1 DEF AuthTypeOK
    <3> QED
      BY <2>2, <3>1, <3>2 DEF Acting, Changed, Rights
  <2> QED
    BY <1>1, <2>3, <2>4, GuardedPut
<1>7. ASSUME NEW q \in Calls, NEW t \in Accounts, Insert(q, t) PROVE Guarded'
  <2>1. call[q].pc = "insert" /\ orderly' = orderly
    BY <1>7 DEF Insert
  <2>2. CASE users[t] # Unknown
    <3>1. call' = [call EXCEPT ![q] = Quiet] /\ users' = users
      BY <1>7, <2>2 DEF Insert, Step
    <3> QED
      BY <1>1, <2>1, <3>1, GuardedCallStep
  <2>3. CASE users[t] = Unknown
    <3>1. PICK role \in {"user", "admin"} :
              /\ call[q].of = "register" => role = "admin"
              /\ Put(q, t, [role |-> role, active |-> TRUE])
      BY <1>7, <2>3 DEF Insert
    <3>2. ~Acting(t)
      BY <2>3 DEF Acting
    <3>3. orderly => role = "admin" \/ \E a \in Accounts : a # t /\ Acting(a)
      BY <2>1, <3>1, <3>2 DEF Guarded, Spares
    <3>4. PICK rights : rights = [role |-> role, active |-> TRUE]
      OBVIOUS
    <3>5. Put(q, t, rights) /\ rights.role = role /\ rights.active
      BY <3>1, <3>4
    <3> QED
      BY <1>1, <2>1, <3>3, <3>5, GuardedPut
  <2> QED
    BY <2>2, <2>3
<1>8. ASSUME NEW q \in Calls, NEW t \in Accounts, NEW c \in Changes, Load(q, t, c) PROVE Guarded'
  <2> DEFINE hook == [call[q] EXCEPT !.pc = "hook", !.of = "get", !.actor = t]
             save == [call[q] EXCEPT !.pc = "save", !.of = c, !.actor = t]
  <2>1. hook.pc = "hook" /\ save.pc = "save" /\ save.actor = t /\ save.of = c
    BY <1>2 DEF CallState
  <2>2. /\ call[q].pc = "load" /\ users' = users
        /\ orderly' => orderly /\ ~(c = "demote" /\ t = call[q].actor)
    BY <1>8 DEF Load, OrderlyIf
  <2>3. orderly' => Writing \subseteq {q}
    BY <2>2 DEF Guarded, Writing
  <2>4. orderly' => Acting(call[q].actor) /\ call[q].actor \in Accounts
    BY <1>2, <2>2 DEF Guarded, Spares, CallState
  <2>5. /\ c = "disable" /\ t = call[q].actor => call' = [call EXCEPT ![q] = Quiet]
        /\ \/ call' = [call EXCEPT ![q] = Quiet] \/ call' = [call EXCEPT ![q] = hook]
           \/ call' = [call EXCEPT ![q] = save]
    BY <1>8 DEF Load, Step
  <2> HIDE DEF hook, save
  <2>6. CASE call' = [call EXCEPT ![q] = Quiet]
    BY <1>1, <2>2, <2>6, GuardedCallStep
  <2>7. CASE call' = [call EXCEPT ![q] = hook]
    BY <1>1, <2>1, <2>2, <2>3, <2>7, GuardedCallStep
  <2>8. CASE call' = [call EXCEPT ![q] = save] /\ ~(c = "disable" /\ t = call[q].actor)
    <3>1. orderly' => call[q].actor # t \/ c \in {"enable", "promote"}
      BY <2>2, <2>8 DEF Changes
    <3>2. orderly' => \E a \in Accounts : Acting(a) /\ (a # save.actor \/ save.of \in {"enable", "promote"})
      BY <2>1, <2>4, <3>1
    <3> QED
      BY <1>1, <2>1, <2>2, <2>3, <2>8, <3>2, GuardedCallStep
  <2> QED
    BY <2>5, <2>6, <2>7, <2>8
<1>9. ASSUME NEW q \in Calls, Invalidate(q) PROVE Guarded'
  <2>1. users' = users /\ orderly' = orderly
    BY <1>9 DEF Invalidate
  <2>2. ASSUME NEW x \in Calls
        PROVE  call'[x].pc \in {"load", "save", "insert", "hook"} =>
                 call'[x] = call[x]
    <3>1. \/ call'[x] = Quiet \/ call'[x] = call[x]
          \/ call[x].pc = "found" /\ call'[x] = [call[x] EXCEPT !.past.why = "overtaken"]
      BY <1>9 DEF Invalidate
    <3>2. [call[x] EXCEPT !.past.why = "overtaken"].pc = call[x].pc
      BY <1>2 DEF CallState
    <3> QED
      BY <3>1, <3>2
  <2> QED
    BY <2>1, <2>2 DEF Guarded, Spares, Writing, Acting
<1>10. CASE (\E a \in Accounts : Login(a)) \/ AuthTick \/ UNCHANGED authVars
  <2>1. UNCHANGED <<users, call, orderly>>
    BY <1>10 DEF Login, AuthTick, authVars
  <2> QED
    BY <2>1 DEF Guarded, Spares, Writing, Acting
<1> QED
  BY <1>3, <1>4, <1>5, <1>6, <1>7, <1>8, <1>9, <1>10 DEF AuthNext

LEMMA GuardedInitial == AuthInit => Guarded
BY QuietType DEF AuthInit, Guarded, Spares, Writing

(* The administrators are never locked out: while writes of administrators *)
(* do not overlap, none is let in on rights its account has lost and none  *)
(* demotes himself, PUT and POST /admin/users leave an administrator who   *)
(* can act, for any number of accounts, processes and requests.            *)
THEOREM AdministratorRemainsThm == AuthSpec => []AdministratorRemains
<1>1. AuthSpec => [](AuthInv /\ Guarded)
  BY AuthInitial, AuthStep, GuardedInitial, GuardedStep, PTL DEF AuthSpec
<1>2. Guarded => AdministratorRemains
  BY DEF Guarded, AdministratorRemains, Admins, Acting
<1> QED
  BY <1>1, <1>2, PTL

-----------------------------------------------------------------------------
(* That the dashboard is never staler than it says and that a load which   *)
(* has ended is never joined, for any number of requests, keys, loads and  *)
(* mutations, and any lifetime.                                            *)

Write == [at : Nat, here : BOOLEAN, cleared : BOOLEAN]
Loading == [pc : {"idle", "query", "rows"}, key : Keys \cup {Resting.key},
            rows : Nat, begun : Nat, late : BOOLEAN]
Snapshot == [rows : Nat, at : Nat, late : BOOLEAN]

LoaderTypeOK ==
  /\ instant \in Nat
  /\ writes \in Seq(Write)
  /\ snapshot \in [Keys -> Snapshot \cup {NoRows}]
  /\ underWay \in [Keys -> Loads \cup {NoLoad}]
  /\ load \in [Loads -> Loading]
  /\ reader \in [Readers -> Loads \cup {NoLoad}]
  /\ overtook \in BOOLEAN

(* Requests await, and the map names, loads that are in progress; and until*)
(* an invalidation overtakes a load, the map names all that are.           *)
MapExact ==
  /\ \A r \in Readers : reader[r] # NoLoad => reader[r] \in Working
  /\ \A k \in Keys : underWay[k] # NoLoad => underWay[k] \in Working /\ load[underWay[k]].key = k
  /\ \A l \in Working : load[l].key \in Keys /\ (~overtook => underWay[load[l].key] = l)

(* A load is short, and a mutation its rows do not show came after it had  *)
(* begun; if that has been invalidated, the load knows it is late.         *)
LoadsTimely ==
  \A l \in Working :
    /\ load[l].begun <= instant /\ instant <= load[l].begun + MaxLoad
    /\ load[l].pc = "rows" => \A i \in DOMAIN writes : load[l].rows < i =>
         /\ load[l].begun <= writes[i].at
         /\ writes[i].here /\ writes[i].cleared => load[l].late

(* A snapshot was taken at most the time of a load after any mutation it   *)
(* does not show, and is known to be late if that has been invalidated.    *)
SnapshotsTimely ==
  \A k \in Keys : snapshot[k] # NoRows =>
    /\ snapshot[k].at <= instant
    /\ \A i \in DOMAIN writes : snapshot[k].rows < i =>
         /\ snapshot[k].at <= writes[i].at + MaxLoad
         /\ writes[i].here /\ writes[i].cleared => snapshot[k].late

LoaderInv == LoaderTypeOK /\ MapExact /\ LoadsTimely /\ SnapshotsTimely

-----------------------------------------------------------------------------
LEMMA RestingType == Resting \in Loading /\ Resting.pc = "idle"
BY DEF Resting, Loading

LEMMA LoaderInitial == LoaderInit => LoaderInv
<1> SUFFICES ASSUME LoaderInit PROVE LoaderInv
  OBVIOUS
<1>1. Working = {}
  BY RestingType DEF LoaderInit, Working
<1>2. LoaderTypeOK
  <2>1. << >> \in Seq(Write)
    OBVIOUS
  <2>2. load \in [Loads -> Loading]
    BY RestingType DEF LoaderInit
  <2> QED
    BY <2>1, <2>2 DEF LoaderInit, LoaderTypeOK
<1> QED
  BY <1>1, <1>2 DEF LoaderInit, LoaderInv, MapExact, LoadsTimely, SnapshotsTimely

(* A load that ends, with a snapshot or without, leaves the map exact.     *)
LEMMA EndKeepsMap ==
  ASSUME LoaderTypeOK, MapExact, NEW l \in Loads, l \in Working, Forget(l), Done(l)
  PROVE  MapExact' /\ Working' = Working \ {l} /\ \A m \in Working' : load'[m] = load[m]
<1>1. load' = [load EXCEPT ![l] = Resting]
  BY DEF Done
<1>2. Working' = Working \ {l}
  BY <1>1, RestingType DEF Working, LoaderTypeOK
<1>3. \A m \in Working' : load'[m] = load[m]
  BY <1>1, <1>2 DEF Working, LoaderTypeOK
<1>4. \A r \in Readers : reader'[r] # NoLoad => reader'[r] \in Working'
  BY <1>2 DEF Done, MapExact, LoaderTypeOK
<1>5. \A k \in Keys : underWay'[k] # NoLoad => underWay'[k] # l /\ underWay'[k] = underWay[k]
  BY DEF Forget, MapExact, LoaderTypeOK
<1>6. \A k \in Keys : underWay'[k] # NoLoad => underWay'[k] \in Working' /\ load'[underWay'[k]].key = k
  BY <1>2, <1>3, <1>5 DEF MapExact
<1>7. ASSUME NEW m \in Working' PROVE load'[m].key \in Keys /\ (~overtook' => underWay'[load'[m].key] = m)
  <2>1. m \in Working /\ m # l /\ load'[m].key = load[m].key
    BY <1>2, <1>3
  <2>2. load[m].key \in Keys /\ load[l].key \in Keys
    BY <2>1 DEF MapExact
  <2>3. ~overtook' => underWay[load[m].key] = m /\ underWay[load[l].key] = l
    BY <2>1 DEF MapExact, Done
  <2>4. ~overtook' => load[m].key # load[l].key
    BY <2>1, <2>3
  <2> QED
    BY <2>1, <2>2, <2>3, <2>4 DEF Forget, LoaderTypeOK
<1> QED
  BY <1>2, <1>3, <1>4, <1>6, <1>7 DEF MapExact

LEMMA LoaderStep == LoaderInv /\ [LoaderNext]_loaderVars => LoaderInv'
<1> SUFFICES ASSUME LoaderInv, [LoaderNext]_loaderVars PROVE LoaderInv'
  OBVIOUS
<1>1. LoaderTypeOK /\ MapExact /\ LoadsTimely /\ SnapshotsTimely
  BY DEF LoaderInv
<1>2. SnapshotTTL \in Nat /\ MaxLoad \in Nat /\ NoLoad \notin Loads
  BY LoaderAssumption
<1>3. Len(writes) \in Nat /\ DOMAIN writes = 1..Len(writes)
  BY <1>1 DEF LoaderTypeOK
<1>4. \A i \in DOMAIN writes : writes[i] \in Write
  BY <1>1 DEF LoaderTypeOK
<1> USE RestingType
<1> HIDE DEF Resting
<1>5. ASSUME NEW r \in Readers, NEW k \in Keys, Request(r, k) PROVE LoaderInv'
  <2>1. UNCHANGED <<instant, writes, snapshot, overtook>> /\ reader[r] = NoLoad
    BY <1>5 DEF Request
  <2>2. CASE underWay[k] # NoLoad
    <3>1. reader' = [reader EXCEPT ![r] = underWay[k]] /\ UNCHANGED <<underWay, load>>
      BY <1>5, <2>2 DEF Request
    <3>2. LoaderTypeOK'
      BY <1>1, <2>1, <3>1 DEF LoaderTypeOK
    <3>3. Working' = Working
      BY <3>1 DEF Working
    <3>4. MapExact'
      BY <1>1, <2>1, <2>2, <3>1, <3>3 DEF MapExact, LoaderTypeOK
    <3>5. LoadsTimely' /\ SnapshotsTimely'
      BY <1>1, <2>1, <3>1, <3>3 DEF LoadsTimely, SnapshotsTimely
    <3> QED
      BY <3>2, <3>4, <3>5 DEF LoaderInv
  <2>3. CASE underWay[k] = NoLoad
    <3>1. PICK l \in Loads \ Working :
            /\ reader' = [reader EXCEPT ![r] = l]
            /\ underWay' = [underWay EXCEPT ![k] = l]
            /\ load' = [load EXCEPT ![l] = [Resting EXCEPT !.pc = "query", !.key = k, !.begun = instant]]
      BY <1>5, <2>3 DEF Request
    <3> DEFINE new == [Resting EXCEPT !.pc = "query", !.key = k, !.begun = instant]
    <3>2. new \in Loading /\ new.pc = "query" /\ new.key = k /\ new.begun = instant
      BY <1>1 DEF Loading, LoaderTypeOK
    <3> HIDE DEF new
    <3>3. load' = [load EXCEPT ![l] = new]
      BY <3>1 DEF new
    <3>4. LoaderTypeOK'
      BY <1>1, <2>1, <3>1, <3>2, <3>3 DEF LoaderTypeOK
    <3>5. Working' = Working \cup {l} /\ l \notin Working
      BY <1>1, <3>1, <3>2, <3>3 DEF Working, LoaderTypeOK
    <3>6. load'[l] = new /\ \A m \in Working : load'[m] = load[m]
      BY <1>1, <3>1, <3>3, <3>5 DEF LoaderTypeOK, Working
    <3>7. \A x \in Readers : reader'[x] # NoLoad => reader'[x] \in Working'
      BY <1>1, <3>1, <3>5 DEF MapExact, LoaderTypeOK
    <3>8. \A x \in Keys : underWay'[x] # NoLoad => underWay'[x] \in Working' /\ load'[underWay'[x]].key = x
      BY <1>1, <3>1, <3>2, <3>5, <3>6 DEF MapExact, LoaderTypeOK
    <3>9. \A m \in Working' : load'[m].key \in Keys /\ (~overtook' => underWay'[load'[m].key] = m)
      <4>1. ASSUME NEW m \in Working PROVE load[m].key \in Keys /\ (~overtook => load[m].key # k)
        BY <1>1, <1>2, <2>3, <4>1 DEF MapExact, Working
      <4> QED
        BY <1>1, <2>1, <3>1, <3>2, <3>5, <3>6, <4>1 DEF MapExact, LoaderTypeOK
    <3>10. LoadsTimely'
      BY <1>1, <1>2, <2>1, <3>2, <3>5, <3>6 DEF LoadsTimely, LoaderTypeOK
    <3>11. SnapshotsTimely'
      BY <1>1, <2>1 DEF SnapshotsTimely
    <3> QED
      BY <3>4, <3>7, <3>8, <3>9, <3>10, <3>11 DEF LoaderInv, MapExact
  <2> QED
    BY <2>2, <2>3
<1>6. ASSUME NEW l \in Loads, Find(l) PROVE LoaderInv'
  <2>1. load[l].pc = "query" /\ UNCHANGED <<instant, writes, snapshot, underWay, reader, overtook>>
    BY <1>6 DEF Find
  <2> DEFINE new == [load[l] EXCEPT !.pc = "rows", !.rows = Len(writes)]
  <2>2. new \in Loading /\ new.pc = "rows" /\ new.rows = Len(writes)
        /\ new.key = load[l].key /\ new.begun = load[l].begun
    BY <1>1, <1>3 DEF Loading, LoaderTypeOK
  <2>3. load' = [load EXCEPT ![l] = new]
    BY <1>6 DEF Find
  <2> HIDE DEF new
  <2>4. LoaderTypeOK'
    BY <1>1, <2>1, <2>2, <2>3 DEF LoaderTypeOK
  <2>5. Working' = Working /\ l \in Working /\ load'[l] = new
        /\ \A m \in Loads \ {l} : load'[m] = load[m]
    BY <1>1, <2>1, <2>2, <2>3 DEF Working, LoaderTypeOK
  <2>6. \A m \in Working : load'[m].key = load[m].key /\ load'[m].begun = load[m].begun
    BY <2>2, <2>5 DEF Working
  <2>7. MapExact'
    BY <1>1, <2>1, <2>5, <2>6 DEF MapExact
  <2>8. LoadsTimely'
    BY <1>1, <1>3, <2>1, <2>2, <2>5, <2>6 DEF LoadsTimely, Working
  <2>9. SnapshotsTimely'
    BY <1>1, <2>1 DEF SnapshotsTimely
  <2> QED
    BY <2>4, <2>7, <2>8, <2>9 DEF LoaderInv
<1>7. ASSUME NEW l \in Loads, Loaded(l) \/ LoadFails(l) PROVE LoaderInv'
  <2>1. l \in Working /\ Forget(l) /\ Done(l)
    BY <1>7 DEF Loaded, LoadFails, Working
  <2>2. MapExact' /\ Working' \subseteq Working /\ \A m \in Working' : load'[m] = load[m]
    BY <1>1, <2>1, EndKeepsMap
  <2>3. UNCHANGED <<instant, writes, overtook>> /\ load' = [load EXCEPT ![l] = Resting]
    BY <2>1 DEF Done
  <2>4. LoadsTimely'
    BY <1>1, <2>2, <2>3 DEF LoadsTimely
  <2> DEFINE new == [rows |-> load[l].rows, at |-> instant, late |-> load[l].late]
  <2>5. \/ snapshot' = snapshot
        \/ load[l].pc = "rows" /\ snapshot' = [snapshot EXCEPT ![load[l].key] = new]
    BY <1>7 DEF Loaded, LoadFails
  <2>6. new \in Snapshot
    BY <1>1 DEF LoaderTypeOK, Loading, Snapshot
  <2>7. LoaderTypeOK'
    <3>1. reader' \in [Readers -> Loads \cup {NoLoad}] /\ underWay' \in [Keys -> Loads \cup {NoLoad}]
      BY <1>1, <2>1 DEF LoaderTypeOK, Done, Forget
    <3>2. snapshot' \in [Keys -> Snapshot \cup {NoRows}]
      <4> HIDE DEF new
      <4> QED BY <1>1, <2>5, <2>6 DEF LoaderTypeOK
    <3> QED
      BY <1>1, <2>3, <3>1, <3>2 DEF LoaderTypeOK
  <2>8. load[l].pc = "rows" => new.at <= instant /\ \A i \in DOMAIN writes : new.rows < i =>
           /\ new.at <= writes[i].at + MaxLoad
           /\ writes[i].here /\ writes[i].cleared => new.late
    <3> SUFFICES ASSUME load[l].pc = "rows", NEW i \in DOMAIN writes, load[l].rows < i
                 PROVE  /\ instant <= writes[i].at + MaxLoad
                        /\ writes[i].here /\ writes[i].cleared => load[l].late
      BY <1>1 DEF LoaderTypeOK
    <3>1. /\ instant <= load[l].begun + MaxLoad /\ load[l].begun <= writes[i].at
          /\ writes[i].here /\ writes[i].cleared => load[l].late
      BY <1>1, <2>1 DEF LoadsTimely
    <3>2. writes[i].at \in Nat /\ load[l].begun \in Nat /\ instant \in Nat
      BY <1>1, <1>4 DEF LoaderTypeOK, Loading, Write
    <3> QED
      BY <1>2, <3>1, <3>2
  <2>9. SnapshotsTimely'
    <3> HIDE DEF new
    <3> QED
      BY <1>1, <2>3, <2>5, <2>8 DEF SnapshotsTimely, LoaderTypeOK
  <2> QED
    BY <2>2, <2>4, <2>7, <2>9 DEF LoaderInv
<1>8. ASSUME NEW here \in BOOLEAN, Mutation(here) PROVE LoaderInv'
  <2> DEFINE w == [at |-> instant, here |-> here, cleared |-> FALSE]
  <2>1. writes' = Append(writes, w) /\ UNCHANGED <<instant, snapshot, underWay, load, reader, overtook>>
    BY <1>8 DEF Mutation
  <2>2. w \in Write
    BY <1>1 DEF Write, LoaderTypeOK
  <2>3. writes' \in Seq(Write) /\ DOMAIN writes' = DOMAIN writes \cup {Len(writes) + 1}
        /\ writes'[Len(writes) + 1] = w /\ \A i \in DOMAIN writes : writes'[i] = writes[i]
    <3> HIDE DEF w
    <3> QED
      BY <1>1, <1>3, <2>1, <2>2 DEF LoaderTypeOK
  <2>4. Working' = Working
    BY <2>1 DEF Working
  <2>5. LoaderTypeOK'
    BY <1>1, <2>1, <2>3 DEF LoaderTypeOK
  <2>6. MapExact'
    BY <1>1, <2>1, <2>4 DEF MapExact
  <2>7. LoadsTimely'
    BY <1>1, <2>1, <2>3, <2>4 DEF LoadsTimely
  <2>8. SnapshotsTimely'
    <3> SUFFICES ASSUME NEW k \in Keys, snapshot[k] # NoRows
                 PROVE  /\ snapshot[k].at <= instant
                        /\ \A i \in DOMAIN writes' : snapshot[k].rows < i =>
                             /\ snapshot[k].at <= writes'[i].at + MaxLoad
                             /\ writes'[i].here /\ writes'[i].cleared => snapshot[k].late
      BY <2>1 DEF SnapshotsTimely
    <3>1. snapshot[k].at \in Nat /\ instant \in Nat
      BY <1>1 DEF LoaderTypeOK, Snapshot
    <3>2. snapshot[k].at <= instant + MaxLoad
      BY <1>1, <1>2, <3>1 DEF SnapshotsTimely
    <3> QED
      BY <1>1, <2>3, <3>2 DEF SnapshotsTimely
  <2> QED
    BY <2>5, <2>6, <2>7, <2>8 DEF LoaderInv
<1>9. ASSUME NEW i \in DOMAIN writes, DropSnapshots(i) PROVE LoaderInv'
  <2> DEFINE w == [writes[i] EXCEPT !.cleared = TRUE]
  <2>1. UNCHANGED <<instant, reader>> /\ overtook' = (overtook \/ Working # {})
        /\ snapshot' = [k \in Keys |-> NoRows] /\ underWay' = [k \in Keys |-> NoLoad]
        /\ load' = [l \in Loads |-> IF l \in Working THEN [load[l] EXCEPT !.late = TRUE] ELSE load[l]]
        /\ writes' = [writes EXCEPT ![i] = w]
    BY <1>9 DEF DropSnapshots
  <2>2. w \in Write /\ w.at = writes[i].at
    BY <1>4 DEF Write
  <2>3. writes' \in Seq(Write) /\ DOMAIN writes' = DOMAIN writes
        /\ \A x \in DOMAIN writes : writes'[x].at = writes[x].at
    <3> HIDE DEF w
    <3> QED
      BY <1>1, <1>3, <2>1, <2>2 DEF LoaderTypeOK
  <2>4. \A l \in Loads : /\ load'[l] \in Loading /\ load'[l].pc = load[l].pc /\ load'[l].key = load[l].key
                         /\ load'[l].rows = load[l].rows /\ load'[l].begun = load[l].begun
                         /\ (l \in Working => load'[l].late)
    BY <1>1, <2>1 DEF LoaderTypeOK, Loading
  <2>5. Working' = Working
    BY <2>4 DEF Working
  <2>6. load' \in [Loads -> Loading]
    BY <2>1, <2>4
  <2>7. LoaderTypeOK'
    BY <1>1, <2>1, <2>3, <2>6 DEF LoaderTypeOK
  <2>8. MapExact'
    BY <1>1, <2>1, <2>4, <2>5 DEF MapExact, Working
  <2>9. LoadsTimely'
    <3> SUFFICES ASSUME NEW l \in Working
                 PROVE  /\ load'[l].begun <= instant' /\ instant' <= load'[l].begun + MaxLoad
                        /\ load'[l].pc = "rows" => \A x \in DOMAIN writes' : load'[l].rows < x =>
                             load'[l].begun <= writes'[x].at /\ load'[l].late
      BY <2>5 DEF LoadsTimely
    <3>1. l \in Loads
      BY DEF Working
    <3> QED
      BY <1>1, <2>1, <2>3, <2>4, <3>1 DEF LoadsTimely
  <2>10. SnapshotsTimely'
    BY <2>1 DEF SnapshotsTimely
  <2> QED
    BY <2>7, <2>8, <2>9, <2>10 DEF LoaderInv
<1>10. CASE LoaderTick
  <2>1. UNCHANGED <<writes, underWay, load, reader, overtook>> /\ instant' = instant + 1
        /\ (\A l \in Working : instant < load[l].begun + MaxLoad)
    BY <1>10 DEF LoaderTick
  <2>2. \A k \in Keys : snapshot'[k] = NoRows \/ snapshot'[k] = snapshot[k]
    BY <1>10 DEF LoaderTick
  <2>3. Working' = Working
    BY <2>1 DEF Working
  <2>4. LoaderTypeOK'
    BY <1>1, <1>10 DEF LoaderTypeOK, LoaderTick
  <2>5. MapExact'
    BY <1>1, <2>1, <2>3 DEF MapExact
  <2>6. LoadsTimely'
    <3>1. \A l \in Working : load[l].begun \in Nat
      BY <1>1 DEF LoaderTypeOK, Working, Loading
    <3> QED
      BY <1>1, <1>2, <2>1, <2>3, <3>1 DEF LoadsTimely, LoaderTypeOK
  <2>7. SnapshotsTimely'
    <3>1. \A k \in Keys : snapshot[k] # NoRows => snapshot[k].at \in Nat
      BY <1>1 DEF LoaderTypeOK, Snapshot
    <3> QED
      BY <1>1, <2>1, <2>2, <3>1 DEF SnapshotsTimely, LoaderTypeOK
  <2> QED
    BY <2>4, <2>5, <2>6, <2>7 DEF LoaderInv
<1>11. CASE UNCHANGED loaderVars
  BY <1>1, <1>11 DEF loaderVars, LoaderInv, LoaderTypeOK, MapExact, LoadsTimely, SnapshotsTimely, Working
<1> QED
  BY <1>5, <1>6, <1>7, <1>8, <1>9, <1>10, <1>11 DEF LoaderNext

LEMMA LoaderInvariant == LoaderSpec => []LoaderInv
BY LoaderInitial, LoaderStep, PTL DEF LoaderSpec

(* However many requests share loads, none awaits one that has ended, and  *)
(* the database reads a key once at a time until an invalidation overtakes *)
(* a load.                                                                 *)
THEOREM LoadsSharedThm == LoaderSpec => []LoadsShared
<1>1. LoaderInv => LoadsShared
  BY DEF LoaderInv, MapExact, LoadsShared
<1> QED
  BY LoaderInvariant, <1>1, PTL

(* The dashboard shows every mutation after the lifetime of a snapshot and *)
(* the time of a load, and those of its own process at once, but for loads *)
(* that were under way - whatever loads and invalidations overtake.        *)
THEOREM SnapshotsFreshThm == LoaderSpec => []SnapshotsFresh
<1>1. LoaderInv => SnapshotsFresh
  <2> SUFFICES ASSUME LoaderInv, NEW k \in Keys, NEW i \in DOMAIN writes, Hit(k), snapshot[k].rows < i
               PROVE  /\ instant < writes[i].at + SnapshotTTL + MaxLoad
                      /\ writes[i].here /\ writes[i].cleared => snapshot[k].late
    BY DEF SnapshotsFresh
  <2>1. /\ snapshot[k] # NoRows /\ instant < snapshot[k].at + SnapshotTTL
        /\ snapshot[k].at <= writes[i].at + MaxLoad
        /\ writes[i].here /\ writes[i].cleared => snapshot[k].late
    BY DEF Hit, LoaderInv, SnapshotsTimely
  <2>2. writes[i] \in Write /\ snapshot[k] \in Snapshot /\ instant \in Nat
    BY <2>1 DEF LoaderInv, LoaderTypeOK
  <2>3. snapshot[k].at \in Nat /\ writes[i].at \in Nat /\ SnapshotTTL \in Nat /\ MaxLoad \in Nat
    BY <2>2, LoaderAssumption DEF Snapshot, Write
  <2> QED
    BY <2>1, <2>2, <2>3
<1> QED
  BY LoaderInvariant, <1>1, PTL

-----------------------------------------------------------------------------
(* Proofs about SkuSequence, for any set of requests and any catalog.  The *)
(* inductive invariant says that the counter, once created, is above every *)
(* number that is in the catalog or was handed out, and that a request     *)
(* about to create it holds a maximum that still bounds the catalog.       *)

\* The catalog is below n, except for numbers typed too late to be seen.
Bounds(n) == \A m \in catalog : m <= n \/ m \in late

HandedOutBelow ==
  \A q \in Requests : req[q].pc = "done" => counter # NoSku /\ req[q].sku <= counter
CounterBounds == counter # NoSku => Bounds(counter)
PendingBounds ==
  counter = NoSku => \A q \in Requests : req[q].pc = "create" => Bounds(req[q].max)
IInv == TypeOK /\ HandedOutBelow /\ CounterBounds /\ PendingBounds

-----------------------------------------------------------------------------
LEMMA TypeInit == Init => TypeOK
BY SkuAssumption DEF Init, TypeOK, RequestType, Answers

\* One step per action; the record updates are the only delicate part.
LEMMA TypeStep == TypeOK /\ [Next]_vars => TypeOK'
<1> SUFFICES ASSUME TypeOK, [Next]_vars PROVE TypeOK'
  OBVIOUS
<1> USE SkuAssumption DEF TypeOK, RequestType, Answers, Goto
<1>1. ASSUME NEW q \in Requests, FindSequence(q) PROVE TypeOK'
  BY <1>1 DEF FindSequence
<1>2. ASSUME NEW q \in Requests, ReadCatalog(q) PROVE TypeOK'
  BY <1>2 DEF ReadCatalog, MaxSkuNumber
<1>3. ASSUME NEW q \in Requests, CreateSequence(q) PROVE TypeOK'
  BY <1>3 DEF CreateSequence
<1>4. ASSUME NEW q \in Requests, Increment(q) PROVE TypeOK'
  BY <1>4 DEF Increment
<1>5. ASSUME NEW q \in Requests, RequestFails(q) PROVE TypeOK'
  BY <1>5 DEF RequestFails
<1>6. ASSUME NEW q \in Requests, UseReserved(q) PROVE TypeOK'
  BY <1>6 DEF UseReserved
<1>7. ASSUME NEW n \in Typed, TypeSku(n) PROVE TypeOK'
  BY <1>7 DEF TypeSku
<1>8. ASSUME NEW n \in catalog, DropSku(n) PROVE TypeOK'
  BY <1>8 DEF DropSku
<1>9. CASE UNCHANGED vars
  BY <1>9 DEF vars
<1> QED
  BY <1>1, <1>2, <1>3, <1>4, <1>5, <1>6, <1>7, <1>8, <1>9 DEF Next, Reserve

LEMMA InvInit == Init => IInv
BY TypeInit DEF Init, IInv, HandedOutBelow, CounterBounds, PendingBounds

LEMMA InvStep == IInv /\ [Next]_vars => IInv'
<1> SUFFICES ASSUME IInv, [Next]_vars PROVE IInv'
  OBVIOUS
<1>1. TypeOK /\ TypeOK'
  BY TypeStep DEF IInv
<1> USE <1>1, SkuAssumption
    DEF IInv, HandedOutBelow, CounterBounds, PendingBounds, Bounds, Goto, Answers
<1>2. ASSUME NEW q \in Requests, FindSequence(q) PROVE IInv'
  BY <1>2 DEF FindSequence, TypeOK, RequestType
<1>3. ASSUME NEW q \in Requests, ReadCatalog(q) PROVE IInv'
  BY <1>3 DEF ReadCatalog, MaxSkuNumber, TypeOK, RequestType
<1>4. ASSUME NEW q \in Requests, CreateSequence(q) PROVE IInv'
  BY <1>4 DEF CreateSequence, TypeOK, RequestType
<1>5. ASSUME NEW q \in Requests, Increment(q) PROVE IInv'
  BY <1>5 DEF Increment, TypeOK, RequestType
<1>6. ASSUME NEW q \in Requests, RequestFails(q) PROVE IInv'
  BY <1>6 DEF RequestFails, TypeOK, RequestType
<1>7. ASSUME NEW q \in Requests, UseReserved(q) PROVE IInv'
  BY <1>7 DEF UseReserved, TypeOK, RequestType
<1>8. ASSUME NEW n \in Typed, TypeSku(n) PROVE IInv'
  BY <1>8 DEF TypeSku, TypeOK, RequestType
<1>9. ASSUME NEW n \in catalog, DropSku(n) PROVE IInv'
  BY <1>9 DEF DropSku, TypeOK, RequestType
<1>10. CASE UNCHANGED vars
  BY <1>10 DEF vars
<1> QED
  BY <1>2, <1>3, <1>4, <1>5, <1>6, <1>7, <1>8, <1>9, <1>10 DEF Next, Reserve

(* The counter and the numbers handed out keep their types, whichever      *)
(* requests race in ensureProductToySkuSequence and reserveNextProductSku. *)
THEOREM TypeCorrect == Spec => []TypeOK
<1>1. Init => TypeOK
  BY TypeInit
<1>2. TypeOK /\ [Next]_vars => TypeOK'
  BY TypeStep
<1> QED
  BY <1>1, <1>2, PTL DEF Spec

LEMMA Invariant == Spec => []IInv
<1>1. Init => IInv
  BY InvInit
<1>2. IInv /\ [Next]_vars => IInv'
  BY InvStep
<1> QED
  BY <1>1, <1>2, PTL DEF Spec

-----------------------------------------------------------------------------
\* The only step that answers a request is Increment.
LEMMA AnswerStep ==
  ASSUME TypeOK, [Next]_vars, NEW q \in Requests, req[q].pc # "done", req'[q].pc = "done"
  PROVE  Increment(q) /\ counter # NoSku
<1> USE DEF TypeOK, RequestType, Answers, Goto
<1>1. ASSUME NEW r \in Requests, Reserve(r) PROVE Increment(q) /\ counter # NoSku
  BY <1>1 DEF Reserve, FindSequence, ReadCatalog, CreateSequence, Increment, RequestFails
<1>2. req' # req
  OBVIOUS
<1> QED
  BY <1>1, <1>2 DEF Next, UseReserved, TypeSku, DropSku, vars

(* No product carries a reserved number when reserveNextProductSku returns *)
(* it, except one typed after a request had read the catalog.              *)
THEOREM ReservedIsFreeThm == Spec => ReservedIsFree
<1>1. IInv /\ [Next]_vars
      => [\A q \in Requests : req[q].pc # "done" /\ req'[q].pc = "done"
            => req'[q].sku \notin catalog \ late]_vars
  <2> SUFFICES ASSUME IInv, [Next]_vars, NEW q \in Requests,
                      req[q].pc # "done", req'[q].pc = "done"
               PROVE  req'[q].sku \notin catalog \ late
    OBVIOUS
  <2>1. Increment(q) /\ counter # NoSku
    BY AnswerStep DEF IInv
  <2>2. counter \in Nat /\ req'[q].sku = counter + 1
    BY <2>1, SkuAssumption DEF IInv, Increment, TypeOK, RequestType
  <2>3. \A m \in catalog : m \in Nat /\ (m <= counter \/ m \in late)
    BY <2>1 DEF IInv, CounterBounds, Bounds, TypeOK
  <2> QED
    BY <2>2, <2>3
<1> QED
  BY <1>1, Invariant, PTL DEF Spec, ReservedIsFree

(* The counter implements SkuAllocator: the numbers handed out rise, so no *)
(* two requests ever get the same.                                         *)
THEOREM ImplementsAllocator == Spec => HandsOutRisingNumbers
<1> DEFINE issued == [q \in Requests |-> req[q].sku]
<1>1. Init => Allocator!Init
  BY DEF Init, Allocator!Init
<1>2. IInv /\ [Next]_vars => [Allocator!Next]_issued
  <2> SUFFICES ASSUME IInv, [Next]_vars PROVE Allocator!Next \/ issued' = issued
    OBVIOUS
  <2>1. ASSUME NEW q \in Requests, Increment(q), counter # NoSku PROVE Allocator!Issue(q)
    <3> USE SkuAssumption DEF IInv, TypeOK, RequestType
    <3>1. issued[q] = NoSku
      BY <2>1 DEF Increment
    <3>2. counter \in Nat /\ issued'[q] = counter + 1
      BY <2>1 DEF Increment
    <3>3. ASSUME NEW r \in Requests, issued[r] # NoSku PROVE issued[r] < issued'[q]
      <4>1. req[r].pc = "done" /\ issued[r] \in Nat
        BY <3>3 DEF Answers
      <4> QED
        BY <4>1, <3>2 DEF HandedOutBelow
    <3>4. issued' = [issued EXCEPT ![q] = issued'[q]]
      BY <2>1 DEF Increment
    <3> QED
      BY <3>1, <3>2, <3>3, <3>4 DEF Allocator!Issue
  <2>2. ASSUME NEW q \in Requests, Reserve(q), ~(Increment(q) /\ counter # NoSku)
        PROVE  issued' = issued
    BY <2>2 DEF IInv, TypeOK, RequestType, Reserve, FindSequence, ReadCatalog, CreateSequence,
                Increment, RequestFails, Goto
  <2>3. CASE UNCHANGED req
    BY <2>3
  <2> QED
    BY <2>1, <2>2, <2>3 DEF Next, UseReserved, TypeSku, DropSku, vars, Allocator!Next
<1> QED
  BY <1>1, <1>2, Invariant, PTL DEF Spec, HandsOutRisingNumbers, Allocator!Spec

-----------------------------------------------------------------------------
(* The gates.  No route is taken by an earlier one of another path, by the *)
(* order of the routes; and the routes that change what exists are those   *)
(* whose paths the gate of the inventory tells.                            *)

\* What routes are made of.
Methods == {"GET", "POST", "PUT", "PATCH", "DELETE"}
Names == UNION {Area[s] : s \in DOMAIN Area}
Words ==
  Names \cup {":id", "68f0", "seed", "summary", "top-products", "business-alerts", "recent-invoices", "sales-trend",
             "revenue-trend", "chat", "metrics", "low-stock-alerts", "sales", "product-sales", "purchases", "inventory",
             "customers", "suppliers", "financial", "hr", "next-sku", "approve", "complete", "my", "team-overview",
             "status"}
\* The handlers open to whoever has the section, and all of them.
Plain == {"list", "getById", "create", "dashboard", "chat", "metrics", "lowStock", "notifications", "summary",
          "report", "nextSku", "index", "myTasks", "overview", "patchStatus"}
Handlers == Plain \cup {"update", "remove", "bulkSeed", "moveStock"}
RouteSet == [method : Methods, path : Seq(Words), handler : Handlers]

\* The seven routes of a resource, and the others.
IsCrud(r) ==
  /\ r.path[1] \notin {"inventory", ":id"}
  /\ \/ Len(r.path) = 1 /\ r.method \in {"GET", "POST"} /\ r.handler \in Plain
     \/ Len(r.path) = 2 /\ r.path[2] = "seed" /\ r.method = "POST" /\ r.handler = "bulkSeed"
     \/ Len(r.path) = 2 /\ r.path[2] = ":id" /\ r.method = "GET" /\ r.handler \in Plain
     \/ Len(r.path) = 2 /\ r.path[2] = ":id" /\ r.method \in {"PUT", "PATCH", "DELETE"}
          /\ r.handler \in {"update", "remove"}
IsNamed(r) ==
  /\ Len(r.path) = 2 /\ r.path[1] # ":id" /\ r.path[2] \notin {":id", "68f0"}
  /\ r.method = "GET" \/ (r.method = "POST" /\ r.path[1] = "ai")
  /\ r.handler \in Plain
IsWhole(r) == Len(r.path) = 1 /\ r.path[1] # ":id" /\ r.method = "GET" /\ r.handler \in Plain
IsIndex(r) == Len(r.path) = 0 /\ r.method = "GET" /\ r.handler \in Plain
IsStep(r) ==
  /\ Len(r.path) = 3 /\ r.path[1] # ":id" /\ r.path[2] = ":id" /\ r.path[3] # ":id"
  /\ \/ r.handler \in Plain
     \/ r.handler = "moveStock" /\ r.method = "POST" /\ r.path[1] \in EditScope
          /\ r.path[3] \in {"approve", "complete"}
Regular(r) == IsCrud(r) \/ IsNamed(r) \/ IsWhole(r) \/ IsIndex(r) \/ IsStep(r)

LEMMA AreasAre ==
  /\ DOMAIN Area = {"dashboard", "sales", "inventory", "purchases", "factory", "accounts", "hrm", "payroll", "projects",
                    "assets", "approvals", "reports", "administration"}
  /\ Area.dashboard = Area["dashboard"] /\ Area.sales = Area["sales"] /\ Area.inventory = Area["inventory"]
BY DEF Area

LEMMA NotNames == {":id", "68f0"} \cap Names = {}
BY DEF Names, Area

\* Some id in the place of ":id", which is no name; Asks is a request for a route.
Asks(r) == Concrete(r.path)
Takes(a, b) == Matches(a, b.method, Asks(b)) /\ a.path # b.path
\* What may take another route, and what may be taken.
Taker(r) == Len(r.path) = 2 /\ r.path[2] = ":id"
Taken(r) == IsNamed(r) /\ r.method = "GET"

\* In order, with takers and takeable routes of these names only; the first
\* segment is a name of an area.
Orderly(s, takers, taken) ==
  /\ s \in Seq(RouteSet)
  /\ \A i \in DOMAIN s : /\ Regular(s[i])
                         /\ Taker(s[i]) => s[i].path[1] \in takers
                         /\ Taken(s[i]) => s[i].path[1] \in taken
                         /\ s[i].path # << >> => s[i].path[1] \in Names
  /\ \A i, j \in DOMAIN s : i <= j => ~Takes(s[i], s[j])

LEMMA AsksIs ==
  ASSUME NEW r
  PROVE  /\ DOMAIN Asks(r) = DOMAIN r.path
         /\ \A k \in DOMAIN r.path : Asks(r)[k] = IF r.path[k] = ":id" THEN "68f0" ELSE r.path[k]
BY DEF Asks, Concrete

\* A request is as long as the path of its route.
LEMMA ConcreteIs ==
  ASSUME NEW p \in Seq(Words)
  PROVE  Concrete(p) \in Seq(Words) /\ Len(Concrete(p)) = Len(p)
<1>1. PICK n \in Nat : n = Len(p) /\ DOMAIN p = 1..n
  OBVIOUS
<1>2. Concrete(p) = [k \in 1..n |-> IF p[k] = ":id" THEN "68f0" ELSE p[k]]
  BY <1>1 DEF Concrete
<1>3. \A k \in 1..n : (IF p[k] = ":id" THEN "68f0" ELSE p[k]) \in Words
  <2>1. \A k \in 1..n : p[k] \in Words
    BY <1>1
  <2>2. "68f0" \in Words
    BY DEF Words
  <2> QED
    BY <2>1, <2>2
<1>4. [k \in 1..n |-> IF p[k] = ":id" THEN "68f0" ELSE p[k]] \in Seq(Words)
  BY <1>3
<1> QED
  BY <1>1, <1>2, <1>4

LEMMA SameSeq ==
  ASSUME NEW s \in Seq(Words), NEW t \in Seq(Words), Len(s) = Len(t), \A k \in 1..Len(s) : s[k] = t[k]
  PROVE  s = t
OBVIOUS

\* Who takes is of the one kind, who is taken of the other, with the same name.
LEMMA TakesIs ==
  ASSUME NEW a \in RouteSet, NEW b \in RouteSet, Regular(a), Regular(b), Takes(a, b)
  PROVE  Taker(a) /\ Taken(b) /\ a.path[1] = b.path[1]
<1> DEFINE n == Len(b.path)
<1>1. a.path \in Seq(Words) /\ b.path \in Seq(Words)
  BY DEF RouteSet
<1>2. DOMAIN a.path = 1..Len(a.path) /\ DOMAIN b.path = 1..n /\ n \in Nat
  BY <1>1
<1>3. Len(a.path) = n
  <2>1. Asks(b) \in Seq(Words) /\ Len(Asks(b)) = n
    BY <1>1, ConcreteIs DEF Asks
  <2> QED
    BY <2>1 DEF Takes, Matches
<1>4. a.method = b.method /\ a.path # b.path
  BY DEF Takes, Matches
<1>5. \A k \in 1..n : a.path[k] \in {":id", IF b.path[k] = ":id" THEN "68f0" ELSE b.path[k]}
  BY <1>2, AsksIs DEF Takes, Matches
<1>6. \E k \in 1..n : a.path[k] # b.path[k]
  BY <1>1, <1>3, <1>4, SameSeq
<1>7. n \in 0..3
  BY DEF Regular, IsCrud, IsNamed, IsWhole, IsIndex, IsStep
<1>8. ~(n \in {0, 1, 3})
  BY <1>3, <1>5, <1>6 DEF Regular, IsCrud, IsNamed, IsWhole, IsIndex, IsStep
<1>9. n = 2
  BY <1>7, <1>8
<1>10. a.path[1] # ":id" /\ b.path[1] # ":id"
  BY <1>3, <1>9 DEF Regular, IsCrud, IsNamed, IsWhole, IsIndex, IsStep
<1>11. a.path[1] = b.path[1]
  BY <1>5, <1>9, <1>10
<1>12. a.path[2] # b.path[2]
  BY <1>6, <1>9, <1>11
<1>13. a.path[2] = ":id" /\ b.path[2] # ":id"
  BY <1>3, <1>5, <1>9, <1>12 DEF Regular, IsCrud, IsNamed, IsWhole, IsIndex, IsStep
<1>14. IsNamed(b) /\ b.method = "GET"
  BY <1>3, <1>4, <1>9, <1>13 DEF Regular, IsCrud, IsNamed, IsWhole, IsIndex, IsStep
<1> QED
  BY <1>3, <1>9, <1>11, <1>13, <1>14 DEF Taker, Taken

\* Parts in order, of which no later one is taken by an earlier.
LEMMA Joined ==
  ASSUME NEW s, NEW t, NEW a, NEW b, NEW c, NEW d,
         Orderly(s, a, b), Orderly(t, c, d), a \cap d = {}
  PROVE  Orderly(s \o t, a \cup c, b \cup d)
<1>1. s \in Seq(RouteSet) /\ t \in Seq(RouteSet)
  BY DEF Orderly
<1>2. s \o t \in Seq(RouteSet) /\ DOMAIN (s \o t) = 1..(Len(s) + Len(t))
      /\ DOMAIN s = 1..Len(s) /\ DOMAIN t = 1..Len(t) /\ Len(s) \in Nat /\ Len(t) \in Nat
  BY <1>1
<1>3. ASSUME NEW i \in DOMAIN (s \o t)
      PROVE  \/ i \in DOMAIN s /\ (s \o t)[i] = s[i]
             \/ i - Len(s) \in DOMAIN t /\ (s \o t)[i] = t[i - Len(s)] /\ i > Len(s)
  BY <1>1, <1>2
<1>4. ASSUME NEW i \in DOMAIN (s \o t)
      PROVE  LET r == (s \o t)[i]
             IN /\ Regular(r) /\ r \in RouteSet
                /\ Taker(r) => r.path[1] \in a \cup c
                /\ Taken(r) => r.path[1] \in b \cup d
                /\ r.path # << >> => r.path[1] \in Names
  BY <1>1, <1>3 DEF Orderly
<1>5. ASSUME NEW i \in DOMAIN (s \o t), NEW j \in DOMAIN (s \o t), i <= j, Takes((s \o t)[i], (s \o t)[j])
      PROVE  FALSE
  <2>1. i \in Int /\ j \in Int
    BY <1>2
  <2>2. CASE i \in DOMAIN s /\ j \in DOMAIN s
    <3>1. (s \o t)[i] = s[i] /\ (s \o t)[j] = s[j]
      BY <1>2, <1>3, <2>2
    <3> QED
      BY <1>5, <2>2, <3>1 DEF Orderly
  <2>3. CASE i - Len(s) \in DOMAIN t /\ j - Len(s) \in DOMAIN t
    <3>1. (s \o t)[i] = t[i - Len(s)] /\ (s \o t)[j] = t[j - Len(s)]
      BY <1>2, <1>3, <2>3
    <3>2. i - Len(s) <= j - Len(s)
      BY <1>2, <1>5, <2>1
    <3> QED
      BY <1>5, <2>3, <3>1, <3>2 DEF Orderly
  <2>4. CASE i \in DOMAIN s /\ j - Len(s) \in DOMAIN t
    <3>1. (s \o t)[i] = s[i] /\ (s \o t)[j] = t[j - Len(s)]
      BY <1>2, <1>3, <2>4
    <3>2. s[i] \in RouteSet /\ Regular(s[i]) /\ (Taker(s[i]) => s[i].path[1] \in a)
      BY <1>1, <2>4 DEF Orderly
    <3>3. PICK k \in DOMAIN t : k = j - Len(s)
      BY <2>4
    <3>4. t[k] \in RouteSet /\ Regular(t[k]) /\ (Taken(t[k]) => t[k].path[1] \in d)
      BY <1>1 DEF Orderly
    <3>5. Takes(s[i], t[k])
      BY <1>5, <3>1, <3>3
    <3>6. Taker(s[i]) /\ Taken(t[k]) /\ s[i].path[1] = t[k].path[1]
      BY <3>2, <3>4, <3>5, TakesIs
    <3> QED
      BY <3>2, <3>4, <3>6
  <2> QED
    BY <1>2, <1>3, <1>5, <2>1, <2>2, <2>3, <2>4
<1> QED
  BY <1>2, <1>4, <1>5 DEF Orderly

\* Routes none of which is a taker.
LEMMA NoTakers ==
  ASSUME NEW s \in Seq(RouteSet), NEW b,
         \A i \in DOMAIN s : /\ Regular(s[i]) /\ ~Taker(s[i]) /\ (Taken(s[i]) => s[i].path[1] \in b)
                             /\ s[i].path # << >> => s[i].path[1] \in Names
  PROVE  Orderly(s, {}, b)
<1>1. \A i \in DOMAIN s : s[i] \in RouteSet
  OBVIOUS
<1>2. \A i, j \in DOMAIN s : ~Takes(s[i], s[j])
  BY <1>1, TakesIs
<1> QED
  BY <1>2 DEF Orderly

\* Routes none of which can be taken.
LEMMA NoTaken ==
  ASSUME NEW s \in Seq(RouteSet), NEW a,
         \A i \in DOMAIN s : /\ Regular(s[i]) /\ ~Taken(s[i]) /\ (Taker(s[i]) => s[i].path[1] \in a)
                             /\ s[i].path # << >> => s[i].path[1] \in Names
  PROVE  Orderly(s, a, {})
<1>1. \A i \in DOMAIN s : s[i] \in RouteSet
  OBVIOUS
<1>2. \A i, j \in DOMAIN s : ~Takes(s[i], s[j])
  BY <1>1, TakesIs
<1> QED
  BY <1>2 DEF Orderly

LEMMA RouteIs ==
  ASSUME NEW m \in Methods, NEW p \in Seq(Words), NEW h \in Handlers
  PROVE  /\ Route(m, p, h) \in RouteSet
         /\ Route(m, p, h).method = m /\ Route(m, p, h).path = p /\ Route(m, p, h).handler = h
BY DEF Route, RouteSet

\* A sequence of one route.
LEMMA GetIs ==
  ASSUME NEW p \in Seq(Words), NEW h \in Plain, NEW X, Len(p) \in 0..2,
         Len(p) > 0 => p[1] \in Names, Len(p) = 2 => p[1] \in X /\ p[2] \notin {":id", "68f0"}
  PROVE  Orderly(Get(p, h), {}, X)
<1> DEFINE s == Get(p, h)
           r == Route("GET", p, h)
<1>1. r \in RouteSet /\ r.method = "GET" /\ r.path = p /\ r.handler = h
  BY RouteIs DEF Handlers, Methods
<1>2. s = <<r>>
  BY DEF Get
<1> HIDE DEF s, r
<1>3. s \in Seq(RouteSet) /\ DOMAIN s = {1} /\ s[1] = r
  BY <1>1, <1>2
<1>4. Regular(r) /\ ~Taker(r) /\ (Taken(r) => Len(p) = 2)
  BY <1>1, NotNames DEF Regular, IsNamed, IsWhole, IsIndex, Taker, Taken
<1>5. p # << >> => Len(p) # 0
  OBVIOUS
<1> QED
  BY <1>1, <1>3, <1>4, <1>5, NoTakers DEF s

LEMMA CrudIs ==
  ASSUME NEW x \in Names \ {"inventory"}, NEW k \in 1..7
  PROVE  LET r == Crud(x)[k]
         IN r \in RouteSet /\ IsCrud(r) /\ r.path[1] = x /\ Len(r.path) > 0
<1> DEFINE one == <<x>>
           some == <<x, ":id">>
           seed == <<x, "seed">>
<1>1. /\ one \in Seq(Words) /\ Len(one) = 1 /\ one[1] = x
      /\ some \in Seq(Words) /\ Len(some) = 2 /\ some[1] = x /\ some[2] = ":id"
      /\ seed \in Seq(Words) /\ Len(seed) = 2 /\ seed[1] = x /\ seed[2] = "seed"
  <2>1. x \in Words /\ ":id" \in Words /\ "seed" \in Words
    BY DEF Words
  <2> QED
    BY <2>1
<1>2. Crud(x) = << Route("GET", one, "list"), Route("POST", seed, "bulkSeed"), Route("GET", some, "getById"),
                   Route("POST", one, "create"), Route("PUT", some, "update"), Route("PATCH", some, "update"),
                   Route("DELETE", some, "remove") >>
  BY DEF Crud
<1> HIDE DEF one, some, seed
<1>3. \A h \in {"list", "getById", "create"} : h \in Plain
  BY DEF Plain
<1>4. /\ {"bulkSeed", "update", "remove", "list", "getById", "create"} \subseteq Handlers
      /\ x # ":id" /\ x # "inventory"
  BY NotNames DEF Handlers, Plain
<1>5. CASE k = 1
  <2>1. Crud(x)[1] = Route("GET", one, "list")
    BY <1>2
  <2>2. /\ Route("GET", one, "list") \in RouteSet /\ Route("GET", one, "list").method = "GET"
        /\ Route("GET", one, "list").path = one /\ Route("GET", one, "list").handler = "list"
    BY <1>1, <1>4, RouteIs DEF Methods
  <2>3. "list" \in Plain
    BY <1>3
  <2>4. PICK r : r = Crud(x)[k]
    OBVIOUS
  <2>5. r \in RouteSet /\ r.method = "GET" /\ r.path = one /\ r.handler = "list"
    BY <1>5, <2>1, <2>2, <2>4
  <2>6. r.path[1] = x /\ Len(r.path) = 1 /\ x # "inventory" /\ x # ":id"
    BY <1>1, <1>4, <2>5
  <2>7. r.handler \in Plain /\ r.method \in {"GET", "POST"}
    BY <2>3, <2>5
  <2>8. IsCrud(r)
    BY <2>6, <2>7 DEF IsCrud
  <2> QED
    BY <2>4, <2>5, <2>6, <2>8
<1>6. CASE k = 2
  BY <1>1, <1>2, <1>3, <1>4, <1>6, RouteIs DEF IsCrud, Methods
<1>7. CASE k = 3
  BY <1>1, <1>2, <1>3, <1>4, <1>7, RouteIs DEF IsCrud, Methods
<1>8. CASE k = 4
  BY <1>1, <1>2, <1>3, <1>4, <1>8, RouteIs DEF IsCrud, Methods
<1>9. CASE k = 5
  BY <1>1, <1>2, <1>3, <1>4, <1>9, RouteIs DEF IsCrud, Methods
<1>10. CASE k = 6
  BY <1>1, <1>2, <1>3, <1>4, <1>10, RouteIs DEF IsCrud, Methods
<1>11. CASE k = 7
  BY <1>1, <1>2, <1>3, <1>4, <1>11, RouteIs DEF IsCrud, Methods
<1> QED
  BY <1>5, <1>6, <1>7, <1>8, <1>9, <1>10, <1>11

LEMMA CrudOrderly ==
  ASSUME NEW x \in Names \ {"inventory"}
  PROVE  Orderly(Crud(x), {x}, {})
<1>1. PICK n \in Nat : n = 7
  OBVIOUS
<1>2. Crud(x) \in [1..n -> RouteSet]
  <2>1. Len(Crud(x)) = 7 /\ DOMAIN Crud(x) = 1..7 /\ Crud(x) = [k \in 1..7 |-> Crud(x)[k]]
    BY DEF Crud
  <2>2. \A k \in 1..7 : Crud(x)[k] \in RouteSet
    BY CrudIs
  <2> QED
    BY <1>1, <2>1, <2>2
<1>3. Crud(x) \in Seq(RouteSet) /\ DOMAIN Crud(x) = 1..7
  <2>1. PICK s \in [1..n -> RouteSet] : s = Crud(x)
    BY <1>2
  <2>2. s \in Seq(RouteSet) /\ DOMAIN s = 1..n
    OBVIOUS
  <2> QED
    BY <1>1, <2>1, <2>2
<1>4. \A k \in 1..7 : IsCrud(Crud(x)[k]) /\ Crud(x)[k].path[1] = x
  BY CrudIs
<1>5. \A k \in 1..7 : Regular(Crud(x)[k]) /\ ~Taken(Crud(x)[k])
  BY <1>4 DEF Regular, IsCrud, IsNamed, Taken
<1> QED
  BY <1>3, <1>4, <1>5, NoTaken

LEMMA CrudsOrderly ==
  ASSUME NEW N \in Nat, NEW names \in [1..N -> Names \ {"inventory"}]
  PROVE  Orderly(Cruds(names), {names[i] : i \in 1..N}, {})
<1> DEFINE X == {names[i] : i \in 1..N}
           s == Cruds(names)
           x(k) == names[((k - 1) \div 7) + 1]
           at(k) == ((k - 1) % 7) + 1
<1>1. Len(names) = N
  OBVIOUS
<1>2. s = [k \in 1..(7 * N) |-> Crud(x(k))[at(k)]]
  BY <1>1 DEF Cruds
<1>3. \A k \in 1..(7 * N) : ((k - 1) \div 7) + 1 \in 1..N /\ at(k) \in 1..7
  OBVIOUS
<1>4. \A k \in 1..(7 * N) : x(k) \in Names \ {"inventory"} /\ x(k) \in X
  BY <1>3
<1>5. ASSUME NEW k \in 1..(7 * N)
      PROVE  /\ s[k] \in RouteSet /\ IsCrud(s[k]) /\ s[k].path[1] \in X \cap Names
  <2>1. s[k] = Crud(x(k))[at(k)]
    BY <1>2
  <2>2. at(k) \in 1..7 /\ x(k) \in Names \ {"inventory"} /\ x(k) \in X
    BY <1>3, <1>4
  <2> HIDE DEF X, s, x, at
  <2> QED
    BY SMTT(30), <2>1, <2>2, CrudIs
<1> HIDE DEF s, X
<1>6. s \in Seq(RouteSet) /\ DOMAIN s = 1..(7 * N)
  <2>1. PICK n \in Nat : n = 7 * N
    OBVIOUS
  <2>2. DOMAIN s = 1..n /\ s = [k \in 1..n |-> s[k]]
    BY <1>2, <2>1
  <2>3. \A k \in 1..n : s[k] \in RouteSet
    BY <1>5, <2>1
  <2>4. s \in [1..n -> RouteSet]
    BY <2>2, <2>3
  <2> QED
    BY <2>1, <2>2, <2>4
<1>7. \A k \in DOMAIN s : Regular(s[k]) /\ ~Taken(s[k]) /\ s[k].path[1] \in X \cap Names
  BY <1>5, <1>6 DEF Regular, IsCrud, IsNamed, Taken
<1>8. Orderly(s, X, {})
  BY <1>6, <1>7, NoTaken
<1> QED
  BY <1>8 DEF s, X

\* Routes to fixed names.
LEMMA FanOrderly ==
  ASSUME NEW N \in Nat, NEW p, NEW h \in Plain, NEW X \in SUBSET Names,
         \A i \in 1..N : \E x \in X, y \in Words \ {":id", "68f0"} : p[i] = <<x, y>>
  PROVE  Orderly([i \in 1..N |-> Route("GET", p[i], h)], {}, X)
<1> DEFINE s == [i \in 1..N |-> Route("GET", p[i], h)]
<1>1. ASSUME NEW i \in 1..N
      PROVE  /\ s[i] \in RouteSet /\ IsNamed(s[i]) /\ s[i].path[1] \in X
  <2>1. PICK x \in X, y \in Words \ {":id", "68f0"} : p[i] = <<x, y>>
    OBVIOUS
  <2>2. PICK q : q = <<x, y>>
    OBVIOUS
  <2>3. x \in Words
    BY DEF Words
  <2>4. q \in Seq(Words) /\ Len(q) = 2 /\ q[1] = x /\ q[2] = y
    BY <2>2, <2>3
  <2>5. h \in Handlers /\ "GET" \in Methods
    BY DEF Handlers, Methods
  <2>6. PICK r : r = Route("GET", q, h)
    OBVIOUS
  <2>7. r \in RouteSet /\ r.method = "GET" /\ r.path = q /\ r.handler = h
    BY <2>4, <2>5, <2>6, RouteIs
  <2>8. s[i] = r
    BY <2>1, <2>2, <2>6
  <2>9. x # ":id"
    BY NotNames
  <2> QED
    BY <2>4, <2>7, <2>8, <2>9 DEF IsNamed
<1>2. DOMAIN s = 1..N
  OBVIOUS
<1>3. s = [i \in 1..N |-> s[i]]
  OBVIOUS
<1> HIDE DEF s
<1>4. s \in [1..N -> RouteSet]
  BY <1>1, <1>2, <1>3
<1>5. s \in Seq(RouteSet)
  BY <1>4
<1>6. \A i \in DOMAIN s : Regular(s[i]) /\ ~Taker(s[i]) /\ s[i].path[1] \in X /\ s[i].path[1] \in Names
  BY <1>1, <1>2 DEF Regular, IsNamed, Taker
<1>7. Orderly(s, {}, X)
  BY <1>5, <1>6, NoTakers
<1> QED
  BY <1>7 DEF s

LEMMA Wider ==
  ASSUME NEW s, NEW a, NEW b, NEW c, NEW d, Orderly(s, a, b), a \subseteq c, b \subseteq d
  PROVE  Orderly(s, c, d)
BY DEF Orderly

\* No takers at all.
LEMMA JoinedNamed ==
  ASSUME NEW s, NEW t, NEW X, Orderly(s, {}, X), Orderly(t, {}, X)
  PROVE  Orderly(s \o t, {}, X)
<1>1. Orderly(s \o t, {} \cup {}, X \cup X)
  BY Joined
<1>2. {} \cup {} = {} /\ X \cup X = X
  OBVIOUS
<1> QED
  BY <1>1, <1>2

LEMMA NamesAre ==
  /\ {"dashboard", "ai", "inventory", "notifications", "balance-sheet", "profit-loss", "trial-balance", "salary-sheet",
      "reports", "products", "customers", "pm-projects", "pm-tasks"} \subseteq Names
  /\ {"stock-in", "stock-out", "stock-transfers", "stock-adjustments"} \subseteq Names
BY DEF Names, Area

LEMMA DashboardOrderly == Orderly(DashboardRoutes, {}, Names)
<1> DEFINE W == Words \ {":id", "68f0"}
           x1 == <<"summary", "top-products", "business-alerts", "recent-invoices", "sales-trend", "revenue-trend">>
           x2 == <<"balance-sheet", "profit-loss", "trial-balance", "salary-sheet">>
           x3 == <<"sales", "product-sales", "purchases", "inventory", "customers", "suppliers", "financial", "hr">>
           p1 == [i \in 1..6 |-> <<"dashboard", x1[i]>>]
           p2 == [i \in 1..4 |-> <<x2[i], "summary">>]
           p3 == [i \in 1..8 |-> <<"reports", x3[i]>>]
           f1 == [i \in 1..6 |-> Route("GET", p1[i], "dashboard")]
           f2 == [i \in 1..4 |-> Route("GET", p2[i], "summary")]
           f3 == [i \in 1..8 |-> Route("GET", p3[i], "report")]
           chat == <<Route("POST", <<"ai", "chat">>, "chat")>>
           g1 == Get(<<"ai", "metrics">>, "metrics")
           g2 == Get(<<"inventory", "low-stock-alerts">>, "lowStock")
           g3 == Get(<<"notifications">>, "notifications")
<1>1. DashboardRoutes = f1 \o chat \o g1 \o g2 \o g3 \o f2 \o f3
  BY DEF DashboardRoutes
<1>2. {"dashboard", "summary", "report", "metrics", "lowStock", "notifications", "chat"} \subseteq Plain
  BY DEF Plain
<1>3. {"metrics", "low-stock-alerts", "summary", "chat"} \subseteq W
  BY DEF Words
<1>4. /\ \A i \in 1..6 : x1[i] \in W
      /\ \A i \in 1..4 : x2[i] \in Names
      /\ \A i \in 1..8 : x3[i] \in W
  <2>1. \A i \in 1..6 : x1[i] \in {"summary", "top-products", "business-alerts", "recent-invoices", "sales-trend", "revenue-trend"}
    OBVIOUS
  <2>2. \A i \in 1..4 : x2[i] \in {"balance-sheet", "profit-loss", "trial-balance", "salary-sheet"}
    OBVIOUS
  <2>3. \A i \in 1..8 : x3[i] \in {"sales", "product-sales", "purchases", "inventory", "customers", "suppliers", "financial", "hr"}
    OBVIOUS
  <2>4. /\ {"summary", "top-products", "business-alerts", "recent-invoices", "sales-trend", "revenue-trend"} \subseteq W
        /\ {"sales", "product-sales", "purchases", "inventory", "customers", "suppliers", "financial", "hr"} \subseteq W
    BY DEF Words
  <2> HIDE DEF W, x1, x2, x3
  <2> QED
    BY <2>1, <2>2, <2>3, <2>4, NamesAre
<1> HIDE DEF W, x1, x2, x3
<1>5. Orderly(f1, {}, Names)
  <2>1. \A i \in 1..6 : \E x \in Names, y \in Words \ {":id", "68f0"} : p1[i] = <<x, y>>
    BY <1>4, NamesAre DEF W
  <2> HIDE DEF p1
  <2> QED
    BY ZenonT(30), <1>2, <2>1, FanOrderly
<1>6. Orderly(f2, {}, Names)
  <2>1. \A i \in 1..4 : \E x \in Names, y \in Words \ {":id", "68f0"} : p2[i] = <<x, y>>
    BY <1>3, <1>4, NamesAre DEF W
  <2> HIDE DEF p2
  <2> QED
    BY ZenonT(30), <1>2, <2>1, FanOrderly
<1>7. Orderly(f3, {}, Names)
  <2>1. \A i \in 1..8 : \E x \in Names, y \in Words \ {":id", "68f0"} : p3[i] = <<x, y>>
    BY <1>4, NamesAre DEF W
  <2> HIDE DEF p3
  <2> QED
    BY ZenonT(30), <1>2, <2>1, FanOrderly
<1>8. Orderly(g1, {}, Names) /\ Orderly(g2, {}, Names) /\ Orderly(g3, {}, Names)
  <2>1. \A x \in Names : x \in Words
    BY DEF Words
  <2>2. ASSUME NEW x \in Names, NEW y \in W, NEW h \in Plain
        PROVE  Orderly(Get(<<x, y>>, h), {}, Names)
    <3>1. PICK q : q = <<x, y>>
      OBVIOUS
    <3>2. q \in Seq(Words) /\ Len(q) = 2 /\ q[1] = x /\ q[2] = y /\ y \notin {":id", "68f0"}
      BY <2>1, <3>1 DEF W
    <3>3. Orderly(Get(q, h), {}, Names)
      BY <3>2, GetIs
    <3> QED
      BY <3>1, <3>3
  <2>3. Orderly(g3, {}, Names)
    <3>1. PICK q : q = <<"notifications">>
      OBVIOUS
    <3>2. q \in Seq(Words) /\ Len(q) = 1 /\ q[1] \in Names
      BY <2>1, <3>1, NamesAre
    <3>3. Orderly(Get(q, "notifications"), {}, Names)
      BY <1>2, <3>2, GetIs
    <3> QED
      BY <3>1, <3>3
  <2> QED
    BY <1>2, <1>3, <2>2, <2>3, NamesAre
<1>9. Orderly(chat, {}, Names)
  <2>1. PICK q : q = <<"ai", "chat">>
    OBVIOUS
  <2>2. "ai" \in Names /\ "ai" \in Words /\ "chat" \in Words
    BY <1>3, NamesAre DEF W, Words
  <2>3. q \in Seq(Words) /\ Len(q) = 2 /\ q[1] = "ai" /\ q[2] = "chat" /\ q # << >>
    BY <2>1, <2>2
  <2>4. PICK r : r = Route("POST", q, "chat")
    OBVIOUS
  <2>5. "chat" \in Handlers /\ "chat" \in Plain
    BY <1>2 DEF Handlers
  <2>6. r \in RouteSet /\ r.method = "POST" /\ r.path = q /\ r.handler = "chat"
    BY <2>3, <2>4, <2>5, RouteIs DEF Methods
  <2>7. Regular(r) /\ ~Taker(r) /\ ~Taken(r)
    BY <2>3, <2>5, <2>6 DEF Regular, IsNamed, Taker, Taken
  <2>8. PICK s : s = <<r>>
    OBVIOUS
  <2>9. s \in Seq(RouteSet) /\ DOMAIN s = {1} /\ s[1] = r
    BY <2>6, <2>8
  <2>10. Orderly(s, {}, Names)
    BY <2>2, <2>3, <2>6, <2>7, <2>9, NoTakers
  <2> QED
    BY <2>1, <2>4, <2>8, <2>10
<1> HIDE DEF f1, f2, f3, g1, g2, g3, chat
<1>10. Orderly(f1 \o chat, {}, Names)
  BY <1>5, <1>9, JoinedNamed
<1>11. Orderly(f1 \o chat \o g1, {}, Names)
  BY <1>8, <1>10, JoinedNamed
<1>12. Orderly(f1 \o chat \o g1 \o g2, {}, Names)
  BY <1>8, <1>11, JoinedNamed
<1>13. Orderly(f1 \o chat \o g1 \o g2 \o g3, {}, Names)
  BY <1>8, <1>12, JoinedNamed
<1>14. Orderly(f1 \o chat \o g1 \o g2 \o g3 \o f2, {}, Names)
  BY <1>6, <1>13, JoinedNamed
<1>15. Orderly(f1 \o chat \o g1 \o g2 \o g3 \o f2 \o f3, {}, Names)
  BY <1>7, <1>14, JoinedNamed
<1> QED
  BY <1>1, <1>15

\* Crud routes of a list of names.
LEMMA CrudsAre ==
  ASSUME NEW N \in Nat, NEW names, Len(names) = N, DOMAIN names = 1..N, NEW X \in SUBSET (Names \ {"inventory"}),
         \A i \in 1..N : names[i] \in X, names = [i \in 1..N |-> names[i]]
  PROVE  Orderly(Cruds(names), X, {})
<1>1. names \in [1..N -> Names \ {"inventory"}]
  OBVIOUS
<1>2. Orderly(Cruds(names), {names[i] : i \in 1..N}, {})
  BY <1>1, CrudsOrderly
<1>3. {names[i] : i \in 1..N} \subseteq X
  OBVIOUS
<1> QED
  BY <1>2, <1>3, Wider

LEMMA ResourceNames ==
  {"customers", "products", "suppliers", "employees", "sales-orders", "invoices", "leads", "deals", "quotations",
   "deliveries", "dispatch", "payments", "returns", "complaints", "pos-transactions", "categories",
   "units", "warehouses", "raw-materials", "semi-finished-products", "finished-goods", "stock-in",
   "stock-out", "stock-transfers", "stock-adjustments"} \subseteq Names \ {"inventory", "pm-projects", "pm-tasks"}
BY DEF Names, Area

LEMMA ResourceOrderly == Orderly(ResourceRoutes, Names \ {"pm-projects", "pm-tasks"}, {"products"})
<1> DEFINE X == Names \ {"inventory", "pm-projects", "pm-tasks"}
           names == <<"products", "suppliers", "employees", "sales-orders", "invoices", "leads", "deals", "quotations",
             "deliveries", "dispatch", "payments", "returns", "complaints", "pos-transactions", "categories",
             "units", "warehouses", "raw-materials", "semi-finished-products", "finished-goods", "stock-in",
             "stock-out", "stock-transfers", "stock-adjustments">>
<1>1. PICK N \in Nat : N = 24
  OBVIOUS
<1>2. /\ Len(names) = N /\ DOMAIN names = 1..N
      /\ names = [i \in 1..N |-> names[i]]
  BY <1>1
<1>3. \A i \in 1..N : names[i] \in X
  <2>1. \A i \in 1..24 : names[i] \in
          {"customers", "products", "suppliers", "employees", "sales-orders", "invoices", "leads", "deals", "quotations",
           "deliveries", "dispatch", "payments", "returns", "complaints", "pos-transactions", "categories",
           "units", "warehouses", "raw-materials", "semi-finished-products", "finished-goods", "stock-in",
           "stock-out", "stock-transfers", "stock-adjustments"}
    OBVIOUS
  <2> HIDE DEF names
  <2> QED
    BY <1>1, <2>1, ResourceNames
<1>4. ResourceRoutes = Crud("customers") \o Get(<<"products", "next-sku">>, "nextSku") \o Cruds(names)
  BY DEF ResourceRoutes
<1> HIDE DEF names
<1>5. Orderly(Cruds(names), X, {})
  BY <1>2, <1>3, CrudsAre
<1>6. "customers" \in X /\ "products" \in X /\ "products" \in Names /\ "customers" # "products"
  BY ResourceNames
<1>7. Orderly(Crud("customers"), {"customers"}, {})
  BY <1>6, CrudOrderly
<1>8. Orderly(Get(<<"products", "next-sku">>, "nextSku"), {}, {"products"})
  <2>1. PICK q : q = <<"products", "next-sku">>
    OBVIOUS
  <2>2. "products" \in Words /\ "next-sku" \in Words
    BY <1>6 DEF Words
  <2>3. q \in Seq(Words) /\ Len(q) = 2 /\ q[1] = "products" /\ q[2] = "next-sku"
    BY <2>1, <2>2
  <2>4. "nextSku" \in Plain
    BY DEF Plain
  <2>5. Orderly(Get(q, "nextSku"), {}, {"products"})
    BY <1>6, <2>3, <2>4, GetIs
  <2> QED
    BY <2>1, <2>5
<1>9. Orderly(Crud("customers") \o Get(<<"products", "next-sku">>, "nextSku"), {"customers"} \cup {}, {} \cup {"products"})
  <2>1. {"customers"} \cap {"products"} = {}
    OBVIOUS
  <2> QED
    BY <1>7, <1>8, <2>1, Joined
<1>10. Orderly(ResourceRoutes, ({"customers"} \cup {}) \cup X, ({} \cup {"products"}) \cup {})
  BY <1>4, <1>5, <1>9, Joined
<1>11. ({"customers"} \cup {}) \cup X \subseteq Names \ {"pm-projects", "pm-tasks"}
  BY <1>6
<1>12. ({} \cup {"products"}) \cup {} \subseteq {"products"}
  OBVIOUS
<1> QED
  BY <1>10, <1>11, <1>12, Wider

LEMMA StockOrderly == Orderly(StockRoutes, {}, {})
<1>1. ASSUME NEW x \in {"stock-in", "stock-out", "stock-transfers", "stock-adjustments"}, NEW y \in {"approve", "complete"},
             NEW r, r = Route("POST", <<x, ":id", y>>, "moveStock")
      PROVE  /\ r \in RouteSet /\ Regular(r) /\ ~Taker(r) /\ ~Taken(r) /\ r.path[1] \in Names
  <2>1. PICK q : q = <<x, ":id", y>>
    OBVIOUS
  <2>2. x \in Names /\ x \in Words /\ ":id" \in Words /\ y \in Words
    BY NamesAre DEF Words
  <2>3. q \in Seq(Words) /\ Len(q) = 3 /\ q[1] = x /\ q[2] = ":id" /\ q[3] = y
    BY <2>1, <2>2
  <2>4. "moveStock" \in Handlers /\ "POST" \in Methods
    BY DEF Handlers, Methods
  <2>5. r \in RouteSet /\ r.method = "POST" /\ r.path = q /\ r.handler = "moveStock"
    BY <1>1, <2>1, <2>3, <2>4, RouteIs
  <2>6. x \in EditScope /\ x # ":id" /\ y # ":id"
    BY DEF EditScope
  <2>7. IsStep(r)
    BY <2>3, <2>5, <2>6 DEF IsStep
  <2>8. Len(r.path) = 3
    BY <2>3, <2>5
  <2> QED
    BY <2>2, <2>3, <2>5, <2>7, <2>8 DEF Regular, Taker, Taken, IsNamed
<1> DEFINE r1 == Route("POST", <<"stock-in", ":id", "approve">>, "moveStock")
           r2 == Route("POST", <<"stock-out", ":id", "complete">>, "moveStock")
           r3 == Route("POST", <<"stock-transfers", ":id", "complete">>, "moveStock")
           r4 == Route("POST", <<"stock-adjustments", ":id", "approve">>, "moveStock")
           Good(r) == r \in RouteSet /\ Regular(r) /\ ~Taker(r) /\ ~Taken(r) /\ r.path[1] \in Names
<1>2. StockRoutes = <<r1, r2, r3, r4>>
  BY DEF StockRoutes
<1>3. Good(r1) /\ Good(r2) /\ Good(r3) /\ Good(r4)
  BY <1>1
<1> HIDE DEF r1, r2, r3, r4
<1>4. PICK s : s = <<r1, r2, r3, r4>>
  OBVIOUS
<1>5. s \in Seq(RouteSet) /\ DOMAIN s = 1..4
  BY <1>3, <1>4
<1>6. \A i \in DOMAIN s : Good(s[i])
  <2>1. \A i \in DOMAIN s : s[i] \in {r1, r2, r3, r4}
    BY <1>4, <1>5
  <2> HIDE DEF Good
  <2> QED
    BY <1>3, <2>1
<1>7. Orderly(s, {}, {})
  BY <1>5, <1>6, NoTakers
<1> QED
  BY <1>2, <1>4, <1>7

LEMMA ExtendedNames ==
  {"purchase-orders", "goods-received", "vendor-bills", "purchase-payments", "purchase-returns", "recipes",
   "purchase-rm", "departments", "designations", "attendance", "leave-requests", "salary-structures",
   "payroll-runs", "payroll-slips", "production-orders", "machine-maintenance", "molds", "wastage", "packing",
   "journals", "ledger", "dues", "crm-activities", "wholesale-orders", "users", "roles", "permissions",
   "documents", "company-settings", "projects", "assets", "workflow-approvals", "audit-logs", "notifications",
   "cashbox", "trial-balance", "profit-loss", "balance-sheet", "salary-sheet"}
  \subseteq Names \ {"inventory", "pm-projects", "pm-tasks"}
BY DEF Names, Area

LEMMA ExtendedOrderly == Orderly(ExtendedRoutes, Names \ {"pm-projects", "pm-tasks"}, {})
<1> DEFINE X == Names \ {"inventory", "pm-projects", "pm-tasks"}
           names == <<"purchase-orders", "goods-received", "vendor-bills", "purchase-payments", "purchase-returns", "recipes",
          "purchase-rm", "departments", "designations", "attendance", "leave-requests", "salary-structures",
          "payroll-runs", "payroll-slips", "production-orders", "machine-maintenance", "molds", "wastage", "packing",
          "journals", "ledger", "dues", "crm-activities", "wholesale-orders", "users", "roles", "permissions",
          "documents", "company-settings", "projects", "assets", "workflow-approvals", "audit-logs", "notifications",
          "cashbox", "trial-balance", "profit-loss", "balance-sheet", "salary-sheet">>
<1>1. PICK N \in Nat : N = 39
  OBVIOUS
<1>2. /\ Len(names) = N /\ DOMAIN names = 1..N
      /\ names = [i \in 1..N |-> names[i]]
  BY <1>1
<1>3. \A i \in 1..N : names[i] \in X
  <2>1. \A i \in 1..39 : names[i] \in
          {"purchase-orders", "goods-received", "vendor-bills", "purchase-payments", "purchase-returns", "recipes",
           "purchase-rm", "departments", "designations", "attendance", "leave-requests", "salary-structures",
           "payroll-runs", "payroll-slips", "production-orders", "machine-maintenance", "molds", "wastage", "packing",
           "journals", "ledger", "dues", "crm-activities", "wholesale-orders", "users", "roles", "permissions",
           "documents", "company-settings", "projects", "assets", "workflow-approvals", "audit-logs", "notifications",
           "cashbox", "trial-balance", "profit-loss", "balance-sheet", "salary-sheet"}
    OBVIOUS
  <2> HIDE DEF names
  <2> QED
    BY <1>1, <2>1, ExtendedNames
<1>4. ExtendedRoutes = Cruds(names)
  BY DEF ExtendedRoutes
<1> HIDE DEF names
<1>5. Orderly(Cruds(names), X, {})
  BY <1>2, <1>3, CrudsAre
<1> QED
  BY <1>4, <1>5, Wider

LEMMA ProjectOrderly == Orderly(ProjectRoutes, {"pm-projects", "pm-tasks"}, {"pm-projects", "pm-tasks"})
<1> DEFINE X == {"pm-projects", "pm-tasks"}
           names == <<"pm-projects", "pm-tasks">>
           g1 == Get(<<"pm-projects", "summary">>, "summary")
           g2 == Get(<<"pm-tasks", "my">>, "myTasks")
           g3 == Get(<<"pm-tasks", "team-overview">>, "overview")
           step == <<Route("PATCH", <<"pm-tasks", ":id", "status">>, "patchStatus")>>
<1>1. ProjectRoutes = g1 \o g2 \o g3 \o step \o Cruds(names)
  BY DEF ProjectRoutes
<1>2. X \subseteq Names \ {"inventory"} /\ X \subseteq Words
  BY NamesAre DEF Words
<1>3. Orderly(Cruds(names), X, {})
  <2>1. PICK N \in Nat : N = 2
    OBVIOUS
  <2>2. Len(names) = N /\ DOMAIN names = 1..N /\ names = [i \in 1..N |-> names[i]]
    BY <2>1
  <2>3. \A i \in 1..N : names[i] \in X
    BY <2>1
  <2> HIDE DEF names, X
  <2> QED
    BY <1>2, <2>2, <2>3, CrudsAre
<1>4. Orderly(g1, {}, X) /\ Orderly(g2, {}, X) /\ Orderly(g3, {}, X)
  <2>1. ASSUME NEW x \in X, NEW y \in Words \ {":id", "68f0"}, NEW h \in Plain
        PROVE  Orderly(Get(<<x, y>>, h), {}, X)
    <3>1. PICK q : q = <<x, y>>
      OBVIOUS
    <3> HIDE DEF X
    <3>2. q \in Seq(Words) /\ Len(q) = 2 /\ q[1] = x /\ q[2] = y
      BY <1>2, <3>1
    <3>3. Orderly(Get(q, h), {}, X)
      BY <1>2, <3>2, GetIs
    <3> QED
      BY <3>1, <3>3
  <2>2. {"summary", "my", "team-overview"} \subseteq Words \ {":id", "68f0"} /\ {"summary", "myTasks", "overview"} \subseteq Plain
    BY DEF Words, Plain
  <2>3. "pm-projects" \in X /\ "pm-tasks" \in X
    OBVIOUS
  <2> HIDE DEF X
  <2> QED
    BY <2>1, <2>2, <2>3
<1>5. Orderly(step, {}, X)
  <2>1. PICK q : q = <<"pm-tasks", ":id", "status">>
    OBVIOUS
  <2>2. "pm-tasks" \in Names /\ "pm-tasks" \in Words /\ ":id" \in Words /\ "status" \in Words
    BY <1>2 DEF Words
  <2>3. q \in Seq(Words) /\ Len(q) = 3 /\ q[1] = "pm-tasks" /\ q[2] = ":id" /\ q[3] = "status"
    BY <2>1, <2>2
  <2>4. PICK r : r = Route("PATCH", q, "patchStatus")
    OBVIOUS
  <2>5. "patchStatus" \in Handlers /\ "patchStatus" \in Plain /\ "PATCH" \in Methods
    BY DEF Handlers, Plain, Methods
  <2>6. r \in RouteSet /\ r.method = "PATCH" /\ r.path = q /\ r.handler = "patchStatus"
    BY <2>3, <2>4, <2>5, RouteIs
  <2>7. Regular(r) /\ ~Taker(r) /\ ~Taken(r)
    BY <2>3, <2>5, <2>6 DEF Regular, IsStep, IsNamed, Taker, Taken
  <2>8. PICK s : s = <<r>>
    OBVIOUS
  <2>9. s \in Seq(RouteSet) /\ DOMAIN s = {1} /\ s[1] = r
    BY <2>6, <2>8
  <2> HIDE DEF X
  <2>10. Orderly(s, {}, X)
    BY <2>2, <2>3, <2>6, <2>7, <2>9, NoTakers
  <2> QED
    BY <2>1, <2>4, <2>8, <2>10
<1> HIDE DEF g1, g2, g3, step, X, names
<1>6. Orderly(g1 \o g2, {}, X)
  BY <1>4, JoinedNamed
<1>7. Orderly(g1 \o g2 \o g3, {}, X)
  BY <1>4, <1>6, JoinedNamed
<1>8. Orderly(g1 \o g2 \o g3 \o step, {}, X)
  BY <1>5, <1>7, JoinedNamed
<1>9. Orderly(ProjectRoutes, {} \cup X, X \cup {})
  <2>1. {} \cap {} = {}
    OBVIOUS
  <2> QED
    BY <1>1, <1>3, <1>8, <2>1, Joined
<1>10. {} \cup X = X /\ X \cup {} = X
  OBVIOUS
<1>11. Orderly(ProjectRoutes, X, X)
  BY <1>9, <1>10
<1> QED
  BY <1>11 DEF X

LEMMA RoutesOrderly == Orderly(Routes, Names, Names)
<1> DEFINE P == {"pm-projects", "pm-tasks"}
           O == Names \ P
           index == Get(<<>>, "index")
<1>1. Routes = index \o DashboardRoutes \o ResourceRoutes \o StockRoutes \o ExtendedRoutes \o ProjectRoutes
  BY DEF Routes
<1>2. Orderly(index, {}, Names)
  <2>1. PICK q : q = << >>
    OBVIOUS
  <2>2. q \in Seq(Words) /\ Len(q) = 0
    BY <2>1
  <2>3. "index" \in Plain
    BY DEF Plain
  <2>4. Orderly(Get(q, "index"), {}, Names)
    <3>1. Len(q) \in 0..2 /\ ~(Len(q) > 0) /\ Len(q) # 2
      BY <2>2
    <3> HIDE DEF index, O, P
    <3> QED
      BY <2>2, <2>3, <3>1, GetIs
  <2> QED
    BY <2>1, <2>4
<1>3. "products" \in Names /\ P \subseteq Names
  BY NamesAre
<1>4. Orderly(ResourceRoutes, O, {"products"}) /\ Orderly(ExtendedRoutes, O, {})
  BY ResourceOrderly, ExtendedOrderly
<1> HIDE DEF index
<1>5. Orderly(index \o DashboardRoutes, {}, Names)
  BY <1>2, DashboardOrderly, JoinedNamed
<1>6. Orderly(ProjectRoutes, P, P)
  BY ProjectOrderly
<1>7. O \cap P = {} /\ O \subseteq Names
  OBVIOUS
<1> HIDE DEF O, P
<1>8. Orderly(index \o DashboardRoutes \o ResourceRoutes, O, Names)
  <2>1. {} \cap {"products"} = {} /\ {} \cup O \subseteq O /\ Names \cup {"products"} \subseteq Names
    BY <1>3
  <2>2. Orderly(index \o DashboardRoutes \o ResourceRoutes, {} \cup O, Names \cup {"products"})
    BY <1>4, <1>5, <2>1, Joined
  <2> QED
    BY <2>1, <2>2, Wider
<1>9. Orderly(index \o DashboardRoutes \o ResourceRoutes \o StockRoutes, O, Names)
  <2>1. O \cap {} = {} /\ O \cup {} \subseteq O /\ Names \cup {} \subseteq Names
    OBVIOUS
  <2>2. Orderly(index \o DashboardRoutes \o ResourceRoutes \o StockRoutes, O \cup {}, Names \cup {})
    BY <1>8, <2>1, StockOrderly, Joined
  <2> QED
    BY <2>1, <2>2, Wider
<1>10. Orderly(index \o DashboardRoutes \o ResourceRoutes \o StockRoutes \o ExtendedRoutes, O, Names)
  <2>1. O \cap {} = {} /\ O \cup O \subseteq O /\ Names \cup {} \subseteq Names
    OBVIOUS
  <2>2. Orderly(index \o DashboardRoutes \o ResourceRoutes \o StockRoutes \o ExtendedRoutes, O \cup O, Names \cup {})
    BY <1>4, <1>9, <2>1, Joined
  <2> QED
    BY <2>1, <2>2, Wider
<1>11. Orderly(Routes, O \cup P, Names \cup P)
  BY <1>1, <1>6, <1>7, <1>10, Joined
<1>12. O \cup P \subseteq Names /\ Names \cup P \subseteq Names
  BY <1>3, <1>7
<1> QED
  BY <1>11, <1>12, Wider

\* A set of natural numbers that is not empty has a least element.
LEMMA LeastNumber ==
  ASSUME NEW T \in SUBSET Nat, T # {}
  PROVE  \E x \in T : \A y \in T : x <= y
<1> DEFINE R == {ss \in Nat \X Nat : ss[1] < ss[2]}
<1>1. IsWellFoundedOn(R, Nat)
  BY NatLessThanWellFounded DEF OpToRel
<1>2. PICK x \in T : \A y \in T : ~(<<y, x>> \in R)
  <2> HIDE DEF R
  <2> QED
    BY <1>1, WFMin
<1>3. \A y \in T : ~(y < x)
  BY <1>2
<1> QED
  BY <1>3

\* The route Express takes.
LEMMA RouteOfIs ==
  ASSUME NEW m, NEW p, NEW i \in DOMAIN Routes, Matches(Routes[i], m, p)
  PROVE  LET f == RouteOf(m, p)
         IN f \in DOMAIN Routes /\ Matches(Routes[f], m, p) /\ f <= i /\ f # 0
<1> DEFINE I == {j \in 1..Len(Routes) : Matches(Routes[j], m, p)}
<1>1. DOMAIN Routes = 1..Len(Routes) /\ Len(Routes) \in Nat
  BY RoutesOrderly DEF Orderly
<1>2. i \in I /\ I \subseteq Nat /\ I # {}
  BY <1>1
<1>3. PICK x \in I : \A y \in I : x <= y
  BY <1>2, LeastNumber
<1>4. RouteOf(m, p) = Min(I)
  BY <1>2 DEF RouteOf, SelectInSeq
<1>5. Min(I) \in I /\ \A y \in I : Min(I) <= y
  BY <1>3 DEF Min
<1>6. RouteOf(m, p) \in I /\ RouteOf(m, p) <= i
  BY <1>2, <1>4, <1>5
<1> QED
  BY <1>1, <1>6

\* No name is in two areas.
LEMMA OneArea ==
  ASSUME NEW x \in Names
  PROVE  \E s \in DOMAIN Area : \A t \in DOMAIN Area : x \in Area[t] <=> t = s
<1>1. PICK s \in DOMAIN Area : x \in Area[s]
  BY DEF Names
<1>2. ASSUME NEW t \in DOMAIN Area, x \in Area[t]
      PROVE  t = s
  <2>1. CASE s = "dashboard"
    BY <1>1, <1>2, <2>1 DEF Area
  <2>2. CASE s = "sales"
    BY <1>1, <1>2, <2>2 DEF Area
  <2>3. CASE s = "inventory"
    BY <1>1, <1>2, <2>3 DEF Area
  <2>4. CASE s = "purchases"
    BY <1>1, <1>2, <2>4 DEF Area
  <2>5. CASE s = "factory"
    BY <1>1, <1>2, <2>5 DEF Area
  <2>6. CASE s = "accounts"
    BY <1>1, <1>2, <2>6 DEF Area
  <2>7. CASE s = "hrm"
    BY <1>1, <1>2, <2>7 DEF Area
  <2>8. CASE s = "payroll"
    BY <1>1, <1>2, <2>8 DEF Area
  <2>9. CASE s \in {"projects", "assets", "approvals", "reports"}
    BY <1>1, <1>2, <2>9 DEF Area
  <2>10. CASE s = "administration"
    BY <1>1, <1>2, <2>10 DEF Area
  <2> QED
    BY <2>1, <2>2, <2>3, <2>4, <2>5, <2>6, <2>7, <2>8, <2>9, <2>10, AreasAre
<1> QED
  BY <1>1, <1>2

\* What is known of every route.
LEMMA RouteFacts ==
  ASSUME NEW i \in DOMAIN Routes, NEW r, r = Routes[i]
  PROVE  /\ r \in RouteSet /\ Regular(r)
         /\ r.path \in Seq(Words)
         /\ r.path # << >> => Len(r.path) > 0 /\ r.path[1] \in Names /\ Concrete(r.path)[1] = r.path[1] /\ Concrete(r.path) # << >>
         /\ r.path = << >> => Concrete(r.path) = << >>
         /\ Concrete(r.path) \in Seq(Words) /\ Len(Concrete(r.path)) = Len(r.path)
<1>1. r \in RouteSet /\ Regular(r) /\ (r.path # << >> => r.path[1] \in Names)
  BY RoutesOrderly DEF Orderly
<1>2. r.path \in Seq(Words)
  BY <1>1 DEF RouteSet
<1>3. Concrete(r.path) \in Seq(Words) /\ Len(Concrete(r.path)) = Len(r.path)
  BY <1>2, ConcreteIs
<1>4. r.path # << >> <=> Len(r.path) > 0
  BY <1>2
<1>5. Concrete(r.path) # << >> <=> Len(r.path) > 0
  BY <1>2, <1>3
<1>6. ASSUME r.path # << >>
      PROVE  Concrete(r.path)[1] = r.path[1]
  <2>1. 1 \in DOMAIN r.path
    BY <1>2, <1>4, <1>6
  <2>2. r.path[1] # ":id"
    BY <1>1, <1>6, NotNames
  <2> QED
    BY <2>1, <2>2, AsksIs DEF Asks
<1> QED
  BY <1>1, <1>2, <1>3, <1>4, <1>5, <1>6

(* Every route is reached, by its own request or that of an earlier route  *)
(* of the same path, and lies in one section.                              *)
LEMMA RoutesReached ==
  ASSUME NEW i \in DOMAIN Routes
  PROVE  RouteReached(i)
<1> DEFINE r == Routes[i]
           p == Concrete(r.path)
           f == RouteOf(r.method, p)
<1>1. /\ r \in RouteSet /\ Regular(r) /\ r.path \in Seq(Words)
      /\ r.path # << >> => r.path[1] \in Names
      /\ p \in Seq(Words) /\ Len(p) = Len(r.path)
  BY RouteFacts
<1>2. DOMAIN p = DOMAIN r.path /\ \A k \in DOMAIN r.path : p[k] = IF r.path[k] = ":id" THEN "68f0" ELSE r.path[k]
  BY AsksIs DEF Asks
<1>3. Matches(r, r.method, p)
  <2> HIDE DEF r, p
  <2> QED
    BY <1>1, <1>2 DEF Matches
<1>4. f \in DOMAIN Routes /\ Matches(Routes[f], r.method, p) /\ f <= i
  BY <1>3, RouteOfIs
<1>5. ~Takes(Routes[f], r)
  <2> HIDE DEF f, p
  <2> QED
    BY <1>4, RoutesOrderly DEF Orderly
<1>6. Routes[f].path = r.path
  <2> HIDE DEF f
  <2> QED
    BY <1>4, <1>5 DEF Takes, Asks
<1>7. ASSUME r.path # << >>
      PROVE  \E s \in Sections : SectionOf(r.path, {}) = {s}
  <2>1. PICK s \in DOMAIN Area : \A t \in DOMAIN Area : r.path[1] \in Area[t] <=> t = s
    BY <1>1, <1>7, OneArea
  <2> HIDE DEF r
  <2>2. SectionOf(r.path, {}) = {s}
    BY <1>7, <2>1 DEF SectionOf
  <2> QED
    BY <2>2 DEF Sections
<1> QED
  BY <1>6, <1>7 DEF RouteReached

\* The first segment of a request tells the section of its route.
LEMMA SameSection ==
  ASSUME NEW i \in DOMAIN Routes
  PROVE  \A other : "first" \notin other => SectionOf(Concrete(Routes[i].path), other) = SectionOf(Routes[i].path, {})
<1> DEFINE p == Routes[i].path
<1>1. /\ p # << >> => Concrete(p)[1] = p[1] /\ Concrete(p) # << >>
      /\ p = << >> => Concrete(p) = << >>
  BY RouteFacts
<1> HIDE DEF p
<1>2. \A other : "first" \notin other => SectionOf(Concrete(p), other) = SectionOf(p, {})
  BY <1>1 DEF SectionOf
<1> QED
  BY <1>2 DEF p

\* What it takes to get 200.
LEMMA VerdictIs ==
  ASSUME NEW u, NEW m, NEW p, NEW o, NEW q, NEW b
  PROVE  Verdict(u, m, p, o, q, b) = 200 <=>
           /\ u.active /\ PassesTenant(u, m, q, b) /\ PassesSection(u, p, o)
           /\ EditRequired(m, p, o) => CanEditInventory(u)
           /\ RouteOf(m, p) # 0
<1> DEFINE gates == /\ PassesTenant(u, m, q, b) /\ PassesSection(u, p, o)
                    /\ EditRequired(m, p, o) => CanEditInventory(u)
<1>1. Verdict(u, m, p, o, q, b) =
        CASE ~u.active -> 401
          [] u.active /\ ~gates -> 403
          [] OTHER -> IF RouteOf(m, p) = 0 THEN 404 ELSE 200
  BY DEF Verdict
<1> HIDE DEF gates
<1>2. Verdict(u, m, p, o, q, b) = 200 <=> u.active /\ gates /\ RouteOf(m, p) # 0
  BY <1>1
<1> QED
  BY <1>2 DEF gates

\* A granted section is one that was granted, or the dashboard.
LEMMA GrantedIs ==
  ASSUME NEW u, NEW s \in DOMAIN Area, CanAccessSection(u, s), u.role # "admin", NEW granted,
         u.sections = Undefined => granted = {}, u.sections # Undefined => granted = u.sections
  PROVE  {s, "*"} \cap granted # {} \/ (s = "dashboard" /\ granted \cap Sections = {})
<1>1. {"*", s} \cap AllowedSections(u.sections) # {}
  BY DEF CanAccessSection
<1>2. s # "*"
  BY AreasAre
<1>3. CASE u.sections = Undefined
  <2>1. AllowedSections(u.sections) = {"dashboard"}
    BY <1>3 DEF AllowedSections
  <2> QED
    BY <1>1, <1>3, <2>1
<1>4. CASE u.sections # Undefined /\ "*" \in u.sections
  BY <1>4
<1>5. CASE u.sections # Undefined /\ "*" \notin u.sections /\ u.sections \cap Sections = {}
  <2>1. AllowedSections(u.sections) = {"dashboard"}
    BY <1>5 DEF AllowedSections
  <2> QED
    BY <1>1, <1>5, <2>1
<1>6. CASE u.sections # Undefined /\ "*" \notin u.sections /\ u.sections \cap Sections # {}
  <2>1. AllowedSections(u.sections) = u.sections \cap Sections
    BY <1>6 DEF AllowedSections
  <2> QED
    BY <1>1, <1>6, <2>1
<1> QED
  BY <1>3, <1>4, <1>5, <1>6

\* The test of the path knows every route that changes existing inventory.
LEMMA EditsAreTold ==
  ASSUME NEW i \in DOMAIN Routes, EditsInventory(Routes[i]), NEW o,
         o = {} \/ ("first" \notin o /\ Routes[i].handler \in {"update", "remove"})
  PROVE  EditRequired(Routes[i].method, Concrete(Routes[i].path), o)
<1>1. PICK r : r = Routes[i]
  OBVIOUS
<1> DEFINE p == Concrete(r.path)
<1>2. /\ r \in RouteSet /\ Regular(r) /\ r.path \in Seq(Words)
      /\ r.path # << >> => r.path[1] \in Names /\ p[1] = r.path[1] /\ p # << >>
      /\ p \in Seq(Words) /\ Len(p) = Len(r.path)
  BY <1>1, RouteFacts
<1>3. DOMAIN p = DOMAIN r.path /\ \A k \in DOMAIN r.path : p[k] = IF r.path[k] = ":id" THEN "68f0" ELSE r.path[k]
  BY AsksIs DEF Asks
<1>4. r.handler \in {"moveStock", "update", "remove", "bulkSeed"} /\ (r.handler # "moveStock" => r.path[1] \in Area.inventory)
  BY <1>1 DEF EditsInventory
<1>5. r.handler \notin Plain
  BY <1>4 DEF Plain
<1>6. CASE IsStep(r)
  <2> SUFFICES EditRequired(r.method, p, o)
    BY <1>1
  <2>1. Len(r.path) = 3 /\ r.method = "POST" /\ r.path[1] \in EditScope /\ r.path[3] \in {"approve", "complete"}
    BY <1>5, <1>6 DEF IsStep
  <2>5. o = {}
    BY <1>1, <1>5, <1>6 DEF IsStep
  <2>2. r.path # << >> /\ 3 \in DOMAIN r.path
    BY <1>2, <2>1
  <2>3. p[3] = r.path[3]
    BY <1>3, <2>1, <2>2
  <2>4. Last(p) = r.path[3]
    BY <1>2, <2>1, <2>3 DEF Last
  <2> HIDE DEF p
  <2> QED
    BY <1>2, <2>1, <2>2, <2>4, <2>5 DEF EditRequired
<1>7. CASE IsCrud(r)
  <2> SUFFICES EditRequired(r.method, p, o)
    BY <1>1
  <2>1. /\ Len(r.path) = 2 /\ r.path[1] # "inventory" /\ r.handler # "moveStock"
        /\ \/ r.path[2] = "seed"
           \/ r.method \in {"PUT", "PATCH", "DELETE"}
    BY <1>4, <1>5, <1>7 DEF IsCrud
  <2>5. "first" \notin o /\ (o = {} \/ r.method \in {"PUT", "PATCH", "DELETE"})
    BY <1>1, <1>5, <1>7 DEF IsCrud
  <2>2. r.path[1] \in EditScope
    BY <1>4, <2>1 DEF Area, EditScope
  <2>3. r.path # << >> /\ 2 \in DOMAIN r.path
    BY <1>2, <2>1
  <2>4. r.path[2] = "seed" => Last(p) = "seed"
    BY <1>2, <1>3, <2>1, <2>3 DEF Last
  <2> HIDE DEF p
  <2> QED
    BY <1>2, <2>1, <2>2, <2>3, <2>4, <2>5 DEF EditRequired
<1>8. ~IsNamed(r) /\ ~IsWhole(r) /\ ~IsIndex(r)
  BY <1>5 DEF IsNamed, IsWhole, IsIndex
<1> QED
  BY <1>2, <1>6, <1>7, <1>8 DEF Regular

\* The data of a tool is that of a GET route in the tool's section.
LEMMA ToolsAre ==
  ASSUME NEW t \in Tools
  PROVE  \E x \in {"dashboard", "inventory"}, y \in Words \ {":id", "68f0", "seed"} :
           DataOf(t) = <<x, y>> /\ RequiredSections(t) = {x}
<1>1. {"low-stock-alerts", "sales-trend", "revenue-trend", "summary"} \subseteq Words \ {":id", "68f0", "seed"}
  BY DEF Words
<1>2. CASE t = "getLowStockCount"
  <2>1. DataOf(t) = <<"inventory", "low-stock-alerts">> /\ RequiredSections(t) = {"inventory"}
    BY <1>2 DEF DataOf, RequiredSections
  <2> QED
    BY <1>1, <2>1
<1>3. CASE t \in {"getTodaySales", "getSalesTrend"}
  <2>1. DataOf(t) = <<"dashboard", "sales-trend">> /\ RequiredSections(t) = {"dashboard"}
    BY <1>3 DEF DataOf, RequiredSections
  <2> QED
    BY <1>1, <2>1
<1>4. CASE t = "getRevenueTrend"
  <2>1. DataOf(t) = <<"dashboard", "revenue-trend">> /\ RequiredSections(t) = {"dashboard"}
    BY <1>4 DEF DataOf, RequiredSections
  <2> QED
    BY <1>1, <2>1
<1>5. CASE t = "getDashboardSummary"
  <2>1. DataOf(t) = <<"dashboard", "summary">> /\ RequiredSections(t) = {"dashboard"}
    BY <1>5 DEF DataOf, RequiredSections
  <2> QED
    BY <1>1, <2>1
<1> QED
  BY <1>2, <1>3, <1>4, <1>5 DEF Tools

\* Nothing a tool answers is kept from its user by a route.
LEMMA ToolsGuarded ==
  ASSUME NEW i \in DOMAIN Routes, NEW u \in User, NEW t \in Tools, DataOf(t) = Routes[i].path, u.active,
         CanExecuteTool(u, t)
  PROVE  Verdict(u, "GET", Routes[i].path, {}, Undefined, Undefined) = 200
<1>1. PICK r : r = Routes[i]
  OBVIOUS
<1>2. PICK p : p = r.path
  OBVIOUS
<1>3. r \in RouteSet /\ Regular(r) /\ p \in Seq(Words)
  BY <1>1, <1>2, RouteFacts
<1>4. PICK x \in {"dashboard", "inventory"}, y \in Words \ {":id", "68f0", "seed"} :
        p = <<x, y>> /\ RequiredSections(t) = {x}
  BY <1>1, <1>2, ToolsAre
<1>5. Len(p) = 2 /\ p[1] = x /\ p[2] = y /\ p # << >>
  BY <1>3, <1>4
<1>6. r.method = "GET"
  BY <1>2, <1>3, <1>4, <1>5 DEF Regular, IsCrud, IsNamed, IsWhole, IsIndex, IsStep
<1>7. Matches(r, "GET", p)
  BY <1>2, <1>6 DEF Matches
<1>8. RouteOf("GET", p) # 0
  BY <1>1, <1>7, RouteOfIs
<1>9. ~EditRequired("GET", p, {})
  <2>1. x \notin EditScope
    BY DEF EditScope
  <2> QED
    BY <1>5, <2>1 DEF EditRequired
<1>10. PassesTenant(u, "GET", Undefined, Undefined)
  BY DEF PassesTenant, TenantConflict
<1>11. SectionOf(p, {}) \subseteq {x}
  <2>1. x \in Names
    BY NamesAre
  <2>2. x \in DOMAIN Area /\ x \in Area[x]
    BY DEF Area
  <2>3. \A s \in DOMAIN Area : x \in Area[s] => s = x
    BY <2>1, <2>2, OneArea
  <2> QED
    BY <1>5, <2>3 DEF SectionOf
<1>12. CanAccessSection(u, x)
  <2>1. CASE u.role = "admin"
    BY <2>1 DEF CanAccessSection
  <2>2. CASE u.role # "admin"
    <3>1. PICK v : v = [u EXCEPT !.active = TRUE]
      OBVIOUS
    <3>2. CanAccessSection(v, x)
      BY <1>4, <2>2, <3>1 DEF CanExecuteTool
    <3>3. v.role = u.role /\ v.sections = u.sections
      BY <3>1 DEF User
    <3> QED
      BY <3>2, <3>3 DEF CanAccessSection
  <2> QED
    BY <2>1, <2>2
<1>13. PassesSection(u, p, {})
  BY <1>11, <1>12 DEF PassesSection
<1>14. Verdict(u, "GET", p, {}, Undefined, Undefined) = 200
  BY <1>8, <1>9, <1>10, <1>13, VerdictIs
<1> QED
  BY <1>1, <1>2, <1>14

LEMMA HandlersGuarded ==
  ASSUME NEW i \in DOMAIN Routes, NEW u \in User, NEW o
  PROVE  HandlerGuarded(i, u, o)
<1>1. PICK r : r = Routes[i]
  OBVIOUS
<1>2. PICK granted : granted = IF u.sections = Undefined THEN {} ELSE u.sections
  OBVIOUS
<1>3. ASSUME Verdict(u, r.method, Concrete(r.path), o, Undefined, Undefined) = 200
      PROVE  /\ u.active
             /\ "first" \notin o =>
                  u.role = "admin" \/ \A s \in SectionOf(r.path, {}) :
                    {s, "*"} \cap granted # {} \/ (s = "dashboard" /\ granted \cap Sections = {})
             /\ EditsInventory(r) /\ (o = {} \/ ("first" \notin o /\ r.handler \in {"update", "remove"})) =>
                  u.role = "admin" \/ "inventory:edit" \in u.permissions
  <2>1. /\ u.active /\ PassesSection(u, Concrete(r.path), o)
        /\ EditRequired(r.method, Concrete(r.path), o) => CanEditInventory(u)
    BY <1>3, VerdictIs
  <2>2. EditsInventory(r) /\ (o = {} \/ ("first" \notin o /\ r.handler \in {"update", "remove"})) =>
          u.role = "admin" \/ "inventory:edit" \in u.permissions
    BY <1>1, <2>1, EditsAreTold DEF CanEditInventory
  <2>3. "first" \notin o => \A s \in SectionOf(r.path, {}) : s \in DOMAIN Area /\ CanAccessSection(u, s)
    <3>1. "first" \notin o => \A s \in SectionOf(r.path, {}) : CanAccessSection(u, s)
      BY <1>1, <2>1, SameSection DEF PassesSection
    <3> QED
      BY <3>1 DEF SectionOf
  <2>4. ASSUME "first" \notin o, u.role # "admin", NEW s \in SectionOf(r.path, {})
        PROVE  {s, "*"} \cap granted # {} \/ (s = "dashboard" /\ granted \cap Sections = {})
    BY <1>2, <2>3, <2>4, GrantedIs
  <2> QED
    BY <2>1, <2>2, <2>4
<1>4. ASSUME NEW t \in Tools, DataOf(t) = r.path, u.active, ToolVerdict(u, t, TRUE) = "callable"
      PROVE  Verdict(u, "GET", r.path, {}, Undefined, Undefined) = 200
  <2>1. DataOf(t) = Routes[i].path
    BY <1>1, <1>4
  <2>2. CanExecuteTool(u, t)
    BY <1>4 DEF ToolVerdict
  <2>3. Verdict(u, "GET", Routes[i].path, {}, Undefined, Undefined) = 200
    BY <1>4, <2>1, <2>2, ToolsGuarded
  <2> QED
    BY <1>1, <2>3
<1> QED
  BY <1>1, <1>2, <1>3, <1>4 DEF HandlerGuarded

(* Whatever route, user and spelling are asked about - any role, any       *)
(* strings for sections and permissions - the route is reached by its own  *)
(* request, and the gates keep of its handler what GatesHold says they     *)
(* keep in that spelling: Express matches the routes in the order of       *)
(* src/routes behind the gates of src/middleware.                          *)
THEOREM GatesHoldThm == asked \in Asked \cup {<< >>} => GatesHold
<1> SUFFICES ASSUME asked \in Asked, asked # << >>
             PROVE  RouteReached(asked.route) /\ HandlerGuarded(asked.route, asked.user, asked.other)
  BY DEF GatesHold
<1>1. asked.route \in 1..Len(Routes) /\ asked.user \in User
  BY DEF Asked
<1>2. DOMAIN Routes = 1..Len(Routes)
  BY RoutesOrderly DEF Orderly
<1> QED
  BY <1>1, <1>2, RoutesReached, HandlersGuarded
=============================================================================
