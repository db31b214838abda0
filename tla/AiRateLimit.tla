----------------------------- MODULE AiRateLimit -----------------------------
(***************************************************************************)
(* The sliding window of src/ai/chat/aiRateLimiter.ts: how many chat       *)
(* requests of a user one server process admits in a minute.  The check is *)
(* synchronous, hence one action.                                          *)
(***************************************************************************)
EXTENDS Integers, FiniteSets

CONSTANTS
  Users,
  Chats,      \* chat requests, each handled once
  UserOf,     \* [Chats -> Users]
  Limit,      \* AI_RATE_LIMIT_PER_MIN
  WindowMs,   \* WINDOW_MS, in ticks of the clock
  MaxTime     \* bound on the clock

ASSUME LimiterAssumption ==
  /\ UserOf \in [Chats -> Users]
  /\ Limit \in Nat \ {0}
  /\ WindowMs \in Nat \ {0}
  /\ MaxTime \in Nat

VARIABLES
  now,
  windows,    \* [Users -> set of timestamps], empty for a user without an entry
  admitted    \* history: the timestamps of all requests let through

limiterVars == <<now, windows, admitted>>

\* A timestamp belongs to the request that left it: two may be equal.
Stamps == [chat : Chats, at : 0..MaxTime]
StampOf(c) == [chat |-> c, at |-> now]

\* Mutant: a timestamp is given up one tick too early.
Kept_Early(u) == {s \in windows[u] : s.at > now - WindowMs + 1}
\* Mutant: a timestamp is kept one tick too long.
Kept_Late(u) == {s \in windows[u] : s.at >= now - WindowMs}
\* pruneOldTimestamps
Kept(u) == {s \in windows[u] : s.at > now - WindowMs}

\* checkAiRateLimit lets the request through.
Admit(c) ==
  LET u == UserOf[c]
  IN /\ Cardinality(Kept(u)) < Limit
     /\ windows' = [windows EXCEPT ![u] = Kept(u) \cup {StampOf(c)}]
     /\ admitted' = admitted \cup {StampOf(c)}
     /\ UNCHANGED now

\* checkAiRateLimit throws 429: the request leaves no timestamp.
Refuse(c) ==
  LET u == UserOf[c]
  IN /\ Cardinality(Kept(u)) >= Limit
     /\ windows' = [windows EXCEPT ![u] = Kept(u)]
     /\ UNCHANGED <<now, admitted>>

Tick ==
  /\ now < MaxTime
  /\ now' = now + 1
  /\ UNCHANGED <<windows, admitted>>

LimiterInit ==
  /\ now = 0
  /\ windows = [u \in Users |-> {}]
  /\ admitted = {}

LimiterNext == Tick \/ \E c \in Chats : Admit(c) \/ Refuse(c)

LimiterSpec == LimiterInit /\ [][LimiterNext]_limiterVars

-----------------------------------------------------------------------------
(* Properties.                                                             *)

LimiterTypeOK ==
  /\ now \in 0..MaxTime
  /\ windows \in [Users -> SUBSET Stamps]
  /\ admitted \subseteq Stamps

AdmittedWithin(u, from) ==
  {s \in admitted : UserOf[s.chat] = u /\ s.at >= from /\ s.at < from + WindowMs}

(* "Default: 30 requests/minute per user": no stretch of time as long as   *)
(* the window, wherever it begins, holds more requests of a user than the  *)
(* limit.                                                                  *)
WindowRespected ==
  \A u \in Users : \A from \in 0..MaxTime : Cardinality(AdmittedWithin(u, from)) <= Limit
=============================================================================
