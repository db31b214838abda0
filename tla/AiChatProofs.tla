-------------------------- MODULE AiChatProofs --------------------------
(***************************************************************************)
(* The rate limiter and the chat: how many requests of a user there are    *)
(* within a window, how often a request calls the provider and its tools,  *)
(* what the provider is sent, and what the counters say, for every limit,  *)
(* window, number of users, of requests, of rounds and of tool calls.      *)
(***************************************************************************)
EXTENDS AiChat, FiniteSetTheorems, TLAPS

-----------------------------------------------------------------------------
(* The sliding window holds whatever the limit, the window and the users.  *)
(* The argument: what was admitted within the last window is still in the  *)
(* user's entry, so the entry is never smaller than what it must bound.    *)

Recent(u) == {s \in admitted : UserOf[s.chat] = u /\ s.at > now - WindowMs}

\* Pruning never drops a timestamp that still counts.
EntriesComplete == \A u \in Users : Recent(u) \subseteq windows[u]
EntriesFinite == \A u \in Users : IsFiniteSet(windows[u])
NothingAhead == \A s \in admitted : s.at <= now

WindowInv == LimiterTypeOK /\ EntriesComplete /\ EntriesFinite /\ NothingAhead /\ WindowRespected

LEMMA WindowInit == LimiterInit => WindowInv
<1> SUFFICES ASSUME LimiterInit PROVE WindowInv
  OBVIOUS
<1>1. LimiterTypeOK /\ EntriesComplete /\ NothingAhead
  BY LimiterAssumption DEF LimiterInit, LimiterTypeOK, EntriesComplete, NothingAhead, Recent, Stamps
<1>2. EntriesFinite
  BY FS_EmptySet DEF LimiterInit, EntriesFinite
<1>3. ASSUME NEW u \in Users, NEW from \in 0..MaxTime
      PROVE  Cardinality(AdmittedWithin(u, from)) <= Limit
  <2>1. AdmittedWithin(u, from) = {}
    BY DEF AdmittedWithin, LimiterInit
  <2> QED
    BY <2>1, FS_EmptySet, LimiterAssumption
<1> QED
  BY <1>1, <1>2, <1>3 DEF WindowInv, WindowRespected

\* The step that matters: the new timestamp and everything it shares a
\* window with fit into the pruned entry, which was below the limit.
LEMMA AdmitKeepsWindow ==
  ASSUME WindowInv, NEW c \in Chats, Admit(c)
  PROVE  WindowRespected'
<1> DEFINE u == UserOf[c]
           new == StampOf(c)
<1>1. u \in Users /\ now \in 0..MaxTime /\ Limit \in Nat /\ WindowMs \in Nat
  BY LimiterAssumption DEF WindowInv, LimiterTypeOK
<1>2. IsFiniteSet(Kept(u)) /\ Cardinality(Kept(u)) \in Nat
  <2>1. IsFiniteSet(windows[u]) /\ Kept(u) \subseteq windows[u]
    BY <1>1 DEF WindowInv, EntriesFinite, Kept
  <2> QED
    BY <2>1, FS_Subset, FS_CardinalityType
<1>3. IsFiniteSet(Kept(u) \cup {new}) /\ Cardinality(Kept(u) \cup {new}) <= Limit
  <2>1. Cardinality(Kept(u)) < Limit
    BY DEF Admit
  <2>2. /\ IsFiniteSet(Kept(u) \cup {new})
        /\ Cardinality(Kept(u) \cup {new}) = IF new \in Kept(u) THEN Cardinality(Kept(u))
                                            ELSE Cardinality(Kept(u)) + 1
    BY <1>2, FS_AddElement
  <2> QED
    BY <1>1, <1>2, <2>1, <2>2
<1> SUFFICES ASSUME NEW v \in Users, NEW from \in 0..MaxTime
             PROVE  Cardinality(AdmittedWithin(v, from)') <= Limit
  BY DEF WindowRespected
<1>4. admitted' = admitted \cup {new} /\ new.chat = c /\ new.at = now
  BY DEF Admit, StampOf
<1>5. CASE v = u /\ from <= now /\ now < from + WindowMs
  <2>1. ASSUME NEW s \in AdmittedWithin(v, from)' PROVE s \in Kept(u) \cup {new}
    <3>1. s \in admitted \cup {new} /\ UserOf[s.chat] = u /\ s.at >= from
      BY <2>1, <1>4, <1>5 DEF AdmittedWithin
    <3>2. CASE s \in admitted
      <4>1. s.at \in Nat
        BY <3>2 DEF WindowInv, LimiterTypeOK, Stamps
      <4>2. s.at > now - WindowMs
        BY <4>1, <3>1, <1>5, <1>1
      <4>3. s \in windows[u]
        BY <4>2, <3>1, <3>2, <1>1 DEF WindowInv, EntriesComplete, Recent
      <4> QED
        BY <4>2, <4>3 DEF Kept
    <3> QED
      BY <3>1, <3>2
  <2>2. AdmittedWithin(v, from)' \subseteq Kept(u) \cup {new}
    BY <2>1
  <2>3. /\ IsFiniteSet(AdmittedWithin(v, from)')
        /\ Cardinality(AdmittedWithin(v, from)') <= Cardinality(Kept(u) \cup {new})
    BY <2>2, <1>3, FS_Subset
  <2>4. /\ Cardinality(AdmittedWithin(v, from)') \in Nat
        /\ Cardinality(Kept(u) \cup {new}) \in Nat
    BY <2>3, <1>3, FS_CardinalityType
  <2> QED
    BY <2>3, <2>4, <1>3, <1>1
<1>6. CASE ~(v = u /\ from <= now /\ now < from + WindowMs)
  <2>1. AdmittedWithin(v, from)' = AdmittedWithin(v, from)
    BY <1>4, <1>6, <1>1 DEF AdmittedWithin
  <2> QED
    BY <2>1 DEF WindowInv, WindowRespected
<1> QED
  BY <1>5, <1>6

LEMMA WindowStep == WindowInv /\ [LimiterNext]_limiterVars => WindowInv'
<1> SUFFICES ASSUME WindowInv, [LimiterNext]_limiterVars PROVE WindowInv'
  OBVIOUS
<1> USE LimiterAssumption DEF WindowInv
<1>1. ASSUME NEW c \in Chats, Admit(c) PROVE WindowInv'
  <2> DEFINE u == UserOf[c]
  <2>1. u \in Users /\ StampOf(c) \in Stamps
    BY DEF LimiterTypeOK, StampOf, Stamps
  <2>2. LimiterTypeOK'
    BY <1>1, <2>1 DEF Admit, Kept, LimiterTypeOK
  <2>3. EntriesComplete'
    BY <1>1, <2>1 DEF Admit, EntriesComplete, Recent, Kept, LimiterTypeOK, StampOf
  <2>4. EntriesFinite'
    <3>1. IsFiniteSet(Kept(u) \cup {StampOf(c)})
      BY <2>1, FS_Subset, FS_AddElement DEF EntriesFinite, Kept
    <3> QED
      BY <1>1, <3>1, <2>1 DEF Admit, EntriesFinite, LimiterTypeOK
  <2>5. NothingAhead'
    BY <1>1 DEF Admit, NothingAhead, StampOf, LimiterTypeOK
  <2> QED
    BY <2>2, <2>3, <2>4, <2>5, <1>1, AdmitKeepsWindow
<1>2. ASSUME NEW c \in Chats, Refuse(c) PROVE WindowInv'
  <2> DEFINE u == UserOf[c]
  <2>1. u \in Users
    OBVIOUS
  <2>2. LimiterTypeOK'
    BY <1>2, <2>1 DEF Refuse, Kept, LimiterTypeOK
  <2>3. EntriesComplete'
    BY <1>2, <2>1 DEF Refuse, EntriesComplete, Recent, Kept, LimiterTypeOK
  <2>4. EntriesFinite'
    <3>1. IsFiniteSet(Kept(u))
      BY <2>1, FS_Subset DEF EntriesFinite, Kept
    <3> QED
      BY <1>2, <3>1, <2>1 DEF Refuse, EntriesFinite, LimiterTypeOK
  <2> QED
    BY <2>2, <2>3, <2>4, <1>2 DEF Refuse, NothingAhead, WindowRespected, AdmittedWithin
<1>3. CASE Tick
  <2>1. now \in Int /\ MaxTime \in Int /\ now' = now + 1 /\ WindowMs \in Int
    BY <1>3 DEF Tick, LimiterTypeOK
  <2>2. LimiterTypeOK'
    BY <1>3, <2>1 DEF Tick, LimiterTypeOK
  <2>3. \A s \in admitted : s.at \in Int
    BY DEF LimiterTypeOK, Stamps
  <2>4. EntriesComplete' /\ NothingAhead'
    BY <1>3, <2>1, <2>3 DEF Tick, EntriesComplete, Recent, NothingAhead
  <2> QED
    BY <1>3, <2>2, <2>4 DEF Tick, EntriesFinite, WindowRespected, AdmittedWithin
<1>4. CASE UNCHANGED limiterVars
  BY <1>4 DEF limiterVars, LimiterTypeOK, EntriesComplete, EntriesFinite, NothingAhead, Recent,
              WindowRespected, AdmittedWithin
<1> QED
  BY <1>1, <1>2, <1>3, <1>4 DEF LimiterNext

(* A process never lets more than AI_RATE_LIMIT_PER_MIN requests of a user *)
(* through in any stretch of WINDOW_MS, for every limit, window and set of *)
(* users, and however many requests arrive at the same instant.            *)
THEOREM WindowRespectedThm == LimiterSpec => []WindowRespected
<1>1. LimiterSpec => []WindowInv
  BY WindowInit, WindowStep, PTL DEF LimiterSpec
<1>2. WindowInv => WindowRespected
  BY DEF WindowInv
<1> QED
  BY <1>1, <1>2, PTL

-----------------------------------------------------------------------------
(* The handlers use the limiter as its specification says.                 *)

LEMMA LimiterSimulation == [Next]_vars => [LimiterNext]_limiterVars
<1> SUFFICES ASSUME [Next]_vars PROVE [LimiterNext]_limiterVars
  OBVIOUS
<1>1. ASSUME NEW c \in Chats, Handle(c) PROVE [LimiterNext]_limiterVars
  <2>1. CASE Receive(c)
    BY <2>1 DEF Receive, LimiterNext
  <2>2. CASE Respond(c)
    BY <2>2 DEF Respond
  <2>3. CASE AskTools(c)
    BY <2>3 DEF AskTools
  <2>4. CASE Collect(c)
    BY <2>4 DEF Collect
  <2>5. ASSUME NEW k \in Keys, ToolReturns(c, k) PROVE [LimiterNext]_limiterVars
    BY <2>5 DEF ToolReturns
  <2> QED
    BY <1>1, <2>1, <2>2, <2>3, <2>4, <2>5 DEF Handle
<1>2. CASE Tick
  BY <1>2 DEF LimiterNext
<1>3. CASE UNCHANGED vars
  BY <1>3 DEF vars
<1> QED
  BY <1>1, <1>2, <1>3 DEF Next

(* Chat requests, whatever they do besides, are admitted only as the       *)
(* sliding window allows: the chat implements the limiter.                 *)
THEOREM ImplementsLimiter == Spec => LimiterSpec
<1>1. Init => LimiterInit
  BY DEF Init
<1> QED
  BY <1>1, LimiterSimulation, PTL DEF Spec, LimiterSpec

(* So no more than AI_RATE_LIMIT_PER_MIN requests of a user reach the      *)
(* provider in any stretch of WINDOW_MS.                                   *)
THEOREM ChatWindowRespected == Spec => []WindowRespected
BY ImplementsLimiter, WindowRespectedThm, PTL

-----------------------------------------------------------------------------
(* The cost of a request, and how it ends.                                 *)

Fields == {"pc", "answer", "messages", "toolRounds", "providerCalls", "round",
           "toolResultCache", "executions"}

\* Up to the last one, every call of the provider asks for a round of tools.
RoundsCounted(r) ==
  /\ r.toolRounds \in 0..(MaxToolRounds + 1) /\ r.providerCalls \in Nat
  /\ r.pc \in {"provider", "tools"} => r.providerCalls = r.toolRounds /\ r.toolRounds <= MaxToolRounds
  /\ r.pc = "new" => r.toolRounds = 0 /\ r.providerCalls = 0
  /\ r.providerCalls <= MaxToolRounds + 1

\* Only keys that have a result have been executed.
ExecutedOnce(r) ==
  /\ r.toolResultCache \in [Keys -> Results \cup {"none", "running"}]
  /\ r.executions \in [Keys -> {0, 1}]
  /\ \A k \in Keys : r.executions[k] = 1 => r.toolResultCache[k] \in Results

\* A request has an answer once it is done.
AnswerGiven(r) ==
  /\ r.pc \in {"new", "provider", "tools", "done"}
  /\ r.answer \in Answers \cup {"none"}
  /\ r.pc = "done" <=> r.answer # "none"

\* The conversation plays no part here: it may be any value.
Good(r) == DOMAIN r = Fields /\ RoundsCounted(r) /\ ExecutedOnce(r) /\ AnswerGiven(r)
CostInv == chat = [c \in Chats |-> chat[c]] /\ \A c \in Chats : Good(chat[c])

LEMMA CostInit == Init => CostInv
<1> SUFFICES ASSUME Init PROVE CostInv
  OBVIOUS
<1>1. Good(NewChat)
  <2>1. DOMAIN NewChat = Fields
    BY DEF Fields, NewChat
  <2>2. RoundsCounted(NewChat)
    BY ChatAssumption DEF RoundsCounted, NewChat
  <2>3. ExecutedOnce(NewChat)
    BY DEF ExecutedOnce, NewChat
  <2>4. AnswerGiven(NewChat)
    BY DEF AnswerGiven, NewChat, Answers
  <2> QED
    BY <2>1, <2>2, <2>3, <2>4 DEF Good
<1> QED
  BY <1>1 DEF Init, CostInv

\* A step changes the state of one request.
LEMMA OneChat ==
  ASSUME CostInv, NEW c \in Chats, NEW r, Good(r), chat' = [chat EXCEPT ![c] = r]
  PROVE  CostInv'
<1>1. \A d \in Chats : chat'[d] = IF d = c THEN r ELSE chat[d]
  BY DEF CostInv
<1>2. chat' = [d \in Chats |-> chat'[d]]
  BY <1>1 DEF CostInv
<1>3. \A d \in Chats : Good(chat'[d])
  BY <1>1 DEF CostInv
<1> QED
  BY <1>2, <1>3 DEF CostInv, Good, RoundsCounted, ExecutedOnce, AnswerGiven

\* What matters of a request that ends: its calls, and who has been executed.
Counted(r) == DOMAIN r = Fields /\ r.toolRounds \in 0..(MaxToolRounds + 1) /\ r.providerCalls \in 0..(MaxToolRounds + 1)

LEMMA FinishKeeps ==
  ASSUME CostInv, NEW c \in Chats, NEW r, NEW answer \in Answers, Counted(r), ExecutedOnce(r), Finish(c, r, answer)
  PROVE  CostInv'
<1> DEFINE ended == [r EXCEPT !.pc = "done", !.answer = answer, !.messages = <<>>, !.round = <<>>]
<1>1. chat' = [chat EXCEPT ![c] = ended]
  BY DEF Finish
<1>2. DOMAIN ended = Fields
  BY DEF Counted
<1>3. ended.pc = "done" /\ ended.answer = answer /\ ended.toolRounds = r.toolRounds /\ ended.providerCalls = r.providerCalls
  BY DEF Counted, Fields
<1>4. ended.toolResultCache = r.toolResultCache /\ ended.executions = r.executions
  BY DEF Counted, Fields
<1> HIDE DEF ended
<1>5. RoundsCounted(ended)
  BY <1>3, ChatAssumption DEF Counted, RoundsCounted
<1>6. ExecutedOnce(ended)
  BY <1>4 DEF ExecutedOnce
<1>7. AnswerGiven(ended)
  BY <1>3 DEF AnswerGiven, Answers
<1> QED
  BY <1>1, <1>2, <1>5, <1>6, <1>7, OneChat DEF Good

LEMMA RespondKeeps ==
  ASSUME CostInv, NEW c \in Chats, Respond(c) PROVE CostInv'
<1> DEFINE q == [chat[c] EXCEPT !.providerCalls = @ + 1]
<1>1. Good(chat[c]) /\ chat[c].pc = "provider"
  BY DEF CostInv, Respond
<1>2. q.toolRounds = chat[c].toolRounds /\ q.providerCalls = chat[c].providerCalls + 1
  BY <1>1 DEF Good, Fields
<1>3. q.toolResultCache = chat[c].toolResultCache /\ q.executions = chat[c].executions
  BY <1>1 DEF Good, Fields
<1>4. DOMAIN q = Fields
  BY <1>1 DEF Good
<1>5. \E answer \in Answers : Finish(c, q, answer)
  BY DEF Respond, Answers
<1> HIDE DEF q
<1>6. Counted(q)
  BY <1>1, <1>2, <1>4, ChatAssumption DEF Good, Counted, RoundsCounted
<1>7. ExecutedOnce(q)
  BY <1>1, <1>3 DEF Good, ExecutedOnce
<1> QED
  BY <1>5, <1>6, <1>7, FinishKeeps

\* Keys that are asked for again keep their result.
LEMMA AskToolsKeeps ==
  ASSUME CostInv, NEW c \in Chats, AskTools(c) PROVE CostInv'
<1> DEFINE q == [chat[c] EXCEPT !.providerCalls = @ + 1, !.toolRounds = @ + 1]
<1>1. Good(chat[c]) /\ chat[c].pc = "provider"
  BY DEF CostInv, AskTools
<1>2. q.toolRounds = chat[c].toolRounds + 1 /\ q.providerCalls = chat[c].providerCalls + 1
  BY <1>1 DEF Good, Fields
<1>3. q.toolResultCache = chat[c].toolResultCache /\ q.executions = chat[c].executions
  BY <1>1 DEF Good, Fields
<1>4. DOMAIN q = Fields
  BY <1>1 DEF Good
<1>5. PICK calls \in Calls :
        IF q.toolRounds > MaxToolRounds
        THEN Finish(c, q, "roundLimit")
        ELSE chat' = [chat EXCEPT ![c] = Asked(q, calls, Uncached(q, calls))] /\ UNCHANGED metrics
  BY DEF AskTools
<1> HIDE DEF q
<1>6. Counted(q)
  BY <1>1, <1>2, <1>4, ChatAssumption DEF Good, Counted, RoundsCounted
<1>7. ExecutedOnce(q)
  BY <1>1, <1>3 DEF Good, ExecutedOnce
<1>8. CASE q.toolRounds > MaxToolRounds
  BY <1>5, <1>6, <1>7, <1>8, FinishKeeps DEF Answers
<1>9. CASE ~(q.toolRounds > MaxToolRounds)
  <2> DEFINE uncached == Uncached(q, calls)
             cache == [k \in Keys |-> IF k \in uncached THEN "running" ELSE q.toolResultCache[k]]
             asked == Asked(q, calls, uncached)
  <2>1. chat' = [chat EXCEPT ![c] = asked]
    BY <1>5, <1>9
  <2>2. DOMAIN asked = Fields
    BY <1>4 DEF Asked
  <2>3. asked.pc = "tools" /\ asked.answer = chat[c].answer /\ asked.toolRounds = q.toolRounds /\ asked.providerCalls = q.providerCalls
    BY <1>1, <1>4 DEF Asked, Fields, Good, q
  <2>4. asked.executions = q.executions /\ asked.toolResultCache = cache
    BY <1>4 DEF Asked, Fields
  <2>5. \A k \in uncached : q.toolResultCache[k] = "none"
    BY DEF Uncached
  <2> HIDE DEF asked, uncached
  <2>6. RoundsCounted(asked)
    BY <1>1, <1>2, <1>9, <2>3, ChatAssumption DEF Good, RoundsCounted
  <2>7. cache \in [Keys -> Results \cup {"none", "running"}]
    BY <1>7 DEF ExecutedOnce
  <2>8. \A k \in Keys : q.executions[k] = 1 => cache[k] \in Results
    BY <1>7, <2>5 DEF ExecutedOnce, Results
  <2>9. ExecutedOnce(asked)
    BY <1>7, <2>4, <2>7, <2>8 DEF ExecutedOnce
  <2> QED
    BY <1>1, <2>1, <2>2, <2>3, <2>6, <2>9, OneChat DEF Good, AnswerGiven
<1> QED
  BY <1>8, <1>9

\* Only a running call returns, so no key is executed a second time.
LEMMA ToolReturnsKeeps ==
  ASSUME CostInv, NEW c \in Chats, NEW k \in Keys, ToolReturns(c, k) PROVE CostInv'
<1> DEFINE r == chat[c]
<1>1. Good(r) /\ r.toolResultCache[k] = "running"
  BY DEF CostInv, ToolReturns
<1>2. PICK result \in ResultsOf(k) :
        chat' = [chat EXCEPT ![c].toolResultCache[k] = result, ![c].executions[k] = @ + 1]
  BY DEF ToolReturns
<1>3. result \in Results
  BY <1>2, ChatAssumption DEF ResultsOf, Results, Verdicts
<1> DEFINE new == [r EXCEPT !.toolResultCache[k] = result, !.executions[k] = @ + 1]
<1>4. chat' = [chat EXCEPT ![c] = new]
  BY <1>1, <1>2 DEF CostInv, Good, Fields
<1>5. DOMAIN new = Fields
  BY <1>1 DEF Good
<1>6. new.pc = r.pc /\ new.answer = r.answer /\ new.toolRounds = r.toolRounds /\ new.providerCalls = r.providerCalls
  BY <1>1 DEF Good, Fields
<1>7. new.toolResultCache = [r.toolResultCache EXCEPT ![k] = result]
  BY <1>1 DEF Good, Fields
<1>8. new.executions = [r.executions EXCEPT ![k] = @ + 1]
  BY <1>1 DEF Good, Fields
<1>9. r.executions[k] = 0
  BY <1>1 DEF Good, ExecutedOnce, Results
<1> HIDE DEF new
<1>10. RoundsCounted(new)
  BY <1>1, <1>6 DEF Good, RoundsCounted
<1>11. ExecutedOnce(new)
  <2>1. new.toolResultCache \in [Keys -> Results \cup {"none", "running"}] /\ new.executions \in [Keys -> {0, 1}]
    BY <1>1, <1>3, <1>7, <1>8, <1>9 DEF Good, ExecutedOnce
  <2>2. \A j \in Keys : new.executions[j] = 1 => new.toolResultCache[j] \in Results
    BY <1>1, <1>3, <1>7, <1>8 DEF Good, ExecutedOnce
  <2> QED
    BY <2>1, <2>2 DEF ExecutedOnce
<1> QED
  BY <1>1, <1>4, <1>5, <1>6, <1>10, <1>11, OneChat DEF Good, AnswerGiven

LEMMA BeginKeeps ==
  ASSUME CostInv, NEW c \in Chats, chat[c].pc = "new", Begin(c) PROVE CostInv'
<1> DEFINE r == chat[c]
           new == [r EXCEPT !.pc = "provider", !.messages = <<[role |-> "user"]>>]
<1>1. Good(r)
  BY DEF CostInv
<1>2. chat' = [chat EXCEPT ![c] = new]
  BY <1>1 DEF Begin, CostInv, Good, Fields
<1>3. DOMAIN new = Fields
  BY <1>1 DEF Good
<1>4. new.pc = "provider" /\ new.answer = r.answer /\ new.toolRounds = r.toolRounds /\ new.providerCalls = r.providerCalls
  BY <1>1 DEF Good, Fields
<1>5. new.toolResultCache = r.toolResultCache /\ new.executions = r.executions
  BY <1>1 DEF Good, Fields
<1> HIDE DEF new
<1>6. RoundsCounted(new)
  BY <1>1, <1>4, ChatAssumption DEF Good, RoundsCounted
<1>7. ExecutedOnce(new)
  BY <1>1, <1>5 DEF Good, ExecutedOnce
<1> QED
  BY <1>1, <1>2, <1>3, <1>4, <1>6, <1>7, OneChat DEF Good, AnswerGiven

LEMMA CollectKeeps ==
  ASSUME CostInv, NEW c \in Chats, Collect(c) PROVE CostInv'
<1> DEFINE r == chat[c]
           messages == r.messages \o ToolMessages(r)
           new == [r EXCEPT !.pc = "provider", !.messages = messages, !.round = <<>>]
<1>1. Good(r) /\ r.pc = "tools"
  BY DEF CostInv, Collect
<1>2. chat' = [chat EXCEPT ![c].pc = "provider", ![c].messages = messages, ![c].round = <<>>]
  BY <1>1 DEF Collect, CostInv, Good, Fields
<1> HIDE DEF messages
<1>3. chat' = [chat EXCEPT ![c] = new]
  BY <1>1, <1>2 DEF CostInv, Good, Fields
<1>4. DOMAIN new = Fields
  BY <1>1 DEF Good
<1>5. new.pc = "provider" /\ new.answer = r.answer /\ new.toolRounds = r.toolRounds /\ new.providerCalls = r.providerCalls
  BY <1>1 DEF Good, Fields
<1>6. new.toolResultCache = r.toolResultCache /\ new.executions = r.executions
  BY <1>1 DEF Good, Fields
<1> HIDE DEF new
<1>7. RoundsCounted(new)
  BY <1>1, <1>5 DEF Good, RoundsCounted
<1>8. ExecutedOnce(new)
  BY <1>1, <1>6 DEF Good, ExecutedOnce
<1> QED
  BY <1>1, <1>3, <1>4, <1>5, <1>7, <1>8, OneChat DEF Good, AnswerGiven

LEMMA CostStep == CostInv /\ [Next]_vars => CostInv'
<1> SUFFICES ASSUME CostInv, [Next]_vars PROVE CostInv'
  OBVIOUS
<1>1. ASSUME NEW c \in Chats, Receive(c) PROVE CostInv'
  <2>1. Good(chat[c]) /\ chat[c].pc = "new"
    BY <1>1 DEF CostInv, Receive
  <2>2. CASE Begin(c)
    BY <2>1, <2>2, BeginKeeps
  <2>3. ASSUME NEW answer \in Answers, Finish(c, chat[c], answer) PROVE CostInv'
    <3>1. Counted(chat[c]) /\ ExecutedOnce(chat[c])
      BY <2>1, ChatAssumption DEF Good, Counted, RoundsCounted
    <3> QED
      BY <2>3, <3>1, FinishKeeps
  <2> QED
    BY <1>1, <2>2, <2>3 DEF Receive, Answers
<1>2. ASSUME NEW c \in Chats, Handle(c) PROVE CostInv'
  BY <1>1, <1>2, RespondKeeps, AskToolsKeeps, CollectKeeps, ToolReturnsKeeps DEF Handle
<1>3. CASE UNCHANGED chat
  BY <1>3 DEF CostInv
<1> QED
  BY <1>2, <1>3 DEF Next, vars

(* Whatever the model answers, a request calls the provider at most        *)
(* MaxToolRounds + 1 times, and runs no tool twice with the same arguments.*)
THEOREM CostBoundedThm == Spec => []CostBounded
<1>1. Spec => []CostInv
  BY CostInit, CostStep, PTL DEF Spec
<1>2. CostInv => CostBounded
  BY DEF CostInv, CostBounded, Good, RoundsCounted, ExecutedOnce
<1> QED
  BY <1>1, <1>2, PTL

-----------------------------------------------------------------------------
(* The types of the state.                                                 *)

ToolsKnown == DOMAIN metrics.tools \subseteq ToolNames

LEMMA RecordsKnownTools ==
  ASSUME "tools" \in DOMAIN metrics, ToolsKnown, NEW status, NEW total, NEW calls, NEW failures,
         NEW invalid, RecordMetrics(status, total, calls, failures, invalid)
  PROVE  "tools" \in DOMAIN metrics' /\ ToolsKnown'
<1>1. PICK rows \in Rows({t \in ToolNames : calls[t] > 0}) :
        metrics' = [metrics EXCEPT
                      !.totalRequests = @ + 1,
                      !.totalToolCalls = @ + total,
                      !.toolValidationFailures = @ + invalid,
                      !.successfulRequests = @ + If(status = "success"),
                      !.failedRequests = @ + If(status # "success"),
                      !.timeouts = @ + If(status = "timeout"),
                      !.rateLimitedRequests = @ + If(status = "rate_limited"),
                      !.blockedRequests = @ + If(status = "blocked"),
                      !.tools = [t \in rows |-> Added(t, calls, failures)]]
  BY DEF RecordMetrics
<1>2. rows \subseteq ToolNames
  <2>1. ASSUME NEW new, NEW n, NEW s \in kSubset(n, new)
        PROVE  s \subseteq new
    BY DEF kSubset
  <2> QED
    BY <2>1 DEF Rows, ToolsKnown
<1> DEFINE table == [t \in rows |-> Added(t, calls, failures)]
<1>3. metrics'.tools = table /\ "tools" \in DOMAIN metrics'
  BY <1>1
<1>4. DOMAIN table = rows
  OBVIOUS
<1> HIDE DEF table
<1> QED
  BY <1>2, <1>3, <1>4 DEF ToolsKnown

LEMMA ToolsKnownStep ==
  ASSUME "tools" \in DOMAIN metrics, ToolsKnown, [Next]_vars
  PROVE  "tools" \in DOMAIN metrics' /\ ToolsKnown'
<1>1. ASSUME UNCHANGED metrics
      PROVE  "tools" \in DOMAIN metrics' /\ ToolsKnown'
  BY <1>1 DEF ToolsKnown
<1>2. ASSUME NEW c \in Chats, NEW r, NEW answer, Finish(c, r, answer)
      PROVE  "tools" \in DOMAIN metrics' /\ ToolsKnown'
  BY <1>2, RecordsKnownTools DEF Finish
<1>3. ASSUME NEW c \in Chats, Receive(c)
      PROVE  "tools" \in DOMAIN metrics' /\ ToolsKnown'
  BY <1>1, <1>2, <1>3 DEF Receive, Begin
<1>4. ASSUME NEW c \in Chats, Respond(c)
      PROVE  "tools" \in DOMAIN metrics' /\ ToolsKnown'
  BY <1>2, <1>4 DEF Respond
<1>5. ASSUME NEW c \in Chats, AskTools(c)
      PROVE  "tools" \in DOMAIN metrics' /\ ToolsKnown'
  BY <1>1, <1>2, <1>5 DEF AskTools
<1>6. ASSUME NEW c \in Chats, Collect(c) \/ \E k \in Keys : ToolReturns(c, k)
      PROVE  UNCHANGED metrics
  BY <1>6 DEF Collect, ToolReturns
<1> QED
  BY <1>1, <1>3, <1>4, <1>5, <1>6 DEF Next, Handle, vars

(* The types of the state: a request is done once it has an answer, and no *)
(* request goes through more than one round of tools beyond the limit.     *)
THEOREM TypeCorrect == Spec => []TypeOK
<1>1. LimiterSpec => []LimiterTypeOK
  <2>1. WindowInv => LimiterTypeOK
    BY DEF WindowInv
  <2> QED
    BY <2>1, WindowInit, WindowStep, PTL DEF LimiterSpec
<1>2. Init => "tools" \in DOMAIN metrics /\ ToolsKnown
  BY DEF Init, NoMetrics, ToolsKnown
<1>3. CostInv /\ LimiterTypeOK /\ ToolsKnown => TypeOK
  BY DEF CostInv, Good, RoundsCounted, ExecutedOnce, AnswerGiven, ToolsKnown, TypeOK
<1> DEFINE Known == "tools" \in DOMAIN metrics /\ ToolsKnown
<1>4. Known /\ [Next]_vars => Known'
  BY ToolsKnownStep
<1>5. Init => Known
  BY <1>2
<1>6. CostInv /\ LimiterTypeOK /\ Known => TypeOK
  BY <1>3
<1> HIDE DEF Known
<1> QED
  BY <1>1, <1>4, <1>5, <1>6, ImplementsLimiter, CostInit, CostStep, PTL DEF Spec

-----------------------------------------------------------------------------
(* Who is turned away.                                                     *)

\* The entry of a user holds only requests of theirs that were let through.
EntriesHonest == \A u \in Users : windows[u] \subseteq {s \in admitted : UserOf[s.chat] = u}

LEMMA HonestStep ==
  ASSUME LimiterTypeOK, EntriesHonest, [LimiterNext]_limiterVars
  PROVE  EntriesHonest'
<1>0. windows \in [Users -> SUBSET Stamps] /\ UserOf \in [Chats -> Users]
  BY LimiterAssumption DEF LimiterTypeOK
<1>1. ASSUME NEW c \in Chats, Admit(c)
      PROVE  EntriesHonest'
  <2>1. /\ windows' = [windows EXCEPT ![UserOf[c]] = Kept(UserOf[c]) \cup {StampOf(c)}]
        /\ admitted' = admitted \cup {StampOf(c)}
    BY <1>1 DEF Admit
  <2>2. Kept(UserOf[c]) \subseteq windows[UserOf[c]] /\ StampOf(c).chat = c
    BY DEF Kept, StampOf
  <2> QED
    BY <1>0, <2>1, <2>2 DEF EntriesHonest
<1>2. ASSUME NEW c \in Chats, Refuse(c)
      PROVE  EntriesHonest'
  <2>1. windows' = [windows EXCEPT ![UserOf[c]] = Kept(UserOf[c])] /\ admitted' = admitted
    BY <1>2 DEF Refuse
  <2>2. Kept(UserOf[c]) \subseteq windows[UserOf[c]]
    BY DEF Kept
  <2> QED
    BY <1>0, <2>1, <2>2 DEF EntriesHonest
<1>3. CASE Tick \/ UNCHANGED limiterVars
  BY <1>3 DEF Tick, limiterVars, EntriesHonest
<1> QED
  BY <1>1, <1>2, <1>3 DEF LimiterNext

\* A step is taken by one request, and a new one is only received.
LEMMA TurnedAwayByLimiter ==
  ASSUME CostInv, [Next]_vars, NEW c \in Chats, chat[c].pc = "new", chat'[c].answer = "rateLimit"
  PROVE  Refuse(c)
<1>1. Good(chat[c]) /\ chat[c].answer = "none" /\ chat'[c] # chat[c]
  BY DEF CostInv, Good, AnswerGiven
<1>2. ASSUME NEW d \in Chats \ {c}, Handle(d)
      PROVE  FALSE
  <2>1. ASSUME NEW r, NEW answer, Finish(d, r, answer)
        PROVE  chat'[c] = chat[c]
    BY <2>1 DEF Finish, CostInv
  <2>2. ASSUME Begin(d)
        PROVE  chat'[c] = chat[c]
    BY <2>2 DEF Begin, CostInv
  <2>3. ASSUME AskTools(d)
        PROVE  chat'[c] = chat[c]
    BY <2>1, <2>3 DEF AskTools, CostInv
  <2>4. ASSUME Collect(d) \/ \E k \in Keys : ToolReturns(d, k)
        PROVE  chat'[c] = chat[c]
    BY <2>4 DEF Collect, ToolReturns, CostInv
  <2> QED
    BY <1>1, <1>2, <2>1, <2>2, <2>3, <2>4 DEF Handle, Receive, Respond
<1>3. Receive(c)
  BY <1>1, <1>2 DEF Next, vars, Handle, Respond, AskTools, Collect, ToolReturns
<1>4. ASSUME NEW answer, answer # "rateLimit", Finish(c, chat[c], answer)
      PROVE  FALSE
  <2> DEFINE ended == [chat[c] EXCEPT !.pc = "done", !.answer = answer, !.messages = <<>>, !.round = <<>>]
  <2>1. ended.answer = answer
    BY <1>1 DEF Good, Fields
  <2>2. chat' = [chat EXCEPT ![c] = ended]
    BY <1>4 DEF Finish
  <2> HIDE DEF ended
  <2>3. chat'[c] = ended
    BY <2>2 DEF CostInv
  <2> QED
    BY <1>4, <2>1, <2>3
<1>5. ~Begin(c)
  <2> SUFFICES ASSUME Begin(c)
               PROVE  FALSE
    OBVIOUS
  <2> DEFINE new == [chat[c] EXCEPT !.pc = "provider", !.messages = <<[role |-> "user"]>>]
  <2>1. chat' = [chat EXCEPT ![c] = new]
    BY <1>1 DEF Begin, CostInv, Good, Fields
  <2>2. new.answer = "none"
    BY <1>1 DEF Good, Fields
  <2> HIDE DEF new
  <2>3. chat'[c] = new
    BY <2>1 DEF CostInv
  <2> QED
    BY <2>2, <2>3
<1> QED
  BY <1>3, <1>4, <1>5 DEF Receive

(* Nobody is turned away for nothing: at a refusal the user has had Limit  *)
(* requests let through within the last window; refused ones do not count. *)
THEOREM RefusedOnlyWhenFullThm == Spec => RefusedOnlyWhenFull
<1>1. ASSUME WindowInv, EntriesHonest, CostInv, [Next]_vars, NEW c \in Chats,
             chat[c].pc = "new", chat'[c].answer = "rateLimit"
      PROVE  Cardinality({s \in admitted : UserOf[s.chat] = UserOf[c] /\ s.at > now - WindowMs}) >= Limit
  <2>1. UserOf[c] \in Users /\ Cardinality(Kept(UserOf[c])) >= Limit
    BY <1>1, TurnedAwayByLimiter, LimiterAssumption DEF Refuse
  <2>2. Kept(UserOf[c]) = {s \in admitted : UserOf[s.chat] = UserOf[c] /\ s.at > now - WindowMs}
    BY <1>1, <2>1 DEF WindowInv, EntriesComplete, EntriesHonest, Recent, Kept
  <2> QED
    BY <2>1, <2>2
<1>2. WindowInv /\ EntriesHonest /\ CostInv /\ [Next]_vars =>
        [\A c \in Chats : chat[c].pc = "new" /\ chat'[c].answer = "rateLimit" =>
           Cardinality({s \in admitted : UserOf[s.chat] = UserOf[c] /\ s.at > now - WindowMs}) >= Limit]_vars
  BY <1>1
<1>3. Init => EntriesHonest
  BY DEF Init, LimiterInit, EntriesHonest
<1>4. WindowInv /\ EntriesHonest /\ [Next]_vars => EntriesHonest'
  BY HonestStep, LimiterSimulation DEF WindowInv
<1>5. Init => LimiterInit
  BY DEF Init
<1> QED
  BY <1>2, <1>3, <1>4, <1>5, WindowInit, WindowStep, LimiterSimulation, CostInit, CostStep, PTL
  DEF Spec, RefusedOnlyWhenFull

-----------------------------------------------------------------------------
(* The conversation.                                                       *)

CallType == [id : Nat \X Nat, key : Keys]
Message == [role : {"user"}]
             \cup [role : {"assistant"}, calls : Seq(CallType)]
             \cup [role : {"tool"}, id : Nat \X Nat, content : Results]
Asks(ms, j) == ms[j].role = "assistant"

\* The first n messages: every call has its result, which is what the cache
\* keeps for its key, and nothing else is said.
Nothing(ms, n, m) == m = 1 \/ Asks(ms, m) \/ \E j \in 1..n : Asks(ms, j) /\ m - j \in DOMAIN ms[j].calls
ResultAt(ms, n, cache, j, i) ==
  /\ j + i <= n
  /\ ms[j + i].role = "tool" /\ ms[j + i].id = ms[j].calls[i].id
  /\ ms[j + i].content = cache[ms[j].calls[i].key]
  /\ ms[j + i].content \in Results
Complete(ms, n, cache) ==
  /\ \A m \in 1..n : Nothing(ms, n, m)
  /\ \A j \in 1..n : Asks(ms, j) => /\ ms[j].calls \in Seq(CallType)
                                    /\ \A i \in DOMAIN ms[j].calls : ResultAt(ms, n, cache, j, i)
TalkRight(r) ==
  /\ r.messages \in Seq(Message)
  /\ r.pc = "provider" => Len(r.messages) >= 1 /\ Complete(r.messages, Len(r.messages), r.toolResultCache)
  /\ r.pc = "tools" =>
       /\ r.round \in Seq(Keys)
       /\ Len(r.messages) >= 2
       /\ Complete(r.messages, Len(r.messages) - 1, r.toolResultCache)
       /\ r.messages[Len(r.messages)] = Request(r.toolRounds, r.round)
       /\ \A i \in DOMAIN r.round : r.toolResultCache[r.round[i]] # "none"
TalkInv == \A c \in Chats : TalkRight(chat[c])

\* What is complete stays so, whatever follows and whatever else is cached.
LEMMA StaysComplete ==
  ASSUME NEW ms, NEW new, NEW n \in Nat, NEW cache, NEW later, Complete(ms, n, cache),
         \A m \in 1..n : new[m] = ms[m],
         \A k \in Keys : cache[k] \in Results => later[k] = cache[k]
  PROVE  Complete(new, n, later)
<1>1. \A m \in 1..n : Asks(new, m) <=> Asks(ms, m)
  BY DEF Asks
<1>2. ASSUME NEW m \in 1..n
      PROVE  Nothing(new, n, m)
  BY <1>1 DEF Complete, Nothing
<1>3. ASSUME NEW j \in 1..n, Asks(new, j)
      PROVE  /\ new[j].calls \in Seq(CallType)
             /\ \A i \in DOMAIN new[j].calls : ResultAt(new, n, later, j, i)
  <2>1. new[j].calls = ms[j].calls /\ ms[j].calls \in Seq(CallType)
    BY <1>1, <1>3 DEF Complete
  <2>2. ASSUME NEW i \in DOMAIN ms[j].calls
        PROVE  ResultAt(new, n, later, j, i)
    <3>1. ResultAt(ms, n, cache, j, i) /\ i \in Nat /\ i >= 1 /\ ms[j].calls[i] \in CallType
      BY <1>1, <1>3, <2>1 DEF Complete
    <3>2. j + i \in 1..n /\ ms[j].calls[i].key \in Keys
      BY <3>1 DEF ResultAt, CallType
    <3>3. new[j + i] = ms[j + i]
      BY <3>2
    <3> QED
      BY <2>1, <3>1, <3>2, <3>3 DEF ResultAt
  <2> QED
    BY <2>1, <2>2
<1> QED
  BY <1>2, <1>3 DEF Complete

\* A round whose calls all have results completes the conversation.
LEMMA RoundCompletes ==
  ASSUME NEW ms \in Seq(Message), Len(ms) >= 2, NEW cache, Complete(ms, Len(ms) - 1, cache),
         NEW t \in Nat, NEW round \in Seq(Keys), ms[Len(ms)] = Request(t, round),
         \A i \in DOMAIN round : cache[round[i]] \in Results,
         NEW answers, answers = [i \in DOMAIN round |->
                                   [role |-> "tool", id |-> <<t, i>>, content |-> cache[round[i]]]]
  PROVE  /\ ms \o answers \in Seq(Message) /\ Len(ms \o answers) >= 1
         /\ Complete(ms \o answers, Len(ms \o answers), cache)
<1> DEFINE L == Len(ms)
           n == L + Len(round)
           new == ms \o answers
<1>1. L \in Nat /\ L >= 2 /\ Len(round) \in Nat /\ DOMAIN round = 1..Len(round)
  OBVIOUS
<1>2. /\ answers \in Seq(Message) /\ Len(answers) = Len(round)
      /\ \A i \in 1..Len(round) : answers[i] = [role |-> "tool", id |-> <<t, i>>, content |-> cache[round[i]]]
  <2>1. \A i \in 1..Len(round) : answers[i] = [role |-> "tool", id |-> <<t, i>>, content |-> cache[round[i]]]
    BY <1>1
  <2>2. \A i \in 1..Len(round) : answers[i] \in Message
    BY <1>1, <2>1 DEF Message
  <2>3. answers = [i \in 1..Len(round) |-> answers[i]]
    BY <1>1
  <2> QED
    BY <1>1, <2>1, <2>2, <2>3
<1>3. /\ new \in Seq(Message) /\ Len(new) = n
      /\ \A m \in 1..L : new[m] = ms[m]
      /\ \A i \in 1..Len(round) : new[L + i] = answers[i]
  BY <1>1, <1>2
<1>4. /\ new[L].role = "assistant" /\ new[L].calls \in Seq(CallType)
      /\ DOMAIN new[L].calls = 1..Len(round)
      /\ \A i \in 1..Len(round) : new[L].calls[i] = [id |-> <<t, i>>, key |-> round[i]]
  <2> DEFINE calls == [i \in DOMAIN round |-> [id |-> <<t, i>>, key |-> round[i]]]
  <2>1. new[L].role = "assistant" /\ new[L].calls = calls
    <3>1. L \in 1..L
      BY <1>1
    <3>2. new[L] = Request(t, round)
      BY <1>3, <3>1
    <3>3. Request(t, round) = [role |-> "assistant", calls |-> calls]
      BY DEF Request
    <3> HIDE DEF calls, new
    <3> QED
      BY <3>2, <3>3
  <2>2. \A i \in 1..Len(round) : calls[i] = [id |-> <<t, i>>, key |-> round[i]] /\ calls[i] \in CallType
    BY <1>1 DEF CallType
  <2>3. calls = [i \in 1..Len(round) |-> calls[i]]
    BY <1>1
  <2>4. calls \in Seq(CallType) /\ DOMAIN calls = 1..Len(round)
    BY <1>1, <2>2, <2>3
  <2> QED
    BY <2>1, <2>2, <2>4
<1> HIDE DEF new
<1>5. Complete(new, L - 1, cache)
  <2>1. L - 1 \in Nat /\ \A m \in 1..(L - 1) : new[m] = ms[m]
    BY <1>1, <1>3
  <2> QED
    BY <2>1, StaysComplete
<1>6. ASSUME NEW i \in 1..Len(round)
      PROVE  ResultAt(new, n, cache, L, i) /\ ~Asks(new, L + i)
  <2>1. /\ new[L + i].role = "tool" /\ new[L + i].id = <<t, i>> /\ new[L + i].content = cache[round[i]]
        /\ new[L].calls[i].id = <<t, i>> /\ new[L].calls[i].key = round[i]
        /\ cache[round[i]] \in Results
    <3>1. new[L + i] = [role |-> "tool", id |-> <<t, i>>, content |-> cache[round[i]]]
      BY <1>2, <1>3
    <3>2. new[L].calls[i] = [id |-> <<t, i>>, key |-> round[i]]
      BY <1>4
    <3>3. cache[round[i]] \in Results
      BY <1>1
    <3> QED
      BY <3>1, <3>2, <3>3
  <2>2. L + i <= n
    BY <1>1
  <2> QED
    BY <2>1, <2>2 DEF ResultAt, Asks
<1>7. ASSUME NEW m \in 1..n
      PROVE  m \in 1..(L - 1) \/ m = L \/ m - L \in 1..Len(round)
  BY <1>1
<1>8. ASSUME NEW m \in 1..n
      PROVE  Nothing(new, n, m)
  <2>1. CASE m \in 1..(L - 1)
    <3>1. Nothing(new, L - 1, m)
      BY <1>5, <2>1 DEF Complete
    <3>2. 1..(L - 1) \subseteq 1..n
      BY <1>1
    <3> QED
      BY <3>1, <3>2 DEF Nothing
  <2>2. CASE m = L
    BY <1>4, <2>2 DEF Nothing, Asks
  <2>3. CASE m - L \in 1..Len(round)
    <3>1. L \in 1..n
      BY <1>1
    <3> QED
      BY <1>4, <2>3, <3>1 DEF Nothing, Asks
  <2> QED
    BY <1>7, <2>1, <2>2, <2>3
<1>9. ASSUME NEW j \in 1..n, Asks(new, j)
      PROVE  /\ new[j].calls \in Seq(CallType)
             /\ \A i \in DOMAIN new[j].calls : ResultAt(new, n, cache, j, i)
  <2>1. CASE j \in 1..(L - 1)
    <3>1. /\ new[j].calls \in Seq(CallType)
          /\ \A i \in DOMAIN new[j].calls : ResultAt(new, L - 1, cache, j, i)
      BY <1>5, <1>9, <2>1 DEF Complete
    <3>2. ASSUME NEW i \in DOMAIN new[j].calls
          PROVE  ResultAt(new, n, cache, j, i)
      <4>1. i \in Nat /\ j \in Nat
        BY <3>1
      <4> QED
        BY <1>1, <3>1, <4>1 DEF ResultAt
    <3> QED
      BY <3>1, <3>2
  <2>2. CASE j = L
    BY <1>4, <1>6, <2>2
  <2>3. CASE j - L \in 1..Len(round)
    <3>1. L + (j - L) = j
      BY <1>1
    <3> QED
      BY <1>6, <1>9, <2>3, <3>1
  <2> QED
    BY <1>7, <2>1, <2>2, <2>3
<1>10. Complete(new, n, cache)
  BY <1>8, <1>9 DEF Complete
<1>11. n >= 1
  BY <1>1
<1> QED
  BY <1>3, <1>10, <1>11 DEF new

LEMMA OneTalk ==
  ASSUME CostInv, TalkInv, NEW c \in Chats, NEW r, TalkRight(r), chat' = [chat EXCEPT ![c] = r]
  PROVE  TalkInv'
<1>1. \A d \in Chats : chat'[d] = IF d = c THEN r ELSE chat[d]
  BY DEF CostInv
<1>2. ASSUME NEW d \in Chats
      PROVE  TalkRight(chat'[d])
  BY <1>1 DEF TalkInv
<1> QED
  BY <1>2 DEF TalkInv, TalkRight, Complete, Nothing, ResultAt, Asks

LEMMA FinishTalk ==
  ASSUME CostInv, TalkInv, NEW c \in Chats, NEW r, NEW answer, DOMAIN r = Fields, Finish(c, r, answer)
  PROVE  TalkInv'
<1> DEFINE ended == [r EXCEPT !.pc = "done", !.answer = answer, !.messages = <<>>, !.round = <<>>]
<1>1. chat' = [chat EXCEPT ![c] = ended]
  BY DEF Finish
<1>2. ended.pc = "done" /\ ended.messages = <<>>
  BY DEF Fields
<1> HIDE DEF ended
<1>3. TalkRight(ended)
  BY <1>2 DEF TalkRight
<1> QED
  BY <1>1, <1>3, OneTalk

LEMMA BeginTalk ==
  ASSUME CostInv, TalkInv, NEW c \in Chats, Begin(c)
  PROVE  TalkInv'
<1> DEFINE r == chat[c]
           messages == <<[role |-> "user"]>>
           new == [r EXCEPT !.pc = "provider", !.messages = messages]
<1>1. DOMAIN r = Fields
  BY DEF CostInv, Good
<1>2. chat' = [chat EXCEPT ![c] = new]
  BY <1>1 DEF Begin, CostInv, Fields
<1>3. new.pc = "provider" /\ new.messages = messages
  BY <1>1 DEF Fields
<1>4. messages \in Seq(Message) /\ Len(messages) = 1 /\ messages[1].role = "user"
  <2>1. [role |-> "user"] \in Message
    BY DEF Message
  <2> QED
    BY <2>1
<1> HIDE DEF new, messages
<1>5. Complete(messages, 1, new.toolResultCache)
  BY <1>4 DEF Complete, Nothing, Asks
<1>6. TalkRight(new)
  BY <1>3, <1>4, <1>5 DEF TalkRight
<1> QED
  BY <1>2, <1>6, OneTalk

LEMMA AskToolsTalk ==
  ASSUME CostInv, TalkInv, NEW c \in Chats, AskTools(c)
  PROVE  TalkInv'
<1> DEFINE q == [chat[c] EXCEPT !.providerCalls = @ + 1, !.toolRounds = @ + 1]
<1>1. Good(chat[c]) /\ chat[c].pc = "provider" /\ TalkRight(chat[c])
  BY DEF CostInv, TalkInv, AskTools
<1>2. /\ q.toolRounds = chat[c].toolRounds + 1 /\ q.messages = chat[c].messages
      /\ q.toolResultCache = chat[c].toolResultCache /\ DOMAIN q = Fields
  BY <1>1 DEF Good, Fields
<1>3. PICK calls \in Calls :
        IF q.toolRounds > MaxToolRounds
        THEN Finish(c, q, "roundLimit")
        ELSE chat' = [chat EXCEPT ![c] = Asked(q, calls, Uncached(q, calls))] /\ UNCHANGED metrics
  BY DEF AskTools
<1> HIDE DEF q
<1>4. CASE q.toolRounds > MaxToolRounds
  BY <1>2, <1>3, <1>4, FinishTalk
<1>5. CASE ~(q.toolRounds > MaxToolRounds)
  <2> DEFINE uncached == Uncached(q, calls)
             ms == q.messages
             ask == Request(q.toolRounds, calls)
             cache == [k \in Keys |-> IF k \in uncached THEN "running" ELSE q.toolResultCache[k]]
             asked == Asked(q, calls, uncached)
  <2>1. chat' = [chat EXCEPT ![c] = asked]
    BY <1>3, <1>5
  <2>2. /\ asked.pc = "tools" /\ asked.round = calls /\ asked.toolRounds = q.toolRounds
        /\ asked.messages = Append(ms, ask) /\ asked.toolResultCache = cache
    BY <1>2 DEF Asked, Fields
  <2>3. calls \in Seq(Keys) /\ q.toolRounds \in Nat
    <3>1. PICK m \in 0..MaxCalls : calls \in [1..m -> Keys]
      BY DEF Calls, BoundedSeq, SeqOf
    <3>2. m \in Nat
      BY ChatAssumption
    <3> QED
      BY <1>1, <1>2, <3>1, <3>2, ChatAssumption DEF Good, RoundsCounted
  <2>4. ask \in Message
    <3> DEFINE list == [i \in DOMAIN calls |-> [id |-> <<q.toolRounds, i>>, key |-> calls[i]]]
    <3>1. DOMAIN calls = 1..Len(calls) /\ Len(calls) \in Nat /\ DOMAIN list = DOMAIN calls
      BY <2>3
    <3>2. \A i \in 1..Len(calls) : list[i] \in CallType
      BY <2>3, <3>1 DEF CallType
    <3>3. list = [i \in 1..Len(calls) |-> list[i]]
      BY <3>1
    <3>4. list \in Seq(CallType)
      BY <3>1, <3>2, <3>3
    <3>5. ask = [role |-> "assistant", calls |-> list]
      BY DEF Request
    <3> HIDE DEF list, ask
    <3> QED
      BY <3>4, <3>5 DEF Message
  <2>5. \A k \in uncached : q.toolResultCache[k] = "none"
    BY DEF Uncached
  <2>6. \A k \in Keys : q.toolResultCache[k] = "none" => k \in uncached \/ \A i \in DOMAIN calls : calls[i] # k
    BY DEF Uncached, Range
  <2>7. \A i \in DOMAIN calls : calls[i] \in Keys
    BY <2>3
  <2> HIDE DEF asked, uncached, ask
  <2>8. /\ ms \in Seq(Message) /\ Len(ms) >= 1 /\ Complete(ms, Len(ms), q.toolResultCache)
    BY <1>1, <1>2 DEF TalkRight
  <2>9. /\ Append(ms, ask) \in Seq(Message) /\ Len(Append(ms, ask)) = Len(ms) + 1
        /\ \A m \in 1..Len(ms) : Append(ms, ask)[m] = ms[m]
        /\ Append(ms, ask)[Len(ms) + 1] = ask
    BY <2>4, <2>8
  <2>10. \A k \in Keys : q.toolResultCache[k] \in Results => cache[k] = q.toolResultCache[k]
    BY <2>5 DEF Results
  <2>11. \A i \in DOMAIN calls : cache[calls[i]] # "none"
    BY <2>6, <2>7
  <2> HIDE DEF cache
  <2>12. Complete(Append(ms, ask), Len(ms), cache)
    <3>1. Len(ms) \in Nat
      BY <2>8
    <3> QED
      BY <2>8, <2>9, <2>10, <3>1, StaysComplete
  <2>13. Len(ms) \in Nat /\ Len(ms) + 1 >= 2 /\ (Len(ms) + 1) - 1 = Len(ms)
    BY <2>8
  <2>14. TalkRight(asked)
    BY <2>2, <2>3, <2>9, <2>11, <2>12, <2>13 DEF TalkRight, ask
  <2> QED
    BY <2>1, <2>14, OneTalk
<1> QED
  BY <1>4, <1>5

LEMMA ToolReturnsTalk ==
  ASSUME CostInv, TalkInv, NEW c \in Chats, NEW k \in Keys, ToolReturns(c, k)
  PROVE  TalkInv'
<1> DEFINE r == chat[c]
<1>1. Good(r) /\ r.pc = "tools" /\ r.toolResultCache[k] = "running" /\ TalkRight(r)
  BY DEF CostInv, TalkInv, ToolReturns
<1>2. PICK result \in ResultsOf(k) :
        chat' = [chat EXCEPT ![c].toolResultCache[k] = result, ![c].executions[k] = @ + 1]
  BY DEF ToolReturns
<1>3. result \in Results
  BY <1>2, ChatAssumption DEF ResultsOf, Results, Verdicts
<1> DEFINE new == [r EXCEPT !.toolResultCache[k] = result, !.executions[k] = @ + 1]
<1>4. chat' = [chat EXCEPT ![c] = new]
  BY <1>1, <1>2 DEF CostInv, Good, Fields
<1>5. /\ new.pc = "tools" /\ new.messages = r.messages /\ new.round = r.round /\ new.toolRounds = r.toolRounds
      /\ new.toolResultCache = [r.toolResultCache EXCEPT ![k] = result]
  BY <1>1 DEF Good, Fields
<1> HIDE DEF new
<1>6. \A j \in Keys : r.toolResultCache[j] \in Results => new.toolResultCache[j] = r.toolResultCache[j]
  BY <1>1, <1>5 DEF Good, ExecutedOnce, Results
<1>7. \A j \in Keys : r.toolResultCache[j] # "none" => new.toolResultCache[j] # "none"
  BY <1>1, <1>3, <1>5 DEF Good, ExecutedOnce, Results
<1>8. Complete(r.messages, Len(r.messages) - 1, new.toolResultCache)
  <2>1. Len(r.messages) - 1 \in Nat /\ Complete(r.messages, Len(r.messages) - 1, r.toolResultCache)
    BY <1>1 DEF TalkRight
  <2> QED
    BY <1>6, <2>1, StaysComplete
<1>9. \A i \in DOMAIN r.round : r.round[i] \in Keys
  BY <1>1 DEF TalkRight
<1>10. TalkRight(new)
  BY <1>1, <1>5, <1>7, <1>8, <1>9 DEF TalkRight
<1> QED
  BY <1>4, <1>10, OneTalk

LEMMA CollectTalk ==
  ASSUME CostInv, TalkInv, NEW c \in Chats, Collect(c)
  PROVE  TalkInv'
<1> DEFINE r == chat[c]
           answers == ToolMessages(r)
           messages == r.messages \o answers
           new == [r EXCEPT !.pc = "provider", !.messages = messages, !.round = <<>>]
<1>1. Good(r) /\ r.pc = "tools" /\ Running(r) = {} /\ TalkRight(r)
  BY DEF CostInv, TalkInv, Collect
<1>2. chat' = [chat EXCEPT ![c].pc = "provider", ![c].messages = messages, ![c].round = <<>>]
  BY <1>1 DEF Collect, CostInv, Good, Fields
<1>3. answers = [i \in DOMAIN r.round |->
                   [role |-> "tool", id |-> <<r.toolRounds, i>>, content |-> r.toolResultCache[r.round[i]]]]
  BY DEF ToolMessages
<1> HIDE DEF answers
<1>4. \A i \in DOMAIN r.round : r.toolResultCache[r.round[i]] \in Results
  <2>1. \A i \in DOMAIN r.round : r.round[i] \in Keys /\ r.toolResultCache[r.round[i]] # "none"
    BY <1>1 DEF TalkRight
  <2>2. \A k \in Keys : r.toolResultCache[k] # "running"
    BY <1>1 DEF Running
  <2>3. \A k \in Keys : r.toolResultCache[k] \in Results \cup {"none", "running"}
    BY <1>1 DEF Good, ExecutedOnce
  <2> QED
    BY <2>1, <2>2, <2>3
<1>5. /\ messages \in Seq(Message) /\ Len(messages) >= 1
      /\ Complete(messages, Len(messages), r.toolResultCache)
  <2>1. /\ r.messages \in Seq(Message) /\ Len(r.messages) >= 2
        /\ Complete(r.messages, Len(r.messages) - 1, r.toolResultCache)
        /\ r.round \in Seq(Keys) /\ r.messages[Len(r.messages)] = Request(r.toolRounds, r.round)
    BY <1>1 DEF TalkRight
  <2>2. r.toolRounds \in Nat
    BY <1>1, ChatAssumption DEF Good, RoundsCounted
  <2> QED
    BY <1>3, <1>4, <2>1, <2>2, RoundCompletes
<1> HIDE DEF messages
<1>6. chat' = [chat EXCEPT ![c] = new]
  BY <1>1, <1>2 DEF CostInv, Good, Fields
<1>7. new.pc = "provider" /\ new.messages = messages /\ new.toolResultCache = r.toolResultCache
  BY <1>1 DEF Good, Fields
<1> HIDE DEF new
<1>8. TalkRight(new)
  BY <1>5, <1>7 DEF TalkRight
<1> QED
  BY <1>6, <1>8, OneTalk

LEMMA TalkStep ==
  ASSUME CostInv, TalkInv, [Next]_vars
  PROVE  TalkInv'
<1>1. ASSUME NEW c \in Chats, Receive(c) \/ Respond(c)
      PROVE  TalkInv'
  <2>1. DOMAIN chat[c] = Fields
    BY DEF CostInv, Good
  <2>2. ASSUME NEW answer, Finish(c, chat[c], answer)
        PROVE  TalkInv'
    BY <2>1, <2>2, FinishTalk
  <2>3. CASE Receive(c)
    BY <2>2, <2>3, BeginTalk DEF Receive
  <2>4. CASE Respond(c)
    <3> DEFINE r == [chat[c] EXCEPT !.providerCalls = @ + 1]
    <3>1. DOMAIN r = Fields
      BY <2>1
    <3>2. \E answer : Finish(c, r, answer)
      BY <2>4 DEF Respond
    <3> HIDE DEF r
    <3> QED
      BY <3>1, <3>2, FinishTalk
  <2> QED
    BY <1>1, <2>3, <2>4
<1>2. CASE UNCHANGED chat
  BY SMTT(30), <1>2 DEF TalkInv, TalkRight, Complete, Nothing, ResultAt, Asks
<1> QED
  BY <1>1, <1>2, AskToolsTalk, ToolReturnsTalk, CollectTalk DEF Next, Handle, vars

LEMMA TalkInitial == Init => TalkInv
<1>1. NewChat.pc = "new" /\ NewChat.messages = <<>>
  BY DEF NewChat
<1>2. TalkRight(NewChat)
  BY <1>1 DEF TalkRight
<1> QED
  BY <1>2 DEF Init, TalkInv

(* What the provider is sent is a conversation it accepts: whatever the    *)
(* model asked for, in however many rounds, whichever tools failed or were *)
(* refused, each call has exactly one result, in order and under its id.   *)
THEOREM ConversationAnsweredThm == Spec => []ConversationAnswered
<1>1. TalkInv => ConversationAnswered
  <2> SUFFICES ASSUME TalkInv, NEW c \in Chats, chat[c].pc = "provider"
               PROVE  LET ms == chat[c].messages IN
                      /\ \A j \in Requests(ms) : AnswersTo(ms, j)
                      /\ \A m \in DOMAIN ms : m = 1 \/ m \in Requests(ms)
                                                \/ \E j \in Requests(ms) : m - j \in DOMAIN ms[j].calls
                      /\ \A j, l \in Requests(ms) : \A i \in DOMAIN ms[j].calls, h \in DOMAIN ms[l].calls :
                           ms[j].calls[i].key = ms[l].calls[h].key => ms[j + i].content = ms[l + h].content
    BY DEF ConversationAnswered
  <2> DEFINE ms == chat[c].messages
             n == Len(ms)
  <2>1. ms \in Seq(Message) /\ Complete(ms, n, chat[c].toolResultCache) /\ DOMAIN ms = 1..n
    BY DEF TalkInv, TalkRight
  <2>2. Requests(ms) = {j \in 1..n : Asks(ms, j)}
    BY <2>1 DEF Requests, Asks
  <2>3. \A j \in Requests(ms) : \A i \in DOMAIN ms[j].calls : ResultAt(ms, n, chat[c].toolResultCache, j, i)
    BY <2>1, <2>2 DEF Complete
  <2>4. \A j \in Requests(ms) : AnswersTo(ms, j)
    BY <2>3 DEF ResultAt, AnswersTo
  <2>5. \A m \in DOMAIN ms : m = 1 \/ m \in Requests(ms) \/ \E j \in Requests(ms) : m - j \in DOMAIN ms[j].calls
    BY <2>1, <2>2 DEF Complete, Nothing
  <2>6. \A j, l \in Requests(ms) : \A i \in DOMAIN ms[j].calls, h \in DOMAIN ms[l].calls :
          ms[j].calls[i].key = ms[l].calls[h].key => ms[j + i].content = ms[l + h].content
    BY <2>3 DEF ResultAt
  <2> QED
    BY <2>4, <2>5, <2>6
<1> QED
  BY <1>1, CostInit, CostStep, TalkInitial, TalkStep, PTL DEF Spec

-----------------------------------------------------------------------------
(* The metrics agree with the requests that have ended.  The argument: a   *)
(* request is counted in the step that ends it, with the tools it ran; it  *)
(* never runs again, so what has been counted stays as it was; and a tool  *)
(* that has no row although it was called found the table full.            *)

\* {c} \X S is as large as S, and new if c has not been seen.
LEMMA CountedOnce ==
  ASSUME NEW A, IsFiniteSet(A), NEW S, IsFiniteSet(S), NEW c, \A x \in A : x[1] # c
  PROVE  /\ IsFiniteSet(A \cup ({c} \X S))
         /\ Cardinality(A \cup ({c} \X S)) = Cardinality(A) + Cardinality(S)
<1> DEFINE f == [s \in S |-> <<c, s>>]
           T == {c} \X S
<1>1. f \in Surjection(S, T) /\ f \in Injection(S, T)
  BY DEF Surjection, Injection, IsInjective
<1>2. IsFiniteSet(T) /\ Cardinality(T) = Cardinality(S)
  BY <1>1, FS_Surjection
<1>3. A \cap T = {}
  OBVIOUS
<1> HIDE DEF T
<1>4. IsFiniteSet(A \cup T) /\ Cardinality(A \cup T) = Cardinality(A) + Cardinality(T) - Cardinality({})
  BY <1>2, <1>3, FS_Union
<1>5. Cardinality(A) \in Nat /\ Cardinality(T) \in Nat /\ Cardinality({}) = 0
  BY <1>2, FS_CardinalityType, FS_EmptySet
<1>6. IsFiniteSet(A \cup T) /\ Cardinality(A \cup T) = Cardinality(A) + Cardinality(S)
  BY <1>2, <1>4, <1>5
<1> QED
  BY <1>6 DEF T

\* A request runs a tool once per key, so what it has observed is finite.
LEMMA ObservationsFinite ==
  ASSUME NEW r, ExecutedOnce(r)
  PROVE  IsFiniteSet(toolObservations(r)) /\ toolObservations(r) \subseteq Keys \X {1}
<1> DEFINE f == [k \in Keys |-> <<k, 1>>]
           T == Keys \X {1}
<1>1. f \in Surjection(Keys, T)
  <2>1. f \in [Keys -> T]
    OBVIOUS
  <2>2. ASSUME NEW o \in T PROVE \E k \in Keys : f[k] = o
    <3>1. o[1] \in Keys /\ f[o[1]] = o
      OBVIOUS
    <3> QED
      BY <3>1
  <2> QED
    BY <2>1, <2>2 DEF Surjection
<1>2. IsFiniteSet(T)
  BY <1>1, FS_Surjection, ChatAssumption
<1>3. toolObservations(r) \subseteq T
  <2>1. ASSUME NEW k \in Keys
        PROVE  1..r.executions[k] \subseteq {1}
    BY DEF ExecutedOnce
  <2> QED
    BY <2>1 DEF toolObservations
<1> QED
  BY <1>2, <1>3, FS_Subset

ToolKeys == {ToolOf[k] : k \in Keys}

LEMMA ToolKeysFinite == IsFiniteSet(ToolKeys) /\ ToolKeys \subseteq ToolNames
<1>1. ToolOf \in Surjection(Keys, ToolKeys)
  BY ChatAssumption DEF Surjection, ToolKeys
<1> QED
  BY <1>1, FS_Surjection, ChatAssumption DEF ToolKeys

ObservedOf(r, t) == {o \in toolObservations(r) : ToolOf[o[1]] = t}
FailedOf(r, t) == {o \in toolObservations(r) : ToolOf[o[1]] = t /\ r.toolResultCache[o[1]] # "data"}

LEMMA CallsCounted ==
  ASSUME NEW r, ExecutedOnce(r), NEW t \in ToolNames
  PROVE  /\ IsFiniteSet(ObservedOf(r, t)) /\ CallsOf(r)[t] = Cardinality(ObservedOf(r, t))
         /\ IsFiniteSet(FailedOf(r, t)) /\ FailuresOf(r)[t] = Cardinality(FailedOf(r, t))
         /\ CallsOf(r)[t] \in Nat /\ FailuresOf(r)[t] \in Nat
         /\ CallsOf(r)[t] > 0 => t \in ToolKeys
         /\ ~(CallsOf(r)[t] > 0) => ObservedOf(r, t) = {} /\ FailedOf(r, t) = {}
<1>1. ObservedOf(r, t) \subseteq toolObservations(r) /\ FailedOf(r, t) \subseteq ObservedOf(r, t)
  BY DEF ObservedOf, FailedOf
<1>2. IsFiniteSet(ObservedOf(r, t)) /\ IsFiniteSet(FailedOf(r, t))
  BY <1>1, ObservationsFinite, FS_Subset
<1>3. CallsOf(r)[t] = Cardinality(ObservedOf(r, t)) /\ FailuresOf(r)[t] = Cardinality(FailedOf(r, t))
  BY DEF CallsOf, FailuresOf, ObservedOf, FailedOf
<1>4. Cardinality(ObservedOf(r, t)) \in Nat /\ Cardinality(FailedOf(r, t)) \in Nat
  BY <1>2, FS_CardinalityType
<1>5. Cardinality(ObservedOf(r, t)) = 0 <=> ObservedOf(r, t) = {}
  BY <1>2, FS_EmptySet
<1>6. ObservedOf(r, t) # {} => t \in ToolKeys
  BY ObservationsFinite DEF ObservedOf, ToolKeys
<1> QED
  BY <1>1, <1>2, <1>3, <1>4, <1>5, <1>6

\* Tools get rows while there is room, and then the table is full.
LEMMA RowsFill ==
  ASSUME NEW used, IsFiniteSet(used), IsFiniteSet(DOMAIN metrics.tools), NEW rows \in Rows(used),
         Cardinality(DOMAIN metrics.tools) <= MaxToolKeys
  PROVE  /\ IsFiniteSet(rows) /\ DOMAIN metrics.tools \subseteq rows
         /\ rows \subseteq DOMAIN metrics.tools \cup used
         /\ Cardinality(rows) <= MaxToolKeys
         /\ used \subseteq rows \/ Cardinality(rows) >= MaxToolKeys
<1> DEFINE old == DOMAIN metrics.tools
           new == used \ old
           room == IF MaxToolKeys > Cardinality(old) THEN MaxToolKeys - Cardinality(old) ELSE 0
           size == IF Cardinality(new) < room THEN Cardinality(new) ELSE room
<1>1. PICK s \in kSubset(size, new) : rows = old \cup s
  BY DEF Rows
<1>2. s \subseteq new /\ Cardinality(s) = size
  BY <1>1 DEF kSubset
<1>3. IsFiniteSet(new)
  BY FS_Subset
<1>4. IsFiniteSet(s) /\ (Cardinality(new) = Cardinality(s) => new = s)
  BY <1>2, <1>3, FS_Subset
<1>5. Cardinality(s) \in Nat /\ Cardinality(old) \in Nat /\ Cardinality(new) \in Nat /\ Cardinality({}) = 0
  BY <1>3, <1>4, FS_CardinalityType, FS_EmptySet
<1>6. old \cap s = {}
  BY <1>2
<1>7. IsFiniteSet(rows) /\ Cardinality(rows) = Cardinality(old) + Cardinality(s) - Cardinality({})
  BY <1>1, <1>4, <1>6, FS_Union
<1>8. rows = old \cup s /\ new = used \ old
  BY <1>1
<1>9. /\ Cardinality(s) = Cardinality(new) \/ Cardinality(s) = MaxToolKeys - Cardinality(old)
      /\ Cardinality(s) <= MaxToolKeys - Cardinality(old)
  BY <1>2, <1>5, ChatAssumption
<1> HIDE DEF old, new, size
<1>10. Cardinality(rows) <= MaxToolKeys
  BY <1>5, <1>7, <1>9, ChatAssumption
<1>11. Cardinality(s) = Cardinality(new) \/ Cardinality(rows) >= MaxToolKeys
  BY <1>5, <1>7, <1>9, ChatAssumption
<1>12. used \subseteq rows \/ Cardinality(rows) >= MaxToolKeys
  BY <1>4, <1>8, <1>11
<1>13. old \subseteq rows /\ rows \subseteq old \cup used
  BY <1>2, <1>8
<1> QED
  BY <1>7, <1>10, <1>12, <1>13 DEF old

-----------------------------------------------------------------------------
Room == \A t \in ToolNames :
          t \notin DOMAIN metrics.tools => CallsTo(t) = {} \/ Cardinality(DOMAIN metrics.tools) >= MaxToolKeys
Tallied ==
  /\ DOMAIN metrics = DOMAIN NoMetrics /\ metrics.failedRequests \in Nat
  /\ ToolsKnown /\ IsFiniteSet(DOMAIN metrics.tools)
  /\ IsFiniteSet(Done) /\ IsFiniteSet(Observed)
MetricsInv == Tallied /\ MetricsAgree /\ Room

EndedWith(answers) == {c \in Done : chat[c].answer \in answers}

LEMMA MetricsInit == Init => MetricsInv
<1> SUFFICES ASSUME Init PROVE MetricsInv
  OBVIOUS
<1>1. metrics = NoMetrics /\ Done = {}
  BY DEF Init, Done, NewChat
<1>2. Observed = {} /\ \A t : CallsTo(t) = {} /\ \A answers : EndedWith(answers) = {}
  BY <1>1 DEF Observed, CallsTo, EndedWith
<1>3. DOMAIN metrics.tools = {}
  BY <1>1 DEF NoMetrics
<1>4. IsFiniteSet({}) /\ Cardinality({}) = 0
  BY FS_EmptySet
<1>5. \A answers : Ended(answers) = 0
  BY <1>2, <1>4 DEF Ended, EndedWith
<1>6. metrics.successfulRequests = 0 /\ metrics.failedRequests = 0 /\ metrics.rateLimitedRequests = 0 /\ metrics.totalToolCalls = 0
  BY <1>1 DEF NoMetrics
<1>7. Tallied
  BY <1>1, <1>2, <1>3, <1>4, <1>6 DEF Tallied, ToolsKnown
<1>8. MetricsAgree
  BY <1>1, <1>2, <1>3, <1>4, <1>5, <1>6, ChatAssumption DEF MetricsAgree
<1>9. Room
  BY <1>2 DEF Room
<1> QED
  BY <1>7, <1>8, <1>9 DEF MetricsInv

\* A step that ends no request counts nothing.
LEMMA NothingCounted ==
  ASSUME MetricsInv, UNCHANGED metrics, Done' = Done, \A d \in Done : chat'[d] = chat[d]
  PROVE  MetricsInv'
<1>1. Observed' = Observed
  BY DEF Observed
<1>2. \A x \in Observed : x[1] \in Done
  BY DEF Observed
<1>3. ASSUME NEW t
      PROVE  CallsTo(t)' = CallsTo(t) /\ FailuresTo(t)' = FailuresTo(t)
  <2>1. CallsTo(t)' = CallsTo(t) /\ \A x \in CallsTo(t) : x \in Observed
    BY <1>1 DEF CallsTo
  <2>2. \A x \in CallsTo(t) : chat'[x[1]] = chat[x[1]]
    BY <1>2, <2>1
  <2> QED
    BY <2>1, <2>2 DEF FailuresTo
<1>4. ASSUME NEW answers
      PROVE  Ended(answers)' = Ended(answers)
  <2>1. {c \in Done' : chat'[c].answer \in answers} = {c \in Done : chat[c].answer \in answers}
    OBVIOUS
  <2> QED
    BY <2>1 DEF Ended
<1>5. Tallied'
  BY <1>1 DEF MetricsInv, Tallied, ToolsKnown
<1>6. MetricsAgree'
  BY <1>1, <1>3, <1>4 DEF MetricsInv, MetricsAgree
<1>7. Room'
  BY <1>3 DEF MetricsInv, Room
<1> QED
  BY <1>5, <1>6, <1>7 DEF MetricsInv

\* What a request that ends adds to the history.
LEMMA HistoryGrows ==
  ASSUME CostInv, NEW c \in Chats, chat[c].pc # "done", NEW r, DOMAIN r = Fields,
         NEW answer, Finish(c, r, answer)
  PROVE  /\ Done' = Done \cup {c} /\ c \notin Done
         /\ \A answers : EndedWith(answers)' = EndedWith(answers) \cup (IF answer \in answers THEN {c} ELSE {})
         /\ Observed' = Observed \cup ({c} \X toolObservations(r))
         /\ \A t : /\ CallsTo(t)' = CallsTo(t) \cup ({c} \X ObservedOf(r, t))
                   /\ FailuresTo(t)' = FailuresTo(t) \cup ({c} \X FailedOf(r, t))
<1> DEFINE ended == [r EXCEPT !.pc = "done", !.answer = answer, !.messages = <<>>, !.round = <<>>]
<1>1. chat' = [chat EXCEPT ![c] = ended]
  BY DEF Finish
<1>2. /\ ended.pc = "done" /\ ended.answer = answer
      /\ ended.executions = r.executions /\ ended.toolResultCache = r.toolResultCache
  BY DEF Fields
<1> HIDE DEF ended
<1>3. chat'[c] = ended /\ \A d \in Chats : d # c => chat'[d] = chat[d]
  BY <1>1 DEF CostInv
<1>4. Done' = Done \cup {c} /\ c \notin Done
  BY <1>2, <1>3 DEF Done
<1>5. \A d \in Done : d # c /\ chat'[d] = chat[d]
  BY <1>3, <1>4 DEF Done
<1>6. ASSUME NEW answers
      PROVE  EndedWith(answers)' = EndedWith(answers) \cup (IF answer \in answers THEN {c} ELSE {})
  BY <1>2, <1>3, <1>4, <1>5 DEF EndedWith
<1>7. toolObservations(ended) = toolObservations(r)
  BY <1>2 DEF toolObservations
<1>8. Observed' = Observed \cup ({c} \X toolObservations(r))
  <2>1. \A x : x \in Observed <=> \E d \in Done : x \in {d} \X toolObservations(chat[d])
    BY DEF Observed
  <2>2. \A x : x \in Observed' <=> \E d \in Done' : x \in {d} \X toolObservations(chat'[d])
    BY DEF Observed
  <2>3. \A x : x \in Observed' <=> x \in Observed \/ x \in {c} \X toolObservations(r)
    BY <1>3, <1>4, <1>5, <1>7, <2>1, <2>2
  <2> QED
    BY <2>3
<1>9. \A x \in Observed : x[1] \in Done
  BY DEF Observed
<1>10. ASSUME NEW t
       PROVE  /\ CallsTo(t)' = CallsTo(t) \cup ({c} \X ObservedOf(r, t))
              /\ FailuresTo(t)' = FailuresTo(t) \cup ({c} \X FailedOf(r, t))
  <2>1. CallsTo(t)' = CallsTo(t) \cup ({c} \X ObservedOf(r, t))
    BY <1>8 DEF CallsTo, ObservedOf
  <2>2. \A x \in CallsTo(t) : chat'[x[1]] = chat[x[1]]
    BY <1>5, <1>9 DEF CallsTo
  <2>3. \A x \in {c} \X ObservedOf(r, t) : chat'[x[1]].toolResultCache = r.toolResultCache
    BY <1>2, <1>3
  <2>4. FailuresTo(t)' = {x \in CallsTo(t)' : chat'[x[1]].toolResultCache[x[2][1]] # "data"}
    BY DEF FailuresTo
  <2>5. {c} \X FailedOf(r, t) = {x \in {c} \X ObservedOf(r, t) : r.toolResultCache[x[2][1]] # "data"}
    BY DEF ObservedOf, FailedOf
  <2> QED
    BY <2>1, <2>2, <2>3, <2>4, <2>5 DEF FailuresTo
<1> QED
  BY <1>4, <1>6, <1>8, <1>10

\* What the metrics hold after a request has been recorded.
LEMMA Recorded ==
  ASSUME DOMAIN metrics = DOMAIN NoMetrics, NEW status, NEW total, NEW calls, NEW failures, NEW invalid,
         RecordMetrics(status, total, calls, failures, invalid)
  PROVE  \E rows \in Rows({t \in ToolNames : calls[t] > 0}) :
           /\ DOMAIN metrics' = DOMAIN NoMetrics
           /\ metrics'.totalToolCalls = metrics.totalToolCalls + total
           /\ metrics'.successfulRequests = metrics.successfulRequests + If(status = "success")
           /\ metrics'.failedRequests = metrics.failedRequests + If(status # "success")
           /\ metrics'.rateLimitedRequests = metrics.rateLimitedRequests + If(status = "rate_limited")
           /\ DOMAIN metrics'.tools = rows
           /\ \A t \in rows : metrics'.tools[t] = Added(t, calls, failures)
<1>1. PICK rows \in Rows({t \in ToolNames : calls[t] > 0}) :
        metrics' = [metrics EXCEPT
                      !.totalRequests = @ + 1,
                      !.totalToolCalls = @ + total,
                      !.toolValidationFailures = @ + invalid,
                      !.successfulRequests = @ + If(status = "success"),
                      !.failedRequests = @ + If(status # "success"),
                      !.timeouts = @ + If(status = "timeout"),
                      !.rateLimitedRequests = @ + If(status = "rate_limited"),
                      !.blockedRequests = @ + If(status = "blocked"),
                      !.tools = [t \in rows |-> Added(t, calls, failures)]]
  BY DEF RecordMetrics
<1> DEFINE table == [t \in rows |-> Added(t, calls, failures)]
<1>2. DOMAIN table = rows /\ \A t \in rows : table[t] = Added(t, calls, failures)
  OBVIOUS
<1> HIDE DEF table
<1>3. {"totalRequests", "totalToolCalls", "successfulRequests", "failedRequests", "rateLimitedRequests", "tools"}
        \subseteq DOMAIN metrics
  BY DEF NoMetrics
<1>4. /\ DOMAIN metrics' = DOMAIN NoMetrics
      /\ metrics'.totalToolCalls = metrics.totalToolCalls + total
      /\ metrics'.successfulRequests = metrics.successfulRequests + If(status = "success")
      /\ metrics'.failedRequests = metrics.failedRequests + If(status # "success")
      /\ metrics'.rateLimitedRequests = metrics.rateLimitedRequests + If(status = "rate_limited")
      /\ metrics'.tools = table
  BY <1>1, <1>3 DEF table
<1> QED
  BY <1>1, <1>2, <1>4

\* The requests that ended with one of these answers, with this one.
LEMMA EndedCount ==
  ASSUME IsFiniteSet(Done), NEW c, c \notin Done, NEW answer, NEW answers,
         EndedWith(answers)' = EndedWith(answers) \cup (IF answer \in answers THEN {c} ELSE {})
  PROVE  Ended(answers) \in Nat /\ Ended(answers)' = Ended(answers) + If(answer \in answers)
<1>1. EndedWith(answers) \subseteq Done /\ c \notin EndedWith(answers)
  BY DEF EndedWith
<1>2. IsFiniteSet(EndedWith(answers))
  BY <1>1, FS_Subset
<1>3. Cardinality(EndedWith(answers)) \in Nat
  BY <1>2, FS_CardinalityType
<1>4. Ended(answers) = Cardinality(EndedWith(answers)) /\ Ended(answers)' = Cardinality(EndedWith(answers)')
  BY DEF Ended, EndedWith
<1>5. CASE answer \in answers
  <2>1. Cardinality(EndedWith(answers) \cup {c}) = Cardinality(EndedWith(answers)) + 1
    BY <1>1, <1>2, FS_AddElement
  <2>2. EndedWith(answers)' = EndedWith(answers) \cup {c}
    BY <1>5
  <2> QED
    BY <1>3, <1>4, <1>5, <2>1, <2>2 DEF If
<1>6. CASE answer \notin answers
  <2>1. EndedWith(answers)' = EndedWith(answers)
    BY <1>6
  <2> QED
    BY <1>3, <1>4, <1>6, <2>1 DEF If
<1> QED
  BY <1>5, <1>6

\* The step that matters: a request is added to the history and to the counters.
LEMMA FinishCounted ==
  ASSUME CostInv, MetricsInv, NEW c \in Chats, chat[c].pc # "done", NEW r, DOMAIN r = Fields,
         ExecutedOnce(r), NEW answer \in Answers, Finish(c, r, answer)
  PROVE  MetricsInv'
<1> DEFINE calls == CallsOf(r)
           failures == FailuresOf(r)
           seen == toolObservations(r)
           status == StatusOf(answer)
           old == DOMAIN metrics.tools
           used == {t \in ToolNames : calls[t] > 0}
<1>1. /\ Done' = Done \cup {c} /\ c \notin Done
      /\ \A answers : EndedWith(answers)' = EndedWith(answers) \cup (IF answer \in answers THEN {c} ELSE {})
      /\ Observed' = Observed \cup ({c} \X seen)
      /\ \A t : /\ CallsTo(t)' = CallsTo(t) \cup ({c} \X ObservedOf(r, t))
                /\ FailuresTo(t)' = FailuresTo(t) \cup ({c} \X FailedOf(r, t))
  BY HistoryGrows
<1>2. /\ DOMAIN metrics = DOMAIN NoMetrics /\ metrics.failedRequests \in Nat /\ old \subseteq ToolNames
      /\ IsFiniteSet(old) /\ IsFiniteSet(Done) /\ IsFiniteSet(Observed)
  BY DEF MetricsInv, Tallied, ToolsKnown
<1>3. PICK rows \in Rows(used) :
        /\ DOMAIN metrics' = DOMAIN NoMetrics
        /\ metrics'.totalToolCalls = metrics.totalToolCalls + Cardinality(seen)
        /\ metrics'.successfulRequests = metrics.successfulRequests + If(status = "success")
        /\ metrics'.failedRequests = metrics.failedRequests + If(status # "success")
        /\ metrics'.rateLimitedRequests = metrics.rateLimitedRequests + If(status = "rate_limited")
        /\ DOMAIN metrics'.tools = rows
        /\ \A t \in rows : metrics'.tools[t] = Added(t, calls, failures)
  <2>1. RecordMetrics(status, Cardinality(seen), calls, failures, InvalidOf(r))
    BY DEF Finish
  <2> QED
    BY <1>2, <2>1, Recorded
<1>4. \A t \in ToolNames :
        /\ IsFiniteSet(ObservedOf(r, t)) /\ calls[t] = Cardinality(ObservedOf(r, t))
        /\ IsFiniteSet(FailedOf(r, t)) /\ failures[t] = Cardinality(FailedOf(r, t))
        /\ calls[t] \in Nat /\ failures[t] \in Nat
        /\ calls[t] > 0 => t \in ToolKeys
        /\ ~(calls[t] > 0) => ObservedOf(r, t) = {} /\ FailedOf(r, t) = {}
  BY CallsCounted
<1>5. IsFiniteSet(seen)
  BY ObservationsFinite
<1>6. /\ (status = "success") = (answer \in {"reply"})
      /\ (status = "rate_limited") = (answer \in {"rateLimit", "roundLimit", "providerBusy"})
  BY DEF StatusOf, Answers
<1> HIDE DEF calls, failures, seen, status
<1>7. /\ IsFiniteSet(rows) /\ old \subseteq rows /\ rows \subseteq old \cup used
      /\ Cardinality(rows) <= MaxToolKeys
      /\ used \subseteq rows \/ Cardinality(rows) >= MaxToolKeys
  <2>1. IsFiniteSet(used)
    BY <1>4, ToolKeysFinite, FS_Subset
  <2>2. Cardinality(old) <= MaxToolKeys
    BY DEF MetricsInv, MetricsAgree
  <2> HIDE DEF used
  <2> QED
    BY <1>2, <1>3, <2>1, <2>2, RowsFill
<1>8. Cardinality(old) \in Nat /\ Cardinality(rows) \in Nat /\ Cardinality(old) <= Cardinality(rows)
      /\ (Cardinality(old) = Cardinality(rows) => old = rows)
  BY <1>2, <1>7, FS_Subset, FS_CardinalityType
<1>9. \A x \in Observed : x[1] # c
  BY <1>1 DEF Observed
<1>10. ASSUME NEW t \in ToolNames
       PROVE  /\ Cardinality(CallsTo(t)') = Cardinality(CallsTo(t)) + calls[t]
              /\ Cardinality(FailuresTo(t)') = Cardinality(FailuresTo(t)) + failures[t]
  <2>1. CallsTo(t) \subseteq Observed /\ FailuresTo(t) \subseteq Observed
    BY DEF CallsTo, FailuresTo
  <2>2. IsFiniteSet(CallsTo(t)) /\ IsFiniteSet(FailuresTo(t))
    BY <1>2, <2>1, FS_Subset
  <2>3. (\A x \in CallsTo(t) : x[1] # c) /\ (\A x \in FailuresTo(t) : x[1] # c)
    BY <1>9, <2>1
  <2>4. Cardinality(CallsTo(t) \cup ({c} \X ObservedOf(r, t))) = Cardinality(CallsTo(t)) + Cardinality(ObservedOf(r, t))
    BY <1>4, <2>2, <2>3, CountedOnce
  <2>5. Cardinality(FailuresTo(t) \cup ({c} \X FailedOf(r, t))) = Cardinality(FailuresTo(t)) + Cardinality(FailedOf(r, t))
    BY <1>4, <2>2, <2>3, CountedOnce
  <2> QED
    BY <1>1, <1>4, <2>4, <2>5
<1>11. ASSUME NEW t \in rows \ old
       PROVE  CallsTo(t) = {} /\ FailuresTo(t) = {}
  <2>1. t \in ToolNames /\ t \notin old /\ old # rows
    BY <1>7
  <2>2. ~(Cardinality(old) >= MaxToolKeys)
    BY <1>7, <1>8, <2>1, ChatAssumption
  <2> QED
    BY <2>1, <2>2 DEF MetricsInv, Room, FailuresTo
<1>12. ASSUME NEW t \in rows
       PROVE  metrics'.tools[t] = [callCount |-> Cardinality(CallsTo(t)'), failureCount |-> Cardinality(FailuresTo(t)')]
  <2>1. t \in ToolNames
    BY <1>2, <1>7
  <2>2. CASE t \in old
    <3>1. metrics.tools[t] = [callCount |-> Cardinality(CallsTo(t)), failureCount |-> Cardinality(FailuresTo(t))]
      BY <2>2 DEF MetricsInv, MetricsAgree
    <3> QED
      BY <1>3, <1>10, <2>1, <2>2, <3>1 DEF Added
  <2>3. CASE t \notin old
    <3>1. Cardinality(CallsTo(t)) = 0 /\ Cardinality(FailuresTo(t)) = 0
      BY <1>11, <2>3, FS_EmptySet
    <3> QED
      BY <1>3, <1>10, <2>1, <2>3, <3>1 DEF Added
  <2> QED
    BY <2>2, <2>3
<1>13. Cardinality(Observed') = Cardinality(Observed) + Cardinality(seen) /\ IsFiniteSet(Observed')
  BY <1>1, <1>2, <1>5, <1>9, CountedOnce
<1>14. Cardinality(Done') = Cardinality(Done) + 1 /\ IsFiniteSet(Done') /\ Cardinality(Done) \in Nat
  BY <1>1, <1>2, FS_AddElement, FS_CardinalityType
<1>15. /\ Ended({"reply"}) \in Nat
       /\ Ended({"reply"})' = Ended({"reply"}) + If(answer \in {"reply"})
       /\ Ended({"rateLimit", "roundLimit", "providerBusy"})'
            = Ended({"rateLimit", "roundLimit", "providerBusy"}) + If(answer \in {"rateLimit", "roundLimit", "providerBusy"})
  <2>1. ASSUME NEW answers
        PROVE  Ended(answers) \in Nat /\ Ended(answers)' = Ended(answers) + If(answer \in answers)
    <3>1. EndedWith(answers)' = EndedWith(answers) \cup (IF answer \in answers THEN {c} ELSE {})
      BY <1>1
    <3> QED
      BY <1>1, <1>2, <3>1, EndedCount
  <2> QED
    BY <2>1
<1>16. Tallied'
  <2>1. If(status # "success") \in Nat
    BY DEF If
  <2>2. metrics'.failedRequests \in Nat
    BY <1>2, <1>3, <2>1
  <2>3. DOMAIN metrics'.tools \subseteq ToolNames
    BY <1>2, <1>3, <1>7
  <2> QED
    BY <1>3, <1>7, <1>13, <1>14, <2>2, <2>3 DEF Tallied, ToolsKnown, NoMetrics
<1>17. MetricsAgree'
  <2>1. metrics'.successfulRequests = Ended({"reply"})'
    BY <1>3, <1>6, <1>15 DEF MetricsInv, MetricsAgree
  <2>2. metrics'.successfulRequests + metrics'.failedRequests = Cardinality(Done')
    <3>1. metrics.successfulRequests + metrics.failedRequests = Cardinality(Done) /\ metrics.successfulRequests \in Nat
      BY <1>15 DEF MetricsInv, MetricsAgree
    <3>2. CASE status = "success"
      BY <1>2, <1>3, <1>14, <3>1, <3>2 DEF If
    <3>3. CASE status # "success"
      BY <1>2, <1>3, <1>14, <3>1, <3>3 DEF If
    <3> QED
      BY <3>2, <3>3
  <2>3. metrics'.rateLimitedRequests = Ended({"rateLimit", "roundLimit", "providerBusy"})'
    BY <1>3, <1>6, <1>15 DEF MetricsInv, MetricsAgree
  <2>4. metrics'.totalToolCalls = Cardinality(Observed')
    BY <1>3, <1>13 DEF MetricsInv, MetricsAgree
  <2> QED
    BY <1>3, <1>7, <1>12, <2>1, <2>2, <2>3, <2>4 DEF MetricsAgree
<1>18. Room'
  <2>1. ASSUME NEW t \in ToolNames, t \notin rows
        PROVE  CallsTo(t)' = {} \/ Cardinality(rows) >= MaxToolKeys
    <3>1. CASE used \subseteq rows
      <4>1. ObservedOf(r, t) = {}
        BY <1>4, <2>1, <3>1
      <4>2. CallsTo(t)' = CallsTo(t)
        BY <1>1, <4>1
      <4>3. CallsTo(t) = {} \/ Cardinality(old) >= MaxToolKeys
        BY <1>7, <2>1 DEF MetricsInv, Room
      <4> QED
        BY <1>8, <4>2, <4>3, ChatAssumption
    <3> QED
      BY <1>7, <3>1
  <2> QED
    BY <1>3, <2>1 DEF Room
<1> QED
  BY <1>16, <1>17, <1>18 DEF MetricsInv

\* A step that leaves a request running leaves the history as it is.
LEMMA GoesOn ==
  ASSUME CostInv, MetricsInv, UNCHANGED metrics, NEW c \in Chats, chat[c].pc # "done",
         NEW r, r.pc # "done", chat' = [chat EXCEPT ![c] = r]
  PROVE  MetricsInv'
<1>1. \A d \in Chats : chat'[d] = IF d = c THEN r ELSE chat[d]
  BY DEF CostInv
<1>2. Done' = Done /\ \A d \in Done : chat'[d] = chat[d]
  BY <1>1 DEF Done
<1> QED
  BY <1>2, NothingCounted

LEMMA ReceiveCounted ==
  ASSUME CostInv, MetricsInv, NEW c \in Chats, Receive(c)
  PROVE  MetricsInv'
<1>1. Good(chat[c]) /\ chat[c].pc = "new"
  BY DEF CostInv, Receive
<1>2. ASSUME NEW answer \in Answers, Finish(c, chat[c], answer)
      PROVE  MetricsInv'
  BY <1>1, <1>2, FinishCounted DEF Good
<1>3. CASE Begin(c)
  <2> DEFINE new == [chat[c] EXCEPT !.pc = "provider", !.messages = <<[role |-> "user"]>>]
  <2>1. chat' = [chat EXCEPT ![c] = new] /\ UNCHANGED metrics
    BY <1>1, <1>3 DEF Begin, CostInv, Good, Fields
  <2>2. new.pc = "provider"
    BY <1>1 DEF Good, Fields
  <2> HIDE DEF new
  <2> QED
    BY <1>1, <2>1, <2>2, GoesOn
<1> QED
  BY <1>2, <1>3 DEF Receive, Answers

LEMMA RespondCounted ==
  ASSUME CostInv, MetricsInv, NEW c \in Chats, Respond(c)
  PROVE  MetricsInv'
<1> DEFINE q == [chat[c] EXCEPT !.providerCalls = @ + 1]
<1>1. Good(chat[c]) /\ chat[c].pc = "provider"
  BY DEF CostInv, Respond
<1>2. DOMAIN q = Fields /\ q.toolResultCache = chat[c].toolResultCache /\ q.executions = chat[c].executions
  BY <1>1 DEF Good, Fields
<1>3. \E answer \in Answers : Finish(c, q, answer)
  BY DEF Respond, Answers
<1> HIDE DEF q
<1>4. ExecutedOnce(q)
  BY <1>1, <1>2 DEF Good, ExecutedOnce
<1> QED
  BY <1>1, <1>2, <1>3, <1>4, FinishCounted

LEMMA AskToolsCounted ==
  ASSUME CostInv, MetricsInv, NEW c \in Chats, AskTools(c)
  PROVE  MetricsInv'
<1> DEFINE q == [chat[c] EXCEPT !.providerCalls = @ + 1, !.toolRounds = @ + 1]
<1>1. Good(chat[c]) /\ chat[c].pc = "provider"
  BY DEF CostInv, AskTools
<1>2. DOMAIN q = Fields /\ q.toolResultCache = chat[c].toolResultCache /\ q.executions = chat[c].executions
  BY <1>1 DEF Good, Fields
<1>3. PICK calls \in Calls :
        IF q.toolRounds > MaxToolRounds
        THEN Finish(c, q, "roundLimit")
        ELSE chat' = [chat EXCEPT ![c] = Asked(q, calls, Uncached(q, calls))] /\ UNCHANGED metrics
  BY DEF AskTools
<1> HIDE DEF q
<1>4. ExecutedOnce(q)
  BY <1>1, <1>2 DEF Good, ExecutedOnce
<1>5. CASE q.toolRounds > MaxToolRounds
  BY <1>1, <1>2, <1>3, <1>4, <1>5, FinishCounted DEF Answers
<1>6. CASE ~(q.toolRounds > MaxToolRounds)
  <2> DEFINE asked == Asked(q, calls, Uncached(q, calls))
  <2>1. asked.pc = "tools"
    BY <1>2 DEF Asked, Fields
  <2>2. chat' = [chat EXCEPT ![c] = asked] /\ UNCHANGED metrics
    BY <1>3, <1>6
  <2> HIDE DEF asked
  <2> QED
    BY <1>1, <2>1, <2>2, GoesOn
<1> QED
  BY <1>5, <1>6

LEMMA ToolStepCounted ==
  ASSUME CostInv, MetricsInv, NEW c \in Chats, Collect(c) \/ \E k \in Keys : ToolReturns(c, k)
  PROVE  MetricsInv'
<1>1. Good(chat[c]) /\ chat[c].pc = "tools" /\ UNCHANGED metrics
  BY DEF CostInv, Collect, ToolReturns
<1>2. CASE Collect(c)
  <2> DEFINE messages == chat[c].messages \o ToolMessages(chat[c])
             new == [chat[c] EXCEPT !.pc = "provider", !.messages = messages, !.round = <<>>]
  <2>1. chat' = [chat EXCEPT ![c].pc = "provider", ![c].messages = messages, ![c].round = <<>>]
    BY <1>1, <1>2 DEF Collect, CostInv, Good, Fields
  <2> HIDE DEF messages
  <2>2. chat' = [chat EXCEPT ![c] = new] /\ new.pc = "provider"
    BY <1>1, <2>1 DEF CostInv, Good, Fields
  <2> HIDE DEF new
  <2> QED
    BY <1>1, <2>2, GoesOn
<1>3. ASSUME NEW k \in Keys, ToolReturns(c, k)
      PROVE  MetricsInv'
  <2>1. PICK result \in ResultsOf(k) :
          chat' = [chat EXCEPT ![c].toolResultCache[k] = result, ![c].executions[k] = @ + 1]
    BY <1>3 DEF ToolReturns
  <2> DEFINE new == [chat[c] EXCEPT !.toolResultCache[k] = result, !.executions[k] = @ + 1]
  <2>2. chat' = [chat EXCEPT ![c] = new]
    BY <1>1, <2>1 DEF CostInv, Good, Fields
  <2>3. new.pc = "tools"
    BY <1>1 DEF Good, Fields
  <2> HIDE DEF new
  <2> QED
    BY <1>1, <2>2, <2>3, GoesOn
<1> QED
  BY <1>2, <1>3

LEMMA MetricsStep ==
  ASSUME CostInv, MetricsInv, [Next]_vars
  PROVE  MetricsInv'
<1>1. CASE UNCHANGED <<chat, metrics>>
  BY <1>1, NothingCounted DEF Done
<1>2. ASSUME NEW c \in Chats, Handle(c)
      PROVE  MetricsInv'
  BY <1>2, ReceiveCounted, RespondCounted, AskToolsCounted, ToolStepCounted DEF Handle
<1> QED
  BY <1>1, <1>2 DEF Next, vars

(* The counters agree with the requests that have ended, whichever way and *)
(* in whatever order they ended, and the table of tools has all the calls  *)
(* and failures of a tool that has a row, for any number of requests, of   *)
(* tools, of rounds, and any room in the table.                            *)
THEOREM MetricsAgreeThm == Spec => []MetricsAgree
<1>1. MetricsInv => MetricsAgree
  BY DEF MetricsInv
<1> QED
  BY <1>1, CostInit, CostStep, MetricsInit, MetricsStep, PTL DEF Spec

=============================================================================
