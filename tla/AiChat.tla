-------------------------------- MODULE AiChat --------------------------------
(***************************************************************************)
(* POST /ai/chat: src/controllers/aiChatController.ts, the loop of model   *)
(* and tool calls of src/ai/chat/aiChatService.ts and the execution of a   *)
(* tool call in src/ai/tools/toolExecutor.ts, for requests of one process, *)
(* which share the rate limiter and the counters.  What a handler does     *)
(* between two awaited calls is one action.                                *)
(***************************************************************************)
EXTENDS AiRateLimit, AiMetrics, Sequences, SequencesExt

CONSTANTS
  Keys,           \* tool calls that differ in name or arguments: toolCallCacheKey
  ToolOf,         \* [Keys -> ToolNames]
  Verdict,        \* [Keys -> Verdicts], what the checks before execution say
  MaxToolRounds,  \* AI_MAX_TOOL_ROUNDS
  MaxCalls,       \* bound on the tool calls of one model response
  AiEnabled

Verdicts == {"callable", "TOOL_NOT_FOUND", "TOOL_VALIDATION_FAILED", "TOOL_AUTH_DENIED"}
Results == {"data", "TOOL_EXECUTION_FAILED", "TOOL_NOT_FOUND", "TOOL_VALIDATION_FAILED", "TOOL_AUTH_DENIED"}

ASSUME ChatAssumption ==
  /\ IsFiniteSet(Keys)
  /\ ToolOf \in [Keys -> ToolNames]
  /\ Verdict \in [Keys -> Verdicts]
  /\ MaxToolRounds \in Nat \ {0}
  /\ MaxCalls \in Nat \ {0}
  /\ MaxToolKeys \in Nat
  /\ AiEnabled \in BOOLEAN

VARIABLE chat   \* [Chats -> the handler's local state]

vars == <<chat, limiterVars, metrics>>

Answers == {"reply", "refusal", "disabled", "badMessage", "rateLimit", "roundLimit",
            "timeout", "providerBusy", "providerError"}
Calls == BoundedSeq(Keys, MaxCalls) \ {<<>>}

NewChat ==
  [pc |-> "new", answer |-> "none", messages |-> <<>>, toolRounds |-> 0, providerCalls |-> 0,
   round |-> <<>>, toolResultCache |-> [k \in Keys |-> "none"], executions |-> [k \in Keys |-> 0]]

-----------------------------------------------------------------------------
(* The end of a request: the answer, and the metrics in the finally block. *)

\* resolveAiRequestStatus
StatusOf(answer) ==
  CASE answer = "reply" -> "success"
    [] answer = "refusal" -> "blocked"
    [] answer = "timeout" -> "timeout"
    [] answer \in {"rateLimit", "roundLimit", "providerBusy"} -> "rate_limited"
    [] OTHER -> "error"

\* Each execution of a tool is observed once.
toolObservations(r) == UNION {{k} \X (1..r.executions[k]) : k \in Keys}
\* buildToolMetrics
CallsOf(r) == [t \in ToolNames |-> Cardinality({o \in toolObservations(r) : ToolOf[o[1]] = t})]
FailuresOf(r) ==
  [t \in ToolNames |->
     Cardinality({o \in toolObservations(r) : ToolOf[o[1]] = t /\ r.toolResultCache[o[1]] # "data"})]
InvalidOf(r) ==
  Cardinality({o \in toolObservations(r) : r.toolResultCache[o[1]] = "TOOL_VALIDATION_FAILED"})

\* The conversation is forgotten; what the metrics count is kept as history.
Finish(c, r, answer) ==
  /\ chat' = [chat EXCEPT ![c] = [r EXCEPT !.pc = "done", !.answer = answer,
                                           !.messages = <<>>, !.round = <<>>]]
  /\ RecordMetrics(StatusOf(answer), Cardinality(toolObservations(r)),
                   CallsOf(r), FailuresOf(r), InvalidOf(r))

-----------------------------------------------------------------------------
(* postAiChat up to the first call of the provider.                        *)

Begin(c) ==
  /\ chat' = [chat EXCEPT ![c].pc = "provider", ![c].messages = <<[role |-> "user"]>>]
  /\ UNCHANGED metrics

\* A message that is missing, too long, or not text is not counted by the
\* limiter; one the prompt guard refuses is.
Receive(c) ==
  /\ chat[c].pc = "new"
  /\ \/ /\ ~AiEnabled
        /\ Finish(c, chat[c], "disabled")
        /\ UNCHANGED limiterVars
     \/ /\ AiEnabled
        /\ \/ Finish(c, chat[c], "badMessage") /\ UNCHANGED limiterVars
           \/ Refuse(c) /\ Finish(c, chat[c], "rateLimit")
           \/ Admit(c) /\ (Finish(c, chat[c], "refusal") \/ Begin(c))

-----------------------------------------------------------------------------
(* runAiChat                                                               *)

\* The model's response is text, or the call fails; it is given up after
\* the provider's timeout.
Respond(c) ==
  LET r == [chat[c] EXCEPT !.providerCalls = @ + 1]
  IN /\ chat[c].pc = "provider"
     /\ \E answer \in {"reply", "timeout", "providerBusy", "providerError"} : Finish(c, r, answer)
     /\ UNCHANGED limiterVars

\* executeToolCallsForRound: one call per key that has no result yet.  The
\* provider names its calls; the name is taken to be the round and position.
Uncached(r, calls) == {k \in Range(calls) : r.toolResultCache[k] = "none"}

Request(round, calls) ==
  [role |-> "assistant", calls |-> [i \in DOMAIN calls |-> [id |-> <<round, i>>, key |-> calls[i]]]]

Asked(r, calls, uncached) ==
  [r EXCEPT !.pc = "tools", !.round = calls,
            !.messages = Append(@, Request(r.toolRounds, calls)),
            !.toolResultCache = [k \in Keys |-> IF k \in uncached THEN "running" ELSE @[k]]]

\* Mutant: the limit is off by one round.
AskTools_OneMore(c) ==
  LET r == [chat[c] EXCEPT !.providerCalls = @ + 1, !.toolRounds = @ + 1]
  IN /\ chat[c].pc = "provider"
     /\ \E calls \in Calls :
          IF r.toolRounds > MaxToolRounds + 1
          THEN Finish(c, r, "roundLimit")
          ELSE chat' = [chat EXCEPT ![c] = Asked(r, calls, Uncached(r, calls))] /\ UNCHANGED metrics
     /\ UNCHANGED limiterVars
\* Mutant: every round executes all its calls again.
AskTools_NoCache(c) ==
  LET r == [chat[c] EXCEPT !.providerCalls = @ + 1, !.toolRounds = @ + 1]
  IN /\ chat[c].pc = "provider"
     /\ \E calls \in Calls :
          IF r.toolRounds > MaxToolRounds
          THEN Finish(c, r, "roundLimit")
          ELSE chat' = [chat EXCEPT ![c] = Asked(r, calls, Range(calls))] /\ UNCHANGED metrics
     /\ UNCHANGED limiterVars
\* The model asks for tools: beyond the last round the request ends at once.
AskTools(c) ==
  LET r == [chat[c] EXCEPT !.providerCalls = @ + 1, !.toolRounds = @ + 1]
  IN /\ chat[c].pc = "provider"
     /\ \E calls \in Calls :
          IF r.toolRounds > MaxToolRounds
          THEN Finish(c, r, "roundLimit")
          ELSE chat' = [chat EXCEPT ![c] = Asked(r, calls, Uncached(r, calls))] /\ UNCHANGED metrics
     /\ UNCHANGED limiterVars

\* executeToolCall never throws: checks that fail and tools that fail are
\* results, which the cache keeps like any other.
ResultsOf(k) ==
  IF Verdict[k] = "callable" THEN {"data", "TOOL_EXECUTION_FAILED"} ELSE {Verdict[k]}

\* Mutant: a refused call throws and leaves no result.
ToolReturns_Throws(c, k) ==
  /\ chat[c].pc = "tools"
  /\ chat[c].toolResultCache[k] = "running"
  /\ Verdict[k] = "callable"
  /\ \E result \in ResultsOf(k) :
       chat' = [chat EXCEPT ![c].toolResultCache[k] = result, ![c].executions[k] = @ + 1]
  /\ UNCHANGED <<limiterVars, metrics>>
ToolReturns(c, k) ==
  /\ chat[c].pc = "tools"
  /\ chat[c].toolResultCache[k] = "running"
  /\ \E result \in ResultsOf(k) :
       chat' = [chat EXCEPT ![c].toolResultCache[k] = result, ![c].executions[k] = @ + 1]
  /\ UNCHANGED <<limiterVars, metrics>>

Running(r) == {k \in Keys : r.toolResultCache[k] = "running"}

\* Mutant: a key asked for twice is answered once.
ToolMessages_Unique(r) ==
  LET first == {i \in DOMAIN r.round : \A j \in 1..(i - 1) : r.round[j] # r.round[i]}
  IN [i \in 1..Cardinality(first) |->
        [role |-> "tool", id |-> <<r.toolRounds, i>>, content |-> r.toolResultCache[r.round[i]]]]
\* One message per call, in the order of the calls, with the id of this round.
ToolMessages(r) ==
  [i \in DOMAIN r.round |->
     [role |-> "tool", id |-> <<r.toolRounds, i>>, content |-> r.toolResultCache[r.round[i]]]]

\* Promise.all has settled: the results go back to the model.
Collect(c) ==
  LET r == chat[c]
  IN /\ r.pc = "tools"
     /\ Running(r) = {}
     /\ chat' = [chat EXCEPT ![c].pc = "provider", ![c].messages = @ \o ToolMessages(r), ![c].round = <<>>]
     /\ UNCHANGED <<limiterVars, metrics>>

-----------------------------------------------------------------------------
Init ==
  /\ LimiterInit
  /\ metrics = NoMetrics
  /\ chat = [c \in Chats |-> NewChat]

Handle(c) ==
  \/ Receive(c) \/ Respond(c) \/ AskTools(c) \/ Collect(c)
  \/ \E k \in Keys : ToolReturns(c, k)

Next ==
  \/ \E c \in Chats : Handle(c)
  \/ Tick /\ UNCHANGED <<chat, metrics>>

Spec == Init /\ [][Next]_vars

\* A call of the provider ends by its timeout at the latest, and the queries
\* of the tools return.
FairSpec == Spec /\ \A c \in Chats : WF_vars(Handle(c))

-----------------------------------------------------------------------------
(* Properties.                                                             *)

(* The types of the state.                                                 *)
TypeOK ==
  /\ LimiterTypeOK
  /\ \A c \in Chats :
       /\ chat[c].pc \in {"new", "provider", "tools", "done"}
       /\ chat[c].answer \in Answers \cup {"none"}
       /\ chat[c].pc = "done" <=> chat[c].answer # "none"
       /\ chat[c].toolRounds \in 0..(MaxToolRounds + 1)
       /\ chat[c].toolResultCache \in [Keys -> Results \cup {"none", "running"}]
  /\ DOMAIN metrics.tools \subseteq ToolNames

(* Nobody is turned away for nothing: at a refusal the user has had Limit  *)
(* requests let through within the last window; refused ones do not count. *)
RefusedOnlyWhenFull ==
  [][\A c \in Chats :
       chat[c].pc = "new" /\ chat'[c].answer = "rateLimit"
         => Cardinality({s \in admitted : UserOf[s.chat] = UserOf[c] /\ s.at > now - WindowMs}) >= Limit]_vars

(* What the chat completions protocol asks of a conversation, whenever it  *)
(* is sent to the provider: each request for tools is followed by exactly  *)
(* one result per call, in order and under its id, nothing else comes      *)
(* between, and calls that ask for the same thing get the same result      *)
(* throughout the conversation.                                            *)
AnswersTo(messages, j) ==
  \A i \in DOMAIN messages[j].calls :
    /\ j + i <= Len(messages)
    /\ messages[j + i].role = "tool"
    /\ messages[j + i].id = messages[j].calls[i].id
Requests(messages) == {j \in DOMAIN messages : messages[j].role = "assistant"}
ConversationAnswered ==
  \A c \in Chats : chat[c].pc = "provider" =>
    LET ms == chat[c].messages IN
    /\ \A j \in Requests(ms) : AnswersTo(ms, j)
    /\ \A m \in DOMAIN ms : m = 1 \/ m \in Requests(ms) \/ \E j \in Requests(ms) : m - j \in DOMAIN ms[j].calls
    /\ \A j, l \in Requests(ms) : \A i \in DOMAIN ms[j].calls, h \in DOMAIN ms[l].calls :
         ms[j].calls[i].key = ms[l].calls[h].key => ms[j + i].content = ms[l + h].content

(* A request costs at most one call of the provider more than it has tool  *)
(* rounds, and runs no tool twice with the same arguments, also if the     *)
(* model repeats a call within a round or asks again after a failure.      *)
CostBounded ==
  \A c \in Chats :
    /\ chat[c].providerCalls <= MaxToolRounds + 1
    /\ \A k \in Keys : chat[c].executions[k] <= 1

(* The counters agree with the requests that have ended, whichever way;    *)
(* the table of tools has room for MaxToolKeys names only, and a tool that *)
(* has a row has all its calls and failures counted there.                 *)
Done == {c \in Chats : chat[c].pc = "done"}
Ended(answers) == Cardinality({c \in Done : chat[c].answer \in answers})
Observed == UNION {{c} \X toolObservations(chat[c]) : c \in Done}
CallsTo(t) == {x \in Observed : ToolOf[x[2][1]] = t}
FailuresTo(t) == {x \in CallsTo(t) : chat[x[1]].toolResultCache[x[2][1]] # "data"}
MetricsAgree ==
  /\ metrics.successfulRequests = Ended({"reply"})
  /\ metrics.successfulRequests + metrics.failedRequests = Cardinality(Done)
  /\ metrics.rateLimitedRequests = Ended({"rateLimit", "roundLimit", "providerBusy"})
  /\ metrics.totalToolCalls = Cardinality(Observed)
  /\ Cardinality(DOMAIN metrics.tools) <= MaxToolKeys
  /\ \A t \in DOMAIN metrics.tools :
       metrics.tools[t] = [callCount |-> Cardinality(CallsTo(t)),
                           failureCount |-> Cardinality(FailuresTo(t))]

(* Every request ends: the model cannot keep it going by asking for tools, *)
(* and no tool that fails or is refused leaves it waiting.                 *)
EveryChatEnds == \A c \in Chats : chat[c].pc # "new" ~> chat[c].pc = "done"
=============================================================================
