------------------------------ MODULE AiMetrics ------------------------------
(***************************************************************************)
(* The counters of src/ai/chat/aiMetricsAggregator.ts, which every chat    *)
(* request is added to when it ends.  Times and tokens are left out, and   *)
(* so is the table by provider and model: the environment fixes its single *)
(* row, whose counts repeat those of all requests.                         *)
(***************************************************************************)
EXTENDS Integers, FiniteSets, FiniteSetsExt

CONSTANTS ToolNames, MaxToolKeys

VARIABLE metrics

NoMetrics ==
  [totalRequests |-> 0, successfulRequests |-> 0, failedRequests |-> 0, timeouts |-> 0,
   rateLimitedRequests |-> 0, blockedRequests |-> 0, totalToolCalls |-> 0,
   toolValidationFailures |-> 0,
   tools |-> [t \in {} |-> [callCount |-> 0, failureCount |-> 0]]]

If(condition) == IF condition THEN 1 ELSE 0

\* ensureToolAggregate: names get a row of their own while there is room, in
\* the order in which the tools of the request returned, which may be any.
Rows(used) ==
  LET old == DOMAIN metrics.tools
      new == used \ old
      room == IF MaxToolKeys > Cardinality(old) THEN MaxToolKeys - Cardinality(old) ELSE 0
  IN {old \cup s : s \in kSubset(IF Cardinality(new) < room THEN Cardinality(new) ELSE room, new)}

\* Mutant: a failing tool call is not a call.
Added_Successes(t, calls, failures) ==
  LET row == IF t \in DOMAIN metrics.tools THEN metrics.tools[t] ELSE [callCount |-> 0, failureCount |-> 0]
  IN [callCount |-> row.callCount + calls[t] - failures[t], failureCount |-> row.failureCount + failures[t]]
Added(t, calls, failures) ==
  LET row == IF t \in DOMAIN metrics.tools THEN metrics.tools[t] ELSE [callCount |-> 0, failureCount |-> 0]
  IN [callCount |-> row.callCount + calls[t], failureCount |-> row.failureCount + failures[t]]

\* recordAiRequestMetrics of a request with that status and that many tool calls.
RecordMetrics(status, total, calls, failures, invalid) ==
  \E rows \in Rows({t \in ToolNames : calls[t] > 0}) :
    metrics' =
      [metrics EXCEPT
         !.totalRequests = @ + 1,
         !.totalToolCalls = @ + total,
         !.toolValidationFailures = @ + invalid,
         !.successfulRequests = @ + If(status = "success"),
         !.failedRequests = @ + If(status # "success"),
         !.timeouts = @ + If(status = "timeout"),
         !.rateLimitedRequests = @ + If(status = "rate_limited"),
         !.blockedRequests = @ + If(status = "blocked"),
         !.tools = [t \in rows |-> Added(t, calls, failures)]]
=============================================================================
