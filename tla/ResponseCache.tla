---------------------------- MODULE ResponseCache ----------------------------
(***************************************************************************)
(* The GET cache of src/middleware/responseCache.ts for one cache key: a   *)
(* Map and a table of in-flight misses in every server process, a Redis    *)
(* server they may share, and the invalidation that mutating routes run    *)
(* after they have answered (src/controllers/crudFactory.ts).              *)
(* An action is what runs between two awaits.                              *)
(***************************************************************************)
EXTENDS Integers, FiniteSets

CONSTANTS
  Nodes,       \* server processes
  Gets,        \* GET requests for the key, each handled once
  GetNode,     \* [Gets -> Nodes]
  Puts,        \* mutating requests, each handled once
  PutNode,     \* [Puts -> Nodes]
  NoEntry, NoGet,
  TTL,
  MaxTime,     \* bound on the clock
  UseRedis,    \* isRedisReady()
  KeyMatches,  \* the key contains the prefix the mutation clears
  Faults       \* TRUE: handlers fail, clients disconnect, waiters time out

\* at and raced are history: when the entry was made, and whether its process
\* was invalidated after the handler had read the data.
Versions == 0..Cardinality(Puts)
Entry == [ver : Versions, expiresAt : 0..(MaxTime + TTL), at : 0..MaxTime, raced : BOOLEAN]

ASSUME ResponseCacheAssumption ==
  /\ IsFiniteSet(Puts)
  /\ NoEntry \notin Entry
  /\ GetNode \in [Gets -> Nodes]
  /\ PutNode \in [Puts -> Nodes]
  /\ NoGet \notin Gets
  /\ TTL \in Nat \ {0}
  /\ MaxTime \in Nat
  /\ {UseRedis, KeyMatches, Faults} \subseteq BOOLEAN

VARIABLES
  version,   \* committed version of the data the key shows
  now,
  memory,    \* [Nodes -> entry], the Map store
  redis,     \* the entry under the key's physical key
  inflight,  \* [Nodes -> Gets or NoGet], whose promise inflightMisses holds
  promise,   \* [Gets -> the promise createInflightWaiter made for that miss]
  get,       \* [Gets -> local state]
  put,       \* [Puts -> local state]
  cleared    \* history: the last version whose invalidation ran in a process

cacheVars == <<version, now, memory, redis, inflight, promise, get, put, cleared>>

Live(e) == e # NoEntry /\ e.expiresAt > now

Fill(n, e) == memory' = [memory EXCEPT ![n] = e]
Answer(g, e) == get' = [get EXCEPT ![g].pc = "answered", ![g].served = e]

-----------------------------------------------------------------------------
(* cacheGetResponse.                                                       *)

\* createInflightWaiter polls memory once before its promise is published.
StartMiss(g) ==
  LET n == GetNode[g]
  IN /\ inflight' = [inflight EXCEPT ![n] = g]
     /\ promise' = [promise EXCEPT ![g] = IF Live(memory[n])
                      THEN [state |-> "resolved", entry |-> memory[n]]
                      ELSE [state |-> "polling", entry |-> NoEntry]]
     /\ get' = [get EXCEPT ![g].pc = "query"]

\* Mutant: a waiting request is not looked for.
JoinOrMiss_NoJoin(g) == StartMiss(g)
JoinOrMiss(g) ==
  LET leader == inflight[GetNode[g]]
  IN IF leader # NoGet
     THEN get' = [get EXCEPT ![g].pc = "wait", ![g].leader = leader] /\ UNCHANGED <<inflight, promise>>
     ELSE StartMiss(g)

\* The synchronous beginning: readMemory, then Redis or the in-flight table.
Lookup(g) ==
  LET n == GetNode[g]
  IN /\ get[g].pc = "new"
     /\ CASE Live(memory[n]) -> Answer(g, memory[n]) /\ UNCHANGED <<inflight, promise>>
          [] ~Live(memory[n]) /\ UseRedis ->
               get' = [get EXCEPT ![g].pc = "redis"] /\ UNCHANGED <<inflight, promise>>
          [] OTHER -> JoinOrMiss(g)
     /\ memory' = IF Live(memory[n]) THEN memory ELSE [memory EXCEPT ![n] = NoEntry]
     /\ UNCHANGED <<version, now, redis, put, cleared>>

\* The Redis server reads the key.
RedisGet(g) ==
  /\ get[g].pc = "redis"
  /\ get' = [get EXCEPT ![g].pc = "reply", ![g].raw = redis]
  /\ UNCHANGED <<version, now, memory, redis, inflight, promise, put, cleared>>

\* Mutant: a hit in Redis starts a new lifetime in memory.
Refill_NewLifetime(n, e) == Fill(n, [e EXCEPT !.expiresAt = now + TTL])
Refill(n, e) == Fill(n, e)

\* The reply arrives: a live entry also fills this process's memory.
RedisReply(g) ==
  LET e == get[g].raw
  IN /\ get[g].pc = "reply"
     /\ IF Live(e)
        THEN Refill(GetNode[g], e) /\ Answer(g, e) /\ UNCHANGED <<inflight, promise>>
        ELSE JoinOrMiss(g) /\ UNCHANGED memory
     /\ UNCHANGED <<version, now, redis, put, cleared>>

\* The awaited promise of another miss settles; a failed or expired one makes
\* this request a miss of its own, without looking at the table again.
Wake(g) ==
  LET p == promise[get[g].leader]
  IN /\ get[g].pc = "wait"
     /\ p.state # "polling"
     /\ IF p.state = "resolved" /\ Live(p.entry)
        THEN Answer(g, p.entry) /\ UNCHANGED <<inflight, promise>>
        ELSE StartMiss(g)
     /\ UNCHANGED <<version, now, memory, redis, put, cleared>>

-----------------------------------------------------------------------------
(* The handler behind the cache, and attachCacheWriter.                    *)

Query(g) ==
  /\ get[g].pc = "query"
  /\ get' = [get EXCEPT ![g].pc = "respond", ![g].ver = version]
  /\ UNCHANGED <<version, now, memory, redis, inflight, promise, put, cleared>>

Settle(n) == inflight' = [inflight EXCEPT ![n] = NoGet]
Rejected == [state |-> "rejected", entry |-> NoEntry]
Abort(g) ==
  IF promise[g].state = "polling"
  THEN promise' = [promise EXCEPT ![g] = Rejected] /\ Settle(GetNode[g])
  ELSE UNCHANGED <<promise, inflight>>

\* Mutant: the time to live is given in addition to a full one.
Expiry_Twice == now + TTL + TTL
Expiry == now + TTL

\* res.json with data: memory and Redis are written; settleInflight drops
\* whichever promise the table holds for the key.
Respond(g) ==
  LET e == [ver |-> get[g].ver, expiresAt |-> Expiry, at |-> now, raced |-> get[g].raced]
  IN /\ get[g].pc = "respond"
     /\ Fill(GetNode[g], e)
     /\ redis' = IF UseRedis THEN e ELSE redis
     /\ Settle(GetNode[g])
     /\ Answer(g, e)
     /\ UNCHANGED <<version, now, promise, put, cleared>>

\* Mutant: an error response leaves the waiting promise alone.
RespondError_NoAbort(g) ==
  /\ Faults
  /\ get[g].pc = "respond"
  /\ get' = [get EXCEPT ![g].pc = "failed"]
  /\ UNCHANGED <<version, now, memory, redis, inflight, promise, put, cleared>>
\* An error response caches nothing and aborts the waiters.
RespondError(g) ==
  /\ Faults
  /\ get[g].pc = "respond"
  /\ Abort(g)
  /\ get' = [get EXCEPT ![g].pc = "failed"]
  /\ UNCHANGED <<version, now, memory, redis, put, cleared>>

\* The client disconnects: the waiters are aborted, the handler runs on.
ClientCloses(g) ==
  /\ Faults
  /\ get[g].pc \in {"query", "respond"}
  /\ promise[g].state = "polling"
  /\ Abort(g)
  /\ UNCHANGED <<version, now, memory, redis, get, put, cleared>>

\* poll(): every 10 ms the promise looks for the entry in memory.
Poll(g) ==
  LET n == GetNode[g]
  IN /\ promise[g].state = "polling"
     /\ Live(memory[n])
     /\ promise' = [promise EXCEPT ![g] = [state |-> "resolved", entry |-> memory[n]]]
     /\ Settle(n)
     /\ UNCHANGED <<version, now, memory, redis, get, put, cleared>>

\* Mutant: the timed out waiter is forgotten but never rejected.
WaiterTimeout_NoReject(g) ==
  /\ Faults
  /\ promise[g].state = "polling"
  /\ promise' = [promise EXCEPT ![g].entry = NoEntry]
  /\ Settle(GetNode[g])
  /\ UNCHANGED <<version, now, memory, redis, get, put, cleared>>
\* poll() gives up after 30 s.
WaiterTimeout(g) ==
  /\ Faults
  /\ promise[g].state = "polling"
  /\ promise' = [promise EXCEPT ![g] = Rejected]
  /\ Settle(GetNode[g])
  /\ UNCHANGED <<version, now, memory, redis, get, put, cleared>>

-----------------------------------------------------------------------------
(* A mutation answers its client first; setImmediate then runs clearCaches.*)

Commit(w) ==
  /\ put[w].pc = "new"
  /\ version' = version + 1
  /\ put' = [put EXCEPT ![w] = [pc |-> "clear", ver |-> version + 1, found |-> FALSE]]
  /\ UNCHANGED <<now, memory, redis, inflight, promise, get, cleared>>

Invalidated(w) ==
  /\ cleared' = [cleared EXCEPT ![PutNode[w]] = IF put[w].ver > @ THEN put[w].ver ELSE @]
  /\ get' = [g \in Gets |-> IF GetNode[g] = PutNode[w] /\ get[g].pc = "respond"
                            THEN [get[g] EXCEPT !.raced = TRUE] ELSE get[g]]

\* Mutant: the waiting table is emptied, the stored entries stay.
Clear_InflightOnly(w) ==
  /\ put[w].pc = "clear"
  /\ put' = [put EXCEPT ![w].pc = IF UseRedis THEN "scan" ELSE "done"]
  /\ IF KeyMatches THEN Settle(PutNode[w]) ELSE UNCHANGED inflight
  /\ Invalidated(w)
  /\ UNCHANGED <<version, now, memory, redis, promise>>
\* clearResponseCache: both tables of this process at once, Redis later.
Clear(w) ==
  LET n == PutNode[w]
  IN /\ put[w].pc = "clear"
     /\ put' = [put EXCEPT ![w].pc = IF UseRedis THEN "scan" ELSE "done"]
     /\ IF KeyMatches
        THEN Fill(n, NoEntry) /\ Settle(n)
        ELSE UNCHANGED <<memory, inflight>>
     /\ Invalidated(w)
     /\ UNCHANGED <<version, now, redis, promise>>

\* redisDelByPattern: the SCAN sees the key or not, the DEL follows.
RedisScan(w) ==
  /\ put[w].pc = "scan"
  /\ put' = [put EXCEPT ![w].pc = "del", ![w].found = KeyMatches /\ redis # NoEntry]
  /\ UNCHANGED <<version, now, memory, redis, inflight, promise, get, cleared>>

RedisDel(w) ==
  /\ put[w].pc = "del"
  /\ put' = [put EXCEPT ![w].pc = "done"]
  /\ redis' = IF put[w].found THEN NoEntry ELSE redis
  /\ UNCHANGED <<version, now, memory, inflight, promise, get, cleared>>

Tick ==
  /\ now < MaxTime
  /\ now' = now + 1
  /\ redis' = IF redis # NoEntry /\ redis.expiresAt <= now + 1 THEN NoEntry ELSE redis
  /\ UNCHANGED <<version, memory, inflight, promise, get, put, cleared>>

-----------------------------------------------------------------------------
CacheInit ==
  /\ version = 0
  /\ now = 0
  /\ memory = [n \in Nodes |-> NoEntry]
  /\ redis = NoEntry
  /\ inflight = [n \in Nodes |-> NoGet]
  /\ promise = [g \in Gets |-> [state |-> "none", entry |-> NoEntry]]
  /\ get = [g \in Gets |-> [pc |-> "new", leader |-> NoGet, raw |-> NoEntry, ver |-> 0,
                            raced |-> FALSE, served |-> NoEntry]]
  /\ put = [w \in Puts |-> [pc |-> "new", ver |-> 0, found |-> FALSE]]
  /\ cleared = [n \in Nodes |-> 0]

Handle(g) == Lookup(g) \/ RedisGet(g) \/ RedisReply(g) \/ Wake(g) \/ Query(g)
Reply(g) == Respond(g) \/ RespondError(g)
Waiter(g) == Poll(g) \/ WaiterTimeout(g)
Mutate(w) == Commit(w) \/ Clear(w) \/ RedisScan(w) \/ RedisDel(w)

CacheNext ==
  \/ \E g \in Gets : Handle(g) \/ Reply(g) \/ ClientCloses(g) \/ Waiter(g)
  \/ \E w \in Puts : Mutate(w)
  \/ Tick

CacheSpec == CacheInit /\ [][CacheNext]_cacheVars

\* Awaited calls return, handlers answer (asyncHandler turns a throw into an
\* error response) and timers fire.
CacheGoesOn == \E g \in Gets : Handle(g) \/ Reply(g) \/ Waiter(g)
CacheFairSpec == CacheSpec /\ WF_cacheVars(CacheGoesOn)

-----------------------------------------------------------------------------
(* Properties.                                                             *)

(* The types of the state.                                                 *)
CacheTypeOK ==
  LET MaybeEntry == Entry \cup {NoEntry} IN
  /\ version \in Versions
  /\ now \in 0..MaxTime
  /\ memory \in [Nodes -> MaybeEntry]
  /\ redis \in MaybeEntry
  /\ inflight \in [Nodes -> Gets \cup {NoGet}]
  /\ promise \in [Gets -> [state : {"none", "polling", "resolved", "rejected"}, entry : MaybeEntry]]
  /\ get \in [Gets -> [pc : {"new", "redis", "reply", "wait", "query", "respond", "answered", "failed"},
                       leader : Gets \cup {NoGet}, raw : MaybeEntry, ver : Versions,
                       raced : BOOLEAN, served : MaybeEntry]]
  /\ put \in [Puts -> [pc : {"new", "clear", "scan", "del", "done"}, ver : Versions, found : BOOLEAN]]
  /\ cleared \in [Nodes -> Versions]

(* "Clear GET list cache for this path prefix after mutations": once a     *)
(* mutation's invalidation has run in a process that keeps its cache to    *)
(* itself, its memory holds nothing older than the mutation, except what a *)
(* handler had already read when the invalidation ran.                     *)
ClearedAfterMutation ==
  \A n \in Nodes : memory[n] # NoEntry /\ ~memory[n].raced => memory[n].ver >= cleared[n]

(* However an answer came about, from memory, from Redis, from another     *)
(* process or from a request it waited for, it is at most TTL old.         *)
AnswersWithinTTL ==
  [][\A g \in Gets : get[g].pc # "answered" /\ get'[g].pc = "answered"
       => now < get'[g].served.at + TTL]_cacheVars

(* "Concurrent identical GETs share one backend query": until an entry has *)
(* expired, a request has failed or been given up, or the cache has been   *)
(* cleared, a process never runs two handlers for the key at once.         *)
Undisturbed(n) ==
  /\ now < TTL
  /\ cleared[n] = 0
  /\ \A g \in Gets : get[g].pc # "failed" /\ promise[g].state # "rejected"
SingleBackendQuery ==
  \A g, h \in Gets :
    g # h /\ GetNode[g] = GetNode[h] /\ Undisturbed(GetNode[g])
      => ~(get[g].pc \in {"query", "respond"} /\ get[h].pc \in {"query", "respond"})

(* A promise that is still polling when its request is over has an entry to*)
(* find: waiters do not depend on the 30 s timeout unless the cache is     *)
(* cleared, or the entry expires, before they look.                        *)
NoOrphanWaiter ==
  \A g \in Gets :
    promise[g].state = "polling" /\ get[g].pc \in {"answered", "failed"}
      => Live(memory[GetNode[g]]) \/ cleared[GetNode[g]] > 0 \/ now >= TTL

(* Both: a request that joins another's miss saves a query, and has        *)
(* something to wait for.                                                  *)
CoalescingSound == SingleBackendQuery /\ NoOrphanWaiter

(* Every GET is answered, whichever request it waits for and whatever      *)
(* becomes of that one: none is left once the last has come.               *)
Open == {g \in Gets : get[g].pc \notin {"new", "answered", "failed"}}
EveryGetAnswered == Open # {} ~> Open = {}
=============================================================================
