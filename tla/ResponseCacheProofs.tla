------------------------- MODULE ResponseCacheProofs -------------------------
(***************************************************************************)
(* That the GET cache answers with nothing older than its time to live,    *)
(* that a process which keeps its cache to itself shows nothing a mutation *)
(* has outdated, and runs one handler at a time: for any number of         *)
(* processes, of requests and of mutations, and any clock.                 *)
(***************************************************************************)
EXTENDS ResponseCache, FiniteSetTheorems, TLAPS

\* An entry lives as long as TTL says; a promise is resolved with an entry.
Sound == {e \in Entry : e.expiresAt = e.at + TTL} \cup {NoEntry}
PromiseType == {p \in [state : {"none", "polling", "resolved", "rejected"}, entry : Sound] :
                  p.state = "resolved" => p.entry # NoEntry}
GetType == [pc : {"new", "redis", "reply", "wait", "query", "respond", "answered", "failed"},
            leader : Gets \cup {NoGet}, raw : Sound, ver : Versions,
            raced : BOOLEAN, served : Sound]
PutType == [pc : {"new", "clear", "scan", "del", "done"}, ver : Versions, found : BOOLEAN]

-----------------------------------------------------------------------------
(* What the steps of a request do to its own state.                        *)

\* Request g goes on to pc; what it has read and awaits stays.
Goes(g, pc) ==
  /\ get' \in [Gets -> GetType]
  /\ \A h \in Gets \ {g} : get'[h] = get[h]
  /\ get'[g].pc = pc
  /\ get'[g].raw = get[g].raw /\ get'[g].ver = get[g].ver /\ get'[g].raced = get[g].raced
Stays(g) == get'[g].leader = get[g].leader /\ get'[g].served = get[g].served

LEMMA AnswerGoes ==
  ASSUME get \in [Gets -> GetType], NEW g \in Gets, NEW e \in Sound, Answer(g, e)
  PROVE  Goes(g, "answered") /\ get'[g].served = e
<1> DEFINE half == [get EXCEPT ![g].pc = "answered"]
           new == [get[g] EXCEPT !.pc = "answered", !.served = e]
<1>1. half = [get EXCEPT ![g] = [get[g] EXCEPT !.pc = "answered"]] /\ half[g] = [get[g] EXCEPT !.pc = "answered"]
  OBVIOUS
<1>2. get' = [half EXCEPT ![g] = [half[g] EXCEPT !.served = e]]
  BY DEF Answer
<1>3. /\ new \in GetType /\ new.pc = "answered" /\ new.served = e
      /\ new.raw = get[g].raw /\ new.ver = get[g].ver /\ new.raced = get[g].raced
  BY DEF GetType
<1>4. [half[g] EXCEPT !.served = e] = new
  BY <1>1
<1> HIDE DEF new
<1>5. get' = [get EXCEPT ![g] = new]
  BY <1>1, <1>2, <1>4
<1> QED
  BY <1>3, <1>5 DEF Goes

LEMMA JoinGoes ==
  ASSUME get \in [Gets -> GetType], NEW g \in Gets, NEW l \in Gets \cup {NoGet},
         get' = [get EXCEPT ![g].pc = "wait", ![g].leader = l]
  PROVE  Goes(g, "wait") /\ get'[g].leader = l
<1> DEFINE half == [get EXCEPT ![g].pc = "wait"]
           new == [get[g] EXCEPT !.pc = "wait", !.leader = l]
<1>1. half = [get EXCEPT ![g] = [get[g] EXCEPT !.pc = "wait"]] /\ half[g] = [get[g] EXCEPT !.pc = "wait"]
  OBVIOUS
<1>2. get' = [half EXCEPT ![g] = [half[g] EXCEPT !.leader = l]]
  OBVIOUS
<1>3. /\ new \in GetType /\ new.pc = "wait" /\ new.leader = l
      /\ new.raw = get[g].raw /\ new.ver = get[g].ver /\ new.raced = get[g].raced
  BY DEF GetType
<1>4. [half[g] EXCEPT !.leader = l] = new
  BY <1>1
<1> HIDE DEF new
<1>5. get' = [get EXCEPT ![g] = new]
  BY <1>1, <1>2, <1>4
<1> QED
  BY <1>3, <1>5 DEF Goes

LEMMA ReadGoes ==
  ASSUME get \in [Gets -> GetType], NEW g \in Gets, NEW e \in Sound,
         get' = [get EXCEPT ![g].pc = "reply", ![g].raw = e]
  PROVE  /\ get' \in [Gets -> GetType]
         /\ \A h \in Gets \ {g} : get'[h] = get[h]
         /\ get'[g].pc = "reply"
<1> DEFINE half == [get EXCEPT ![g].pc = "reply"]
           new == [get[g] EXCEPT !.pc = "reply", !.raw = e]
<1>1. half = [get EXCEPT ![g] = [get[g] EXCEPT !.pc = "reply"]] /\ half[g] = [get[g] EXCEPT !.pc = "reply"]
  OBVIOUS
<1>2. get' = [half EXCEPT ![g] = [half[g] EXCEPT !.raw = e]]
  OBVIOUS
<1>3. new \in GetType /\ new.pc = "reply"
  BY DEF GetType
<1>4. [half[g] EXCEPT !.raw = e] = new
  BY <1>1
<1> HIDE DEF new
<1>5. get' = [get EXCEPT ![g] = new]
  BY <1>1, <1>2, <1>4
<1> QED
  BY <1>3, <1>5

LEMMA QueryGoes ==
  ASSUME get \in [Gets -> GetType], NEW g \in Gets, NEW v \in Versions,
         get' = [get EXCEPT ![g].pc = "respond", ![g].ver = v]
  PROVE  /\ get' \in [Gets -> GetType]
         /\ \A h \in Gets \ {g} : get'[h] = get[h]
         /\ get'[g].pc = "respond" /\ get'[g].ver = v
<1> DEFINE half == [get EXCEPT ![g].pc = "respond"]
           new == [get[g] EXCEPT !.pc = "respond", !.ver = v]
<1>1. half = [get EXCEPT ![g] = [get[g] EXCEPT !.pc = "respond"]] /\ half[g] = [get[g] EXCEPT !.pc = "respond"]
  OBVIOUS
<1>2. get' = [half EXCEPT ![g] = [half[g] EXCEPT !.ver = v]]
  OBVIOUS
<1>3. new \in GetType /\ new.pc = "respond" /\ new.ver = v
  BY DEF GetType
<1>4. [half[g] EXCEPT !.ver = v] = new
  BY <1>1
<1> HIDE DEF new
<1>5. get' = [get EXCEPT ![g] = new]
  BY <1>1, <1>2, <1>4
<1> QED
  BY <1>3, <1>5

LEMMA PcGoes ==
  ASSUME get \in [Gets -> GetType], NEW g \in Gets,
         NEW pc \in {"new", "redis", "reply", "wait", "query", "respond", "answered", "failed"},
         get' = [get EXCEPT ![g].pc = pc]
  PROVE  Goes(g, pc) /\ Stays(g)
<1> DEFINE new == [get[g] EXCEPT !.pc = pc]
<1>1. /\ new \in GetType /\ new.pc = pc /\ new.leader = get[g].leader /\ new.served = get[g].served
      /\ new.raw = get[g].raw /\ new.ver = get[g].ver /\ new.raced = get[g].raced
  BY DEF GetType
<1>2. get' = [get EXCEPT ![g] = new]
  OBVIOUS
<1> HIDE DEF new
<1> QED
  BY <1>1, <1>2 DEF Goes, Stays

\* A miss publishes a promise, which may find an entry at once.
LEMMA MissGoes ==
  ASSUME get \in [Gets -> GetType], promise \in [Gets -> PromiseType], inflight \in [Nodes -> Gets \cup {NoGet}],
         memory \in [Nodes -> Sound], GetNode \in [Gets -> Nodes], NEW g \in Gets, StartMiss(g)
  PROVE  /\ Goes(g, "query") /\ Stays(g)
         /\ inflight' = [inflight EXCEPT ![GetNode[g]] = g]
         /\ promise' \in [Gets -> PromiseType]
         /\ \A h \in Gets \ {g} : promise'[h] = promise[h]
         /\ \/ Live(memory[GetNode[g]]) /\ promise'[g] = [state |-> "resolved", entry |-> memory[GetNode[g]]]
            \/ ~Live(memory[GetNode[g]]) /\ promise'[g] = [state |-> "polling", entry |-> NoEntry]
<1>1. inflight' = [inflight EXCEPT ![GetNode[g]] = g] /\ get' = [get EXCEPT ![g].pc = "query"]
  BY DEF StartMiss
<1>2. Goes(g, "query") /\ Stays(g)
  BY <1>1, PcGoes
<1> DEFINE e == memory[GetNode[g]]
           new == IF Live(e) THEN [state |-> "resolved", entry |-> e] ELSE [state |-> "polling", entry |-> NoEntry]
<1>3. promise' = [promise EXCEPT ![g] = new]
  BY DEF StartMiss
<1>4. e \in Sound /\ new \in PromiseType
  BY DEF PromiseType, Sound, Live
<1>5. \/ Live(e) /\ new = [state |-> "resolved", entry |-> e]
      \/ ~Live(e) /\ new = [state |-> "polling", entry |-> NoEntry]
  OBVIOUS
<1> HIDE DEF new
<1>6. promise' \in [Gets -> PromiseType] /\ promise'[g] = new /\ \A h \in Gets \ {g} : promise'[h] = promise[h]
  BY <1>3, <1>4
<1> QED
  BY <1>1, <1>2, <1>5, <1>6

-----------------------------------------------------------------------------
(* Requests, their promises and the entries they find.                     *)

\* The promise of a request is made with its miss; nobody waits for, and no
\* process points to, one that was never made.
Waiting == {"new", "redis", "reply", "wait"}
Started(g) ==
  /\ get[g].pc \in Waiting => promise[g].state = "none"
  /\ get[g].pc = "wait" => get[g].leader # NoGet /\ promise[get[g].leader].state # "none"
RequestInv ==
  /\ now \in 0..MaxTime
  /\ memory \in [Nodes -> Sound]
  /\ redis \in Sound
  /\ inflight \in [Nodes -> Gets \cup {NoGet}]
  /\ promise \in [Gets -> PromiseType]
  /\ get \in [Gets -> GetType]
  /\ \A g \in Gets : Started(g)
  /\ \A n \in Nodes : inflight[n] # NoGet => promise[inflight[n]].state # "none"

\* What may become of the promises in a step of request g.
PromisesKept(g) ==
  /\ promise' \in [Gets -> PromiseType]
  /\ \A h \in Gets : promise[h].state # "none" => promise'[h].state # "none"
  /\ \A h \in Gets \ {g} : promise[h].state = "none" => promise'[h].state = "none"
Pointed(g) ==
  /\ inflight' \in [Nodes -> Gets \cup {NoGet}]
  /\ \A n \in Nodes : \/ inflight'[n] \in {NoGet, inflight[n]}
                      \/ inflight'[n] = g /\ promise'[g].state # "none"

LEMMA RequestKept ==
  ASSUME RequestInv, NEW g \in Gets, PromisesKept(g), Pointed(g), Started(g)',
         get' \in [Gets -> GetType], \A h \in Gets \ {g} : get'[h] = get[h],
         memory' \in [Nodes -> Sound], redis' \in Sound, now' \in 0..MaxTime
  PROVE  RequestInv'
<1>0. get \in [Gets -> GetType] /\ inflight \in [Nodes -> Gets \cup {NoGet}] /\ NoGet \notin Gets
  BY ResponseCacheAssumption DEF RequestInv
<1>1. ASSUME NEW h \in Gets \ {g}
      PROVE  Started(h)'
  <2>1. Started(h) /\ get'[h] = get[h] /\ get[h].leader \in Gets \cup {NoGet}
    BY <1>0 DEF RequestInv, GetType
  <2> QED
    BY <2>1 DEF Started, PromisesKept
<1>2. ASSUME NEW n \in Nodes, inflight'[n] # NoGet
      PROVE  promise'[inflight'[n]].state # "none"
  BY <1>0, <1>2 DEF RequestInv, PromisesKept, Pointed
<1> QED
  BY <1>1, <1>2 DEF RequestInv, PromisesKept, Pointed

\* A miss: nothing else has to be shown of it.
LEMMA MissKept ==
  ASSUME RequestInv, NEW g \in Gets, get[g].pc \in Waiting, StartMiss(g),
         memory' \in [Nodes -> Sound], UNCHANGED <<redis, now>>
  PROVE  RequestInv'
<1>0. /\ get \in [Gets -> GetType] /\ promise \in [Gets -> PromiseType] /\ memory \in [Nodes -> Sound]
      /\ inflight \in [Nodes -> Gets \cup {NoGet}] /\ GetNode \in [Gets -> Nodes]
  BY ResponseCacheAssumption DEF RequestInv
<1>1. /\ Goes(g, "query")
      /\ inflight' = [inflight EXCEPT ![GetNode[g]] = g]
      /\ promise' \in [Gets -> PromiseType]
      /\ \A h \in Gets \ {g} : promise'[h] = promise[h]
      /\ promise'[g].state \in {"resolved", "polling"}
  <2>1. /\ Goes(g, "query")
        /\ inflight' = [inflight EXCEPT ![GetNode[g]] = g]
        /\ promise' \in [Gets -> PromiseType]
        /\ \A h \in Gets \ {g} : promise'[h] = promise[h]
        /\ \/ promise'[g] = [state |-> "resolved", entry |-> memory[GetNode[g]]]
           \/ promise'[g] = [state |-> "polling", entry |-> NoEntry]
    BY <1>0, MissGoes
  <2> QED
    BY <2>1
<1>2. PromisesKept(g) /\ Pointed(g)
  BY <1>0, <1>1 DEF PromisesKept, Pointed
<1>3. Started(g)'
  BY <1>1 DEF Started, Waiting, Goes
<1> QED
  BY <1>1, <1>2, <1>3, RequestKept DEF RequestInv, Goes

\* A request that finds a miss in flight waits for it.
LEMMA JoinKept ==
  ASSUME RequestInv, NEW g \in Gets, get[g].pc \in Waiting, JoinOrMiss(g),
         memory' \in [Nodes -> Sound], UNCHANGED <<redis, now>>
  PROVE  RequestInv'
<1>0. /\ get \in [Gets -> GetType] /\ promise \in [Gets -> PromiseType]
      /\ inflight \in [Nodes -> Gets \cup {NoGet}] /\ GetNode[g] \in Nodes
  BY ResponseCacheAssumption DEF RequestInv
<1> DEFINE l == inflight[GetNode[g]]
<1>1. CASE l # NoGet
  <2>1. get' = [get EXCEPT ![g].pc = "wait", ![g].leader = l] /\ UNCHANGED <<inflight, promise>>
    BY <1>1 DEF JoinOrMiss
  <2>2. l \in Gets /\ promise[l].state # "none" /\ promise[g].state = "none"
    BY <1>0, <1>1 DEF RequestInv, Started
  <2> HIDE DEF l
  <2>3. Goes(g, "wait") /\ get'[g].leader = l
    BY <1>0, <2>1, <2>2, JoinGoes
  <2>4. Started(g)'
    BY <1>1, <2>1, <2>2, <2>3 DEF Started, Goes
  <2>5. PromisesKept(g) /\ Pointed(g)
    BY <1>0, <2>1 DEF PromisesKept, Pointed
  <2> QED
    BY <2>3, <2>4, <2>5, RequestKept DEF RequestInv, Goes
<1>2. CASE l = NoGet
  BY <1>2, MissKept DEF JoinOrMiss
<1> QED
  BY <1>1, <1>2

\* An answer.
LEMMA AnswerKept ==
  ASSUME RequestInv, NEW g \in Gets, NEW e \in Sound, Answer(g, e), PromisesKept(g), Pointed(g),
         memory' \in [Nodes -> Sound], redis' \in Sound, UNCHANGED now
  PROVE  RequestInv'
<1>1. Goes(g, "answered")
  BY AnswerGoes DEF RequestInv
<1>2. Started(g)'
  BY <1>1 DEF Started, Goes, Waiting
<1> QED
  BY <1>1, <1>2, RequestKept DEF RequestInv, Goes

LEMMA LiveIsEntry ==
  ASSUME NEW e \in Sound, Live(e)
  PROVE  e # NoEntry /\ e.expiresAt = e.at + TTL /\ e.expiresAt > now
BY DEF Live, Sound

\* What the writer stores.
LEMMA WrittenIsSound ==
  ASSUME now \in 0..MaxTime, NEW v \in Versions, NEW raced \in BOOLEAN
  PROVE  LET e == [ver |-> v, expiresAt |-> Expiry, at |-> now, raced |-> raced]
         IN  e \in Sound /\ e # NoEntry /\ e.expiresAt = now + TTL /\ Live(e)
<1> DEFINE e == [ver |-> v, expiresAt |-> Expiry, at |-> now, raced |-> raced]
<1>1. TTL \in Nat \ {0} /\ MaxTime \in Nat /\ NoEntry \notin Entry
  BY ResponseCacheAssumption
<1>2. e \in Entry /\ e.expiresAt = e.at + TTL /\ e.at = now
  BY <1>1 DEF Entry, Expiry
<1>3. now + TTL > now
  BY <1>1
<1> HIDE DEF e
<1>4. e \in Sound /\ e # NoEntry /\ e.expiresAt = now + TTL /\ Live(e)
  BY <1>1, <1>2, <1>3 DEF Sound, Live
<1> QED
  BY <1>4 DEF e

\* The promise of g is given up, or finds an entry.
LEMMA SettleKeeps ==
  ASSUME RequestInv, NEW g \in Gets, NEW n \in Nodes, NEW p \in PromiseType, p.state # "none",
         promise[g].state # "none" \/ get[g].pc \notin Waiting,
         promise' = [promise EXCEPT ![g] = p], Settle(n)
  PROVE  PromisesKept(g) /\ Pointed(g) /\ promise'[g] = p
BY DEF RequestInv, PromisesKept, Pointed, Settle

LEMMA RejectedType == Rejected \in PromiseType /\ Rejected.state = "rejected"
BY DEF Rejected, PromiseType, Sound

LEMMA AbortKeeps ==
  ASSUME RequestInv, NEW g \in Gets, Abort(g)
  PROVE  /\ PromisesKept(g) /\ Pointed(g)
         /\ promise[g].state = "polling" => promise'[g].state = "rejected"
         /\ promise[g].state # "polling" => UNCHANGED <<promise, inflight>>
<1>1. CASE promise[g].state = "polling"
  <2>1. promise' = [promise EXCEPT ![g] = Rejected] /\ Settle(GetNode[g]) /\ GetNode[g] \in Nodes
    BY <1>1, ResponseCacheAssumption DEF Abort
  <2> QED
    BY <1>1, <2>1, RejectedType, SettleKeeps
<1>2. CASE promise[g].state # "polling"
  BY <1>2 DEF Abort, RequestInv, PromisesKept, Pointed
<1> QED
  BY <1>1, <1>2

LEMMA RequestStep ==
  ASSUME RequestInv, version \in Versions, [CacheNext]_cacheVars
  PROVE  RequestInv'
<1>0. /\ now \in 0..MaxTime /\ MaxTime \in Nat /\ TTL \in Nat
      /\ memory \in [Nodes -> Sound]
      /\ redis \in Sound
      /\ inflight \in [Nodes -> Gets \cup {NoGet}]
      /\ promise \in [Gets -> PromiseType]
      /\ get \in [Gets -> GetType]
      /\ GetNode \in [Gets -> Nodes]
      /\ PutNode \in [Puts -> Nodes]
      /\ NoEntry \in Sound
  BY ResponseCacheAssumption DEF RequestInv, Sound
<1>1. ASSUME NEW g \in Gets, Lookup(g)
      PROVE  RequestInv'
  <2>1. get[g].pc \in Waiting /\ UNCHANGED <<redis, now>> /\ GetNode[g] \in Nodes
    BY <1>0, <1>1 DEF Lookup, Waiting
  <2>2. memory' \in [Nodes -> Sound]
    BY <1>0, <1>1, <2>1 DEF Lookup
  <2>3. CASE Live(memory[GetNode[g]])
    <3>1. Answer(g, memory[GetNode[g]]) /\ UNCHANGED <<inflight, promise>>
      BY <1>1, <2>3 DEF Lookup
    <3>2. PromisesKept(g) /\ Pointed(g)
      BY <1>0, <3>1 DEF PromisesKept, Pointed
    <3> QED
      BY <1>0, <2>1, <2>2, <3>1, <3>2, AnswerKept
  <2>4. CASE ~Live(memory[GetNode[g]]) /\ UseRedis
    <3>1. get' = [get EXCEPT ![g].pc = "redis"] /\ UNCHANGED <<inflight, promise>>
      BY <1>1, <2>4 DEF Lookup
    <3>2. Goes(g, "redis")
      BY <1>0, <3>1, PcGoes
    <3>3. PromisesKept(g) /\ Pointed(g)
      BY <1>0, <3>1 DEF PromisesKept, Pointed
    <3>4. Started(g)'
      BY <2>1, <3>1, <3>2 DEF RequestInv, Started, Goes
    <3> QED
      BY <1>0, <2>1, <2>2, <3>2, <3>3, <3>4, RequestKept DEF Goes
  <2>5. CASE ~Live(memory[GetNode[g]]) /\ ~UseRedis
    BY <1>1, <2>1, <2>2, <2>5, JoinKept DEF Lookup
  <2> QED
    BY <2>3, <2>4, <2>5
<1>2. ASSUME NEW g \in Gets, RedisGet(g)
      PROVE  RequestInv'
  <2>1. /\ get[g].pc \in Waiting /\ UNCHANGED <<now, memory, redis, inflight, promise>>
        /\ get' = [get EXCEPT ![g].pc = "reply", ![g].raw = redis]
    BY <1>2 DEF RedisGet, Waiting
  <2>2. get' \in [Gets -> GetType] /\ get'[g].pc = "reply" /\ \A h \in Gets \ {g} : get'[h] = get[h]
    BY <1>0, <2>1, ReadGoes
  <2>3. PromisesKept(g) /\ Pointed(g)
    BY <1>0, <2>1 DEF PromisesKept, Pointed
  <2>4. Started(g)'
    BY <2>1, <2>2 DEF RequestInv, Started
  <2> QED
    BY <1>0, <2>1, <2>2, <2>3, <2>4, RequestKept
<1>3. ASSUME NEW g \in Gets, RedisReply(g)
      PROVE  RequestInv'
  <2>1. get[g].pc \in Waiting /\ UNCHANGED <<redis, now>> /\ GetNode[g] \in Nodes /\ get[g].raw \in Sound
    BY <1>0, <1>3 DEF RedisReply, Waiting, GetType
  <2>2. CASE Live(get[g].raw)
    <3>1. memory' = [memory EXCEPT ![GetNode[g]] = get[g].raw] /\ Answer(g, get[g].raw) /\ UNCHANGED <<inflight, promise>>
      BY <1>3, <2>2 DEF RedisReply, Refill, Fill
    <3>2. PromisesKept(g) /\ Pointed(g) /\ memory' \in [Nodes -> Sound]
      BY <1>0, <2>1, <3>1 DEF PromisesKept, Pointed
    <3> QED
      BY <1>0, <2>1, <3>1, <3>2, AnswerKept
  <2>3. CASE ~Live(get[g].raw)
    BY <1>0, <1>3, <2>1, <2>3, JoinKept DEF RedisReply
  <2> QED
    BY <2>2, <2>3
<1>4. ASSUME NEW g \in Gets, Wake(g)
      PROVE  RequestInv'
  <2> DEFINE p == promise[get[g].leader]
  <2>1. get[g].pc \in Waiting /\ UNCHANGED <<memory, redis, now>> /\ get[g].leader \in Gets /\ p \in PromiseType
    BY <1>0, <1>4 DEF Wake, Waiting, RequestInv, Started, GetType
  <2>2. CASE p.state = "resolved" /\ Live(p.entry)
    <3>1. Answer(g, p.entry) /\ UNCHANGED <<inflight, promise>>
      BY <1>4, <2>2 DEF Wake
    <3>2. PromisesKept(g) /\ Pointed(g) /\ p.entry \in Sound
      BY <1>0, <2>1, <3>1 DEF PromisesKept, Pointed, PromiseType
    <3> QED
      BY <1>0, <2>1, <3>1, <3>2, AnswerKept
  <2>3. CASE ~(p.state = "resolved" /\ Live(p.entry))
    BY <1>0, <1>4, <2>1, <2>3, MissKept DEF Wake
  <2> QED
    BY <2>2, <2>3
<1>5. ASSUME NEW g \in Gets, Query(g)
      PROVE  RequestInv'
  <2>1. /\ UNCHANGED <<now, memory, redis, inflight, promise>>
        /\ get' = [get EXCEPT ![g].pc = "respond", ![g].ver = version]
    BY <1>5 DEF Query
  <2>2. get' \in [Gets -> GetType] /\ get'[g].pc = "respond" /\ \A h \in Gets \ {g} : get'[h] = get[h]
    BY <1>0, <2>1, QueryGoes
  <2>3. PromisesKept(g) /\ Pointed(g) /\ Started(g)'
    BY <1>0, <2>1, <2>2 DEF PromisesKept, Pointed, Started, Waiting
  <2> QED
    BY <1>0, <2>1, <2>2, <2>3, RequestKept
<1>6. ASSUME NEW g \in Gets, Respond(g)
      PROVE  RequestInv'
  <2> DEFINE e == [ver |-> get[g].ver, expiresAt |-> Expiry, at |-> now, raced |-> get[g].raced]
  <2>1. e \in Sound
    <3>1. get[g].ver \in Versions /\ get[g].raced \in BOOLEAN
      BY <1>0 DEF GetType
    <3> QED
      BY <1>0, <3>1, WrittenIsSound
  <2>2. /\ memory' = [memory EXCEPT ![GetNode[g]] = e] /\ redis' = (IF UseRedis THEN e ELSE redis)
        /\ inflight' = [inflight EXCEPT ![GetNode[g]] = NoGet] /\ Answer(g, e) /\ UNCHANGED <<promise, now>>
    BY <1>6 DEF Respond, Fill, Settle
  <2> HIDE DEF e
  <2>3. PromisesKept(g) /\ Pointed(g) /\ memory' \in [Nodes -> Sound] /\ redis' \in Sound
    BY <1>0, <2>1, <2>2 DEF PromisesKept, Pointed
  <2> QED
    BY <2>1, <2>2, <2>3, AnswerKept
<1>7. ASSUME NEW g \in Gets, RespondError(g)
      PROVE  RequestInv'
  <2>1. Abort(g) /\ get' = [get EXCEPT ![g].pc = "failed"] /\ UNCHANGED <<now, memory, redis>>
    BY <1>7 DEF RespondError
  <2>2. PromisesKept(g) /\ Pointed(g) /\ Goes(g, "failed")
    BY <1>0, <2>1, AbortKeeps, PcGoes
  <2>3. Started(g)'
    BY <2>2 DEF Started, Waiting, Goes
  <2> QED
    BY <1>0, <2>1, <2>2, <2>3, RequestKept DEF Goes
<1>8. ASSUME NEW g \in Gets, ClientCloses(g)
      PROVE  RequestInv'
  <2>1. Abort(g) /\ get[g].pc \notin Waiting /\ UNCHANGED <<now, memory, redis, get>>
    BY <1>8 DEF ClientCloses, Waiting
  <2>2. PromisesKept(g) /\ Pointed(g)
    BY <2>1, AbortKeeps
  <2>3. Started(g)'
    BY <2>1 DEF Started, Waiting
  <2> QED
    BY <1>0, <2>1, <2>2, <2>3, RequestKept
<1>9. ASSUME NEW g \in Gets, Poll(g) \/ WaiterTimeout(g)
      PROVE  RequestInv'
  <2>1. PICK p \in PromiseType : p.state # "none" /\ promise' = [promise EXCEPT ![g] = p]
    <3>1. CASE Poll(g)
      <4> DEFINE p == [state |-> "resolved", entry |-> memory[GetNode[g]]]
      <4>1. memory[GetNode[g]] \in Sound /\ memory[GetNode[g]] # NoEntry
        BY <1>0, <3>1 DEF Poll, Live
      <4>2. p \in PromiseType /\ p.state # "none" /\ promise' = [promise EXCEPT ![g] = p]
        BY <3>1, <4>1 DEF Poll, PromiseType
      <4> QED
        BY <4>2
    <3>2. CASE WaiterTimeout(g)
      BY <3>2, RejectedType DEF WaiterTimeout
    <3> QED
      BY <1>9, <3>1, <3>2
  <2>2. /\ promise[g].state = "polling" /\ Settle(GetNode[g]) /\ UNCHANGED <<now, memory, redis, get>>
        /\ GetNode[g] \in Nodes
    BY <1>0, <1>9 DEF Poll, WaiterTimeout
  <2>3. PromisesKept(g) /\ Pointed(g)
    BY <2>1, <2>2, SettleKeeps
  <2>4. Started(g)'
    <3>1. Started(g) /\ get[g].pc \notin Waiting
      BY <2>2 DEF RequestInv, Started
    <3> QED
      BY <2>2, <3>1 DEF Started, Waiting
  <2> QED
    BY <1>0, <2>2, <2>3, <2>4, RequestKept
<1>10. ASSUME NEW w \in Puts, Clear(w)
       PROVE  RequestInv'
  <2>1. /\ UNCHANGED <<now, redis, promise>>
        /\ memory' \in [Nodes -> Sound] /\ inflight' \in [Nodes -> Gets \cup {NoGet}]
        /\ \A n \in Nodes : inflight'[n] \in {NoGet, inflight[n]}
    BY <1>0, <1>10 DEF Clear, Fill, Settle
  <2>2. get' = [g \in Gets |-> IF GetNode[g] = PutNode[w] /\ get[g].pc = "respond"
                               THEN [get[g] EXCEPT !.raced = TRUE] ELSE get[g]]
    BY <1>10 DEF Clear, Invalidated
  <2>3. ASSUME NEW g \in Gets
        PROVE  get'[g] \in GetType /\ get'[g].pc = get[g].pc /\ get'[g].leader = get[g].leader
    <3>1. get[g] \in GetType /\ [get[g] EXCEPT !.raced = TRUE] \in GetType
      BY <1>0 DEF GetType
    <3>2. get'[g] \in {get[g], [get[g] EXCEPT !.raced = TRUE]}
      BY <2>2
    <3> QED
      BY <3>1, <3>2 DEF GetType
  <2>4. get' \in [Gets -> GetType]
    BY <2>2, <2>3
  <2>5. \A g \in Gets : Started(g)'
    BY <2>1, <2>3 DEF RequestInv, Started
  <2> QED
    BY <1>0, <2>1, <2>4, <2>5 DEF RequestInv
<1>11. ASSUME NEW w \in Puts, Commit(w) \/ RedisScan(w) \/ RedisDel(w)
       PROVE  RequestInv'
  <2>1. UNCHANGED <<now, memory, inflight, promise, get>> /\ redis' \in Sound
    BY <1>0, <1>11 DEF Commit, RedisScan, RedisDel
  <2> QED
    BY <2>1 DEF RequestInv, Started
<1>12. ASSUME Tick
       PROVE  RequestInv'
  <2>1. UNCHANGED <<memory, inflight, promise, get>> /\ redis' \in Sound /\ now' \in 0..MaxTime
    BY <1>0, <1>12 DEF Tick
  <2> QED
    BY <2>1 DEF RequestInv, Started
<1>13. CASE UNCHANGED cacheVars
  BY <1>13 DEF cacheVars, RequestInv, Started
<1> QED
  BY <1>1, <1>2, <1>3, <1>4, <1>5, <1>6, <1>7, <1>8, <1>9, <1>10, <1>11, <1>12, <1>13
  DEF CacheNext, Handle, Reply, Waiter, Mutate

-----------------------------------------------------------------------------
(* Mutations and versions.                                                 *)

Committed == {w \in Puts : put[w].pc # "new"}
MutationInv ==
  /\ put \in [Puts -> PutType]
  /\ version = Cardinality(Committed)
  /\ \A w \in Committed : put[w].ver \in 1..version
  /\ cleared \in [Nodes -> 0..version]

LEMMA VersionType == MutationInv => version \in Versions
<1> SUFFICES ASSUME MutationInv
             PROVE  version \in Versions
  OBVIOUS
<1>1. IsFiniteSet(Puts) /\ Committed \subseteq Puts
  BY ResponseCacheAssumption DEF Committed
<1>2. Cardinality(Committed) \in Nat /\ Cardinality(Puts) \in Nat /\ Cardinality(Committed) <= Cardinality(Puts)
  BY <1>1, FS_Subset, FS_CardinalityType
<1> QED
  BY <1>2 DEF MutationInv, Versions

\* A mutation that was committed goes on.
LEMMA MutationKept ==
  ASSUME MutationInv, NEW w \in Committed, NEW new \in PutType, new.pc # "new", new.ver = put[w].ver,
         put' = [put EXCEPT ![w] = new], cleared' \in [Nodes -> 0..version], UNCHANGED version
  PROVE  MutationInv'
<1>1. put \in [Puts -> PutType] /\ w \in Puts /\ put[w].pc # "new"
  BY DEF MutationInv, Committed
<1>2. put' \in [Puts -> PutType] /\ put'[w] = new /\ \A v \in Puts \ {w} : put'[v] = put[v]
  BY <1>1
<1>3. Committed' = Committed
  BY <1>1, <1>2 DEF Committed
<1>4. \A v \in Committed : put'[v].ver = put[v].ver
  BY <1>2 DEF Committed
<1> QED
  BY <1>2, <1>3, <1>4 DEF MutationInv

LEMMA MutationStep == MutationInv /\ [CacheNext]_cacheVars => MutationInv'
<1> SUFFICES ASSUME MutationInv, [CacheNext]_cacheVars
             PROVE  MutationInv'
  OBVIOUS
<1>0. /\ put \in [Puts -> PutType] /\ version = Cardinality(Committed)
      /\ \A w \in Committed : put[w].ver \in 1..version
      /\ cleared \in [Nodes -> 0..version] /\ version \in Nat /\ version \in Versions
  BY VersionType DEF MutationInv, Versions
<1>1. ASSUME NEW w \in Puts, Commit(w)
      PROVE  MutationInv'
  <2> DEFINE new == [pc |-> "clear", ver |-> version + 1, found |-> FALSE]
  <2>1. /\ put[w].pc = "new" /\ version' = version + 1 /\ UNCHANGED cleared
        /\ put' = [put EXCEPT ![w] = new]
    BY <1>1 DEF Commit
  <2>2. Committed' = Committed \cup {w} /\ w \notin Committed
    BY <1>0, <2>1 DEF Committed
  <2>3. Cardinality(Committed') = version + 1
    <3>1. IsFiniteSet(Puts) /\ Committed \subseteq Puts
      BY ResponseCacheAssumption DEF Committed
    <3>2. IsFiniteSet(Committed)
      BY <3>1, FS_Subset
    <3> QED
      BY <1>0, <2>2, <3>2, FS_AddElement
  <2>4. version + 1 \in Versions
    <3>1. IsFiniteSet(Puts) /\ Committed' \subseteq Puts
      BY ResponseCacheAssumption DEF Committed
    <3>2. Cardinality(Committed') <= Cardinality(Puts) /\ Cardinality(Puts) \in Nat
      BY <3>1, FS_Subset, FS_CardinalityType
    <3> QED
      BY <1>0, <2>3, <3>2 DEF Versions
  <2>5. new \in PutType /\ new.ver = version + 1
    BY <2>4 DEF PutType
  <2> HIDE DEF new
  <2>6. put' \in [Puts -> PutType] /\ put'[w] = new /\ \A v \in Puts \ {w} : put'[v] = put[v]
    BY <1>0, <2>1, <2>5
  <2>7. ASSUME NEW v \in Committed'
        PROVE  put'[v].ver \in 1..(version + 1)
    <3>1. CASE v = w
      BY <1>0, <2>5, <2>6, <3>1
    <3>2. CASE v # w
      <4>1. v \in Committed /\ v \in Puts
        BY <2>2, <3>2 DEF Committed
      <4> QED
        BY <1>0, <2>6, <3>2, <4>1
    <3> QED
      BY <3>1, <3>2
  <2>8. cleared' \in [Nodes -> 0..(version + 1)]
    BY <1>0, <2>1
  <2> QED
    BY <2>1, <2>3, <2>6, <2>7, <2>8 DEF MutationInv
<1>2. ASSUME NEW w \in Puts, Clear(w)
      PROVE  MutationInv'
  <2> DEFINE new == [put[w] EXCEPT !.pc = IF UseRedis THEN "scan" ELSE "done"]
  <2>1. put[w] \in PutType /\ w \in Committed /\ put' = [put EXCEPT ![w] = new] /\ UNCHANGED version
    BY <1>0, <1>2 DEF Clear, Committed
  <2>2. new \in PutType /\ new.pc # "new" /\ new.ver = put[w].ver
    BY <2>1 DEF PutType
  <2>3. put[w].ver \in 1..version
    BY <1>0, <2>1
  <2>4. cleared' \in [Nodes -> 0..version]
    <3> DEFINE last == IF put[w].ver > cleared[PutNode[w]] THEN put[w].ver ELSE cleared[PutNode[w]]
    <3>1. cleared' = [cleared EXCEPT ![PutNode[w]] = last] /\ PutNode[w] \in Nodes
      BY <1>2, ResponseCacheAssumption DEF Clear, Invalidated
    <3>2. last \in 0..version
      BY <1>0, <2>3, <3>1
    <3> HIDE DEF last
    <3> QED
      BY <1>0, <3>1, <3>2
  <2> HIDE DEF new
  <2> QED
    BY <2>1, <2>2, <2>4, MutationKept
<1>3. ASSUME NEW w \in Puts, RedisScan(w)
      PROVE  MutationInv'
  <2> DEFINE found == KeyMatches /\ redis # NoEntry
             new == [put[w] EXCEPT !.pc = "del", !.found = found]
             half == [put EXCEPT ![w].pc = "del"]
  <2>1. put[w] \in PutType /\ w \in Committed /\ UNCHANGED <<version, cleared>> /\ found \in BOOLEAN
    BY <1>0, <1>3, ResponseCacheAssumption DEF RedisScan, Committed
  <2>2. put' = [half EXCEPT ![w] = [half[w] EXCEPT !.found = found]]
    BY <1>3 DEF RedisScan
  <2> HIDE DEF found
  <2>3. new \in PutType /\ new.pc # "new" /\ new.ver = put[w].ver
    BY <2>1 DEF PutType
  <2>4. half = [put EXCEPT ![w] = [put[w] EXCEPT !.pc = "del"]] /\ half[w] = [put[w] EXCEPT !.pc = "del"]
    BY <1>0
  <2>5. [half[w] EXCEPT !.found = found] = new
    BY <2>4
  <2> HIDE DEF new
  <2>6. put' = [put EXCEPT ![w] = new]
    BY <1>0, <2>2, <2>4, <2>5
  <2> QED
    BY <1>0, <2>1, <2>3, <2>6, MutationKept
<1>4. ASSUME NEW w \in Puts, RedisDel(w)
      PROVE  MutationInv'
  <2> DEFINE new == [put[w] EXCEPT !.pc = "done"]
  <2>1. put[w] \in PutType /\ w \in Committed /\ put' = [put EXCEPT ![w] = new] /\ UNCHANGED <<version, cleared>>
    BY <1>0, <1>4 DEF RedisDel, Committed
  <2>2. new \in PutType /\ new.pc # "new" /\ new.ver = put[w].ver
    BY <2>1 DEF PutType
  <2> HIDE DEF new
  <2> QED
    BY <1>0, <2>1, <2>2, MutationKept
<1>5. ASSUME UNCHANGED <<version, put, cleared>>
      PROVE  MutationInv'
  BY <1>5 DEF MutationInv, Committed
<1>6. ASSUME NEW g \in Gets, Handle(g) \/ Reply(g) \/ ClientCloses(g) \/ Waiter(g)
      PROVE  UNCHANGED <<version, put, cleared>>
  BY <1>6 DEF Handle, Reply, Waiter, Lookup, RedisGet, RedisReply, Wake, Query, Respond, RespondError,
              ClientCloses, Poll, WaiterTimeout
<1> QED
  BY <1>1, <1>2, <1>3, <1>4, <1>5, <1>6 DEF CacheNext, Mutate, Tick, cacheVars

CoreInv == RequestInv /\ MutationInv

LEMMA CoreStep == CoreInv /\ [CacheNext]_cacheVars => CoreInv'
BY RequestStep, MutationStep, VersionType DEF CoreInv

LEMMA CoreInitial == CacheInit => CoreInv
<1> SUFFICES ASSUME CacheInit
             PROVE  CoreInv
  OBVIOUS
<1>0. NoEntry \in Sound /\ 0 \in Versions /\ MaxTime \in Nat /\ Cardinality({}) = 0
  <2>1. Cardinality(Puts) \in Nat
    BY ResponseCacheAssumption, FS_CardinalityType
  <2> QED
    BY <2>1, ResponseCacheAssumption, FS_EmptySet DEF Sound, Versions
<1>1. promise \in [Gets -> PromiseType] /\ \A g \in Gets : promise[g].state = "none"
  <2> DEFINE p == [state |-> "none", entry |-> NoEntry]
  <2>1. p \in PromiseType /\ p.state = "none" /\ promise = [g \in Gets |-> p]
    BY <1>0 DEF CacheInit, PromiseType
  <2> HIDE DEF p
  <2> QED
    BY <2>1
<1>2. get \in [Gets -> GetType] /\ \A g \in Gets : get[g].pc = "new"
  <2> DEFINE r == [pc |-> "new", leader |-> NoGet, raw |-> NoEntry, ver |-> 0, raced |-> FALSE, served |-> NoEntry]
  <2>1. r \in GetType /\ r.pc = "new" /\ get = [g \in Gets |-> r]
    BY <1>0 DEF CacheInit, GetType
  <2> HIDE DEF r
  <2> QED
    BY <2>1
<1>3. put \in [Puts -> PutType] /\ \A w \in Puts : put[w].pc = "new"
  <2> DEFINE p == [pc |-> "new", ver |-> 0, found |-> FALSE]
  <2>1. p \in PutType /\ p.pc = "new" /\ put = [w \in Puts |-> p]
    BY <1>0 DEF CacheInit, PutType
  <2> HIDE DEF p
  <2> QED
    BY <2>1
<1>4. RequestInv
  <2>1. now \in 0..MaxTime /\ redis \in Sound
    BY <1>0 DEF CacheInit
  <2>2. /\ memory = [n \in Nodes |-> NoEntry]
        /\ inflight = [n \in Nodes |-> NoGet]
    BY DEF CacheInit
  <2>3. /\ memory \in [Nodes -> Sound]
        /\ inflight \in [Nodes -> Gets \cup {NoGet}] /\ \A n \in Nodes : inflight[n] = NoGet
    BY <1>0, <2>2
  <2> QED
    BY <1>1, <1>2, <2>1, <2>3 DEF RequestInv, Started
<1>5. Committed = {}
  BY <1>3 DEF Committed
<1> QED
  BY <1>0, <1>3, <1>4, <1>5 DEF CacheInit, CoreInv, MutationInv

(* The types of the state; the data is no newer than the mutations made.   *)
THEOREM TypeCorrect == CacheSpec => []CacheTypeOK
<1>1. CoreInv => CacheTypeOK
  <2> SUFFICES ASSUME CoreInv
               PROVE  CacheTypeOK
    OBVIOUS
  <2>1. Sound \subseteq Entry \cup {NoEntry}
    BY DEF Sound
  <2>2. version \in Versions /\ 0..version \subseteq Versions
    <3>1. version \in Versions /\ Cardinality(Puts) \in Nat
      BY ResponseCacheAssumption, FS_CardinalityType, VersionType DEF CoreInv
    <3> QED
      BY <3>1 DEF Versions
  <2>3. get \in [Gets -> [pc : {"new", "redis", "reply", "wait", "query", "respond", "answered", "failed"},
                          leader : Gets \cup {NoGet}, raw : Entry \cup {NoEntry}, ver : Versions,
                          raced : BOOLEAN, served : Entry \cup {NoEntry}]]
    BY <2>1 DEF CoreInv, RequestInv, GetType
  <2>4. promise \in [Gets -> [state : {"none", "polling", "resolved", "rejected"}, entry : Entry \cup {NoEntry}]]
    BY <2>1 DEF CoreInv, RequestInv, PromiseType
  <2>5. memory \in [Nodes -> Entry \cup {NoEntry}] /\ redis \in Entry \cup {NoEntry}
    BY <2>1 DEF CoreInv, RequestInv
  <2>6. cleared \in [Nodes -> Versions] /\ put \in [Puts -> PutType]
    BY <2>2 DEF CoreInv, MutationInv
  <2> QED
    BY <2>2, <2>3, <2>4, <2>5, <2>6 DEF CoreInv, RequestInv, CacheTypeOK, PutType
<1> QED
  BY <1>1, CoreInitial, CoreStep, PTL DEF CacheSpec

-----------------------------------------------------------------------------
(* Answers are no older than TTL.                                          *)

Acts(g) == Handle(g) \/ Reply(g) \/ ClientCloses(g) \/ Waiter(g)

\* A step of a request leaves the other requests and processes alone.
LEMMA OthersStay ==
  ASSUME CoreInv, NEW g \in Gets, Acts(g)
  PROVE  /\ \A h \in Gets \ {g} : get'[h] = get[h] /\ promise'[h] = promise[h]
         /\ \A n \in Nodes \ {GetNode[g]} : memory'[n] = memory[n] /\ inflight'[n] = inflight[n]
         /\ UNCHANGED <<version, put, cleared, now>>
<1>0. /\ get \in [Gets -> GetType] /\ promise \in [Gets -> PromiseType] /\ memory \in [Nodes -> Sound]
      /\ inflight \in [Nodes -> Gets \cup {NoGet}]
  BY DEF CoreInv, RequestInv
<1>1. ASSUME StartMiss(g)
      PROVE  /\ \A h \in Gets \ {g} : get'[h] = get[h] /\ promise'[h] = promise[h]
             /\ \A n \in Nodes \ {GetNode[g]} : inflight'[n] = inflight[n]
  BY <1>0, <1>1 DEF StartMiss
<1>2. ASSUME JoinOrMiss(g)
      PROVE  /\ \A h \in Gets \ {g} : get'[h] = get[h] /\ promise'[h] = promise[h]
             /\ \A n \in Nodes \ {GetNode[g]} : inflight'[n] = inflight[n]
  <2>1. CASE inflight[GetNode[g]] # NoGet
    BY <1>0, <1>2, <2>1 DEF JoinOrMiss
  <2>2. CASE inflight[GetNode[g]] = NoGet
    BY <1>1, <1>2, <2>2 DEF JoinOrMiss
  <2> QED
    BY <2>1, <2>2
<1>3. ASSUME NEW e, Answer(g, e)
      PROVE  \A h \in Gets \ {g} : get'[h] = get[h]
  BY <1>0, <1>3 DEF Answer
<1>4. ASSUME Abort(g)
      PROVE  /\ \A h \in Gets \ {g} : promise'[h] = promise[h]
             /\ \A n \in Nodes \ {GetNode[g]} : inflight'[n] = inflight[n]
  BY <1>0, <1>4 DEF Abort, Settle
<1>5. ASSUME Lookup(g) \/ RedisGet(g) \/ RedisReply(g)
      PROVE  /\ \A h \in Gets \ {g} : get'[h] = get[h] /\ promise'[h] = promise[h]
             /\ \A n \in Nodes \ {GetNode[g]} : memory'[n] = memory[n] /\ inflight'[n] = inflight[n]
             /\ UNCHANGED <<version, put, cleared, now>>
  <2>1. CASE Lookup(g)
    BY <1>0, <1>2, <1>3, <2>1 DEF Lookup
  <2>2. CASE RedisGet(g)
    BY <1>0, <2>2 DEF RedisGet
  <2>3. CASE RedisReply(g)
    BY <1>0, <1>2, <1>3, <2>3 DEF RedisReply, Refill, Fill
  <2> QED
    BY <1>5, <2>1, <2>2, <2>3
<1>6. ASSUME Wake(g) \/ Query(g) \/ Respond(g)
      PROVE  /\ \A h \in Gets \ {g} : get'[h] = get[h] /\ promise'[h] = promise[h]
             /\ \A n \in Nodes \ {GetNode[g]} : memory'[n] = memory[n] /\ inflight'[n] = inflight[n]
             /\ UNCHANGED <<version, put, cleared, now>>
  <2>1. CASE Wake(g)
    BY <1>0, <1>1, <1>3, <2>1 DEF Wake
  <2>2. CASE Query(g)
    BY <1>0, <2>2 DEF Query
  <2>3. CASE Respond(g)
    BY <1>0, <1>3, <2>3 DEF Respond, Fill, Settle
  <2> QED
    BY <1>6, <2>1, <2>2, <2>3
<1>7. ASSUME RespondError(g) \/ ClientCloses(g) \/ Waiter(g)
      PROVE  /\ \A h \in Gets \ {g} : get'[h] = get[h] /\ promise'[h] = promise[h]
             /\ \A n \in Nodes \ {GetNode[g]} : memory'[n] = memory[n] /\ inflight'[n] = inflight[n]
             /\ UNCHANGED <<version, put, cleared, now>>
  <2>1. CASE RespondError(g) \/ ClientCloses(g)
    BY <1>0, <1>4, <2>1 DEF RespondError, ClientCloses
  <2>2. CASE Waiter(g)
    BY <1>0, <2>2 DEF Waiter, Poll, WaiterTimeout, Settle
  <2> QED
    BY <1>7, <2>1, <2>2
<1> QED
  BY <1>5, <1>6, <1>7 DEF Acts, Handle, Reply

\* Where an answer comes from: a live entry, or the handler.
LEMMA Answering ==
  ASSUME CoreInv, NEW g \in Gets, Acts(g), get'[g].pc = "answered"
  PROVE  \/ get[g].pc = "answered"
         \/ \E e \in Sound : Live(e) /\ Answer(g, e) /\ get[g].pc \in Waiting /\ UNCHANGED <<inflight, promise>>
         \/ Respond(g)
<1>0. /\ get \in [Gets -> GetType] /\ promise \in [Gets -> PromiseType] /\ memory \in [Nodes -> Sound]
      /\ inflight \in [Nodes -> Gets \cup {NoGet}] /\ GetNode \in [Gets -> Nodes]
  BY ResponseCacheAssumption DEF CoreInv, RequestInv
<1>1. ~StartMiss(g)
  BY <1>0, MissGoes DEF Goes
<1>2. ~JoinOrMiss(g)
  <2>1. CASE inflight[GetNode[g]] # NoGet
    BY <1>0, <2>1, JoinGoes DEF JoinOrMiss, Goes
  <2>2. CASE inflight[GetNode[g]] = NoGet
    BY <1>1, <2>2 DEF JoinOrMiss
  <2> QED
    BY <2>1, <2>2
<1>3. CASE Lookup(g)
  <2>1. memory[GetNode[g]] \in Sound /\ get[g].pc \in Waiting
    BY <1>0, <1>3 DEF Lookup, Waiting
  <2>2. CASE Live(memory[GetNode[g]])
    BY <1>3, <2>1, <2>2 DEF Lookup
  <2>3. CASE ~Live(memory[GetNode[g]])
    <3>1. get' = [get EXCEPT ![g].pc = "redis"]
      BY <1>2, <1>3, <2>3 DEF Lookup
    <3> QED
      BY <1>0, <3>1, PcGoes DEF Goes
  <2> QED
    BY <2>2, <2>3
<1>4. CASE RedisGet(g)
  <2>1. get' = [get EXCEPT ![g].pc = "reply", ![g].raw = redis] /\ redis \in Sound
    BY <1>4 DEF RedisGet, CoreInv, RequestInv
  <2> QED
    BY <1>0, <2>1, ReadGoes
<1>5. CASE RedisReply(g)
  <2>1. get[g].raw \in Sound /\ get[g].pc \in Waiting
    BY <1>0, <1>5 DEF RedisReply, Waiting, GetType
  <2> QED
    BY <1>2, <1>5, <2>1 DEF RedisReply
<1>6. CASE Wake(g)
  <2> DEFINE e == promise[get[g].leader].entry
  <2>1. get[g].pc \in Waiting /\ get[g].leader \in Gets
    BY <1>0, <1>6 DEF Wake, Waiting, CoreInv, RequestInv, Started, GetType
  <2>2. e \in Sound
    BY <1>0, <2>1 DEF PromiseType
  <2> QED
    BY <1>1, <1>6, <2>1, <2>2 DEF Wake
<1>7. CASE Query(g)
  <2>1. get' = [get EXCEPT ![g].pc = "respond", ![g].ver = version] /\ version \in Versions
    BY <1>7, VersionType DEF Query, CoreInv
  <2> QED
    BY <1>0, <2>1, QueryGoes
<1>8. CASE RespondError(g)
  BY <1>0, <1>8, PcGoes DEF RespondError, Goes
<1>9. CASE ClientCloses(g) \/ Waiter(g)
  BY <1>9 DEF ClientCloses, Waiter, Poll, WaiterTimeout
<1> QED
  BY <1>3, <1>4, <1>5, <1>6, <1>7, <1>8, <1>9 DEF Acts, Handle, Reply

LEMMA MutationsAnswerNothing ==
  ASSUME CoreInv, (\E w \in Puts : Mutate(w)) \/ Tick \/ UNCHANGED cacheVars, NEW g \in Gets
  PROVE  /\ get'[g] \in GetType /\ get'[g].pc = get[g].pc /\ get'[g].ver = get[g].ver
         /\ UNCHANGED promise
<1>0. get \in [Gets -> GetType]
  BY DEF CoreInv, RequestInv
<1>1. ASSUME NEW w \in Puts, Clear(w)
      PROVE  get'[g] \in GetType /\ get'[g].pc = get[g].pc /\ get'[g].ver = get[g].ver
  <2>1. get[g] \in GetType /\ [get[g] EXCEPT !.raced = TRUE] \in GetType
    BY <1>0 DEF GetType
  <2>2. get'[g] \in {get[g], [get[g] EXCEPT !.raced = TRUE]}
    BY <1>1 DEF Clear, Invalidated
  <2> QED
    BY <2>1, <2>2 DEF GetType
<1> QED
  BY <1>0, <1>1 DEF Mutate, Clear, Commit, RedisScan, RedisDel, Tick, cacheVars

\* An answer is the handler's own, just made, or a live entry.
LEMMA AnswerIsFresh ==
  ASSUME CoreInv, [CacheNext]_cacheVars, NEW g \in Gets, get[g].pc # "answered", get'[g].pc = "answered"
  PROVE  now < get'[g].served.at + TTL
<1>0. /\ get \in [Gets -> GetType] /\ now \in 0..MaxTime /\ MaxTime \in Nat /\ TTL \in Nat \ {0}
  BY ResponseCacheAssumption DEF CoreInv, RequestInv
<1>1. Acts(g)
  <2>1. ASSUME NEW h \in Gets \ {g}, Acts(h)
        PROVE  FALSE
    BY <2>1, OthersStay
  <2> QED
    BY <2>1, MutationsAnswerNothing DEF CacheNext, Acts
<1>2. CASE \E e \in Sound : Live(e) /\ Answer(g, e)
  <2>1. PICK e \in Sound : Live(e) /\ Answer(g, e)
    BY <1>2
  <2>2. get'[g].served = e /\ e.expiresAt = e.at + TTL /\ e.expiresAt > now
    BY <1>0, <2>1, AnswerGoes, LiveIsEntry
  <2> QED
    BY <2>2
<1>3. CASE Respond(g)
  <2> DEFINE e == [ver |-> get[g].ver, expiresAt |-> Expiry, at |-> now, raced |-> get[g].raced]
  <2>1. get[g].ver \in Versions /\ get[g].raced \in BOOLEAN
    BY <1>0 DEF GetType
  <2>2. e \in Sound /\ Answer(g, e) /\ e.at = now
    BY <1>0, <1>3, <2>1, WrittenIsSound DEF Respond
  <2> HIDE DEF e
  <2>3. get'[g].served = e
    BY <1>0, <2>2, AnswerGoes
  <2>4. now < now + TTL
    BY <1>0
  <2> QED
    BY <2>2, <2>3, <2>4
<1> QED
  BY <1>1, <1>2, <1>3, Answering

(* However an answer came about, from memory, from Redis, from another     *)
(* process or from a request it waited for, it is at most TTL old.         *)
THEOREM AnswersWithinTTLThm == CacheSpec => AnswersWithinTTL
<1>1. CoreInv /\ [CacheNext]_cacheVars =>
        [\A g \in Gets : get[g].pc # "answered" /\ get'[g].pc = "answered" => now < get'[g].served.at + TTL]_cacheVars
  BY AnswerIsFresh
<1> QED
  BY <1>1, CoreInitial, CoreStep, PTL DEF CacheSpec, AnswersWithinTTL

-----------------------------------------------------------------------------
(* A finished request leaves its waiters something to find.                *)

Found(n) == Live(memory[n]) \/ cleared[n] > 0 \/ now >= TTL

\* Memory loses an entry only by expiry and by invalidation.
LEMMA FoundLasts ==
  ASSUME CoreInv, [CacheNext]_cacheVars, NEW n \in Nodes, Found(n)
  PROVE  Found(n)'
<1>0. /\ memory \in [Nodes -> Sound] /\ cleared \in [Nodes -> Nat] /\ now \in Nat /\ TTL \in Nat
      /\ GetNode \in [Gets -> Nodes] /\ PutNode \in [Puts -> Nodes] /\ version \in Nat
      /\ get \in [Gets -> GetType]
  <2>1. version \in Nat
    BY VersionType DEF CoreInv, Versions
  <2> QED
    BY <2>1, ResponseCacheAssumption DEF CoreInv, RequestInv, MutationInv
<1>1. ASSUME UNCHANGED <<memory, cleared, now>>
      PROVE  Found(n)'
  BY <1>1 DEF Found, Live
<1>2. ASSUME NEW g \in Gets, Acts(g)
      PROVE  Found(n)'
  <2>1. UNCHANGED <<cleared, now>> /\ (n # GetNode[g] => memory'[n] = memory[n])
    BY <1>2, OthersStay
  <2>2. CASE Lookup(g)
    <3>1. Live(memory[n]) => memory'[n] = memory[n]
      BY <1>0, <2>1, <2>2 DEF Lookup
    <3> QED
      BY <2>1, <3>1 DEF Found, Live
  <2>3. CASE RedisReply(g)
    <3>1. memory'[n] = memory[n] \/ (memory'[n] = get[g].raw /\ Live(get[g].raw))
      BY <1>0, <2>1, <2>3 DEF RedisReply, Refill, Fill
    <3> QED
      BY <2>1, <3>1 DEF Found, Live
  <2>4. CASE Respond(g)
    <3> DEFINE e == [ver |-> get[g].ver, expiresAt |-> Expiry, at |-> now, raced |-> get[g].raced]
    <3>1. get[g].ver \in Versions /\ get[g].raced \in BOOLEAN /\ now \in 0..MaxTime
      BY <1>0 DEF GetType, CoreInv, RequestInv
    <3>2. Live(e) /\ memory' = [memory EXCEPT ![GetNode[g]] = e]
      BY <2>4, <3>1, WrittenIsSound DEF Respond, Fill
    <3> HIDE DEF e
    <3>3. memory'[n] = memory[n] \/ memory'[n] = e
      BY <1>0, <3>2
    <3> QED
      BY <2>1, <3>2, <3>3 DEF Found, Live
  <2>5. CASE RedisGet(g) \/ Wake(g) \/ Query(g) \/ RespondError(g) \/ ClientCloses(g) \/ Waiter(g)
    <3>1. UNCHANGED memory
      BY <2>5 DEF RedisGet, Wake, Query, RespondError, ClientCloses, Waiter, Poll, WaiterTimeout
    <3> QED
      BY <1>1, <2>1, <3>1
  <2> QED
    BY <1>2, <2>2, <2>3, <2>4, <2>5 DEF Acts, Handle, Reply
<1>3. ASSUME NEW w \in Puts, Clear(w)
      PROVE  Found(n)'
  <2>1. CASE n = PutNode[w]
    <3>1. w \in Committed /\ put[w].ver \in 1..version
      BY <1>3 DEF Clear, Committed, CoreInv, MutationInv
    <3>2. cleared'[n] \in {put[w].ver, cleared[n]} /\ cleared'[n] >= put[w].ver
      BY <1>0, <1>3, <2>1, <3>1 DEF Clear, Invalidated
    <3> QED
      BY <1>0, <3>1, <3>2 DEF Found
  <2>2. CASE n # PutNode[w]
    <3>1. memory'[n] = memory[n] /\ cleared'[n] = cleared[n] /\ UNCHANGED now
      BY <1>0, <1>3, <2>2 DEF Clear, Invalidated, Fill
    <3> QED
      BY <3>1 DEF Found, Live
  <2> QED
    BY <2>1, <2>2
<1>4. ASSUME NEW w \in Puts, Commit(w) \/ RedisScan(w) \/ RedisDel(w)
      PROVE  Found(n)'
  BY <1>1, <1>4 DEF Commit, RedisScan, RedisDel
<1>5. ASSUME Tick
      PROVE  Found(n)'
  <2>1. now' = now + 1 /\ UNCHANGED <<memory, cleared>>
    BY <1>5 DEF Tick
  <2>2. ASSUME Live(memory[n])
        PROVE  Live(memory[n])' \/ now' >= TTL
    <3>1. memory[n] \in Sound /\ memory[n] # NoEntry
      BY <1>0, <2>2 DEF Live
    <3>2. memory[n].at \in Nat /\ memory[n].expiresAt = memory[n].at + TTL
      BY <3>1, ResponseCacheAssumption DEF Sound, Entry
    <3> QED
      BY <1>0, <2>1, <2>2, <3>1, <3>2 DEF Live
  <2> QED
    BY <1>0, <2>1, <2>2 DEF Found
<1>6. CASE UNCHANGED cacheVars
  BY <1>1, <1>6 DEF cacheVars
<1> QED
  BY <1>2, <1>3, <1>4, <1>5, <1>6 DEF CacheNext, Mutate, Acts

\* Only the answer of the handler ends a request whose promise still polls.
LEMMA FinishedIsFound ==
  ASSUME CoreInv, NoOrphanWaiter, [CacheNext]_cacheVars, NEW g \in Gets,
         promise'[g].state = "polling", get'[g].pc \in {"answered", "failed"}
  PROVE  Found(GetNode[g])'
<1>0. /\ get \in [Gets -> GetType] /\ promise \in [Gets -> PromiseType] /\ memory \in [Nodes -> Sound]
      /\ GetNode \in [Gets -> Nodes] /\ now \in 0..MaxTime
  BY ResponseCacheAssumption DEF CoreInv, RequestInv
<1>1. CASE promise[g].state = "polling" /\ get[g].pc \in {"answered", "failed"}
  BY <1>0, <1>1, FoundLasts DEF NoOrphanWaiter, Found
<1>2. CASE ~(promise[g].state = "polling" /\ get[g].pc \in {"answered", "failed"})
  <2>1. Acts(g)
    <3>1. ASSUME NEW h \in Gets \ {g}, Acts(h)
          PROVE  FALSE
      BY <1>2, <3>1, OthersStay
    <3> QED
      BY <1>2, <3>1, MutationsAnswerNothing DEF CacheNext, Acts
  <2>2. ASSUME NEW e \in Sound, Answer(g, e), get[g].pc \in Waiting, UNCHANGED promise
        PROVE  FALSE
    BY <2>2 DEF CoreInv, RequestInv, Started
  <2>3. ~StartMiss(g) /\ ~JoinOrMiss(g)
    <3>1. ~StartMiss(g)
      BY <1>0, MissGoes DEF CoreInv, RequestInv, Goes
    <3>2. CASE inflight[GetNode[g]] # NoGet
      BY <1>0, <3>1, <3>2, JoinGoes DEF JoinOrMiss, CoreInv, RequestInv, Goes
    <3>3. CASE inflight[GetNode[g]] = NoGet
      BY <3>1, <3>3 DEF JoinOrMiss
    <3> QED
      BY <3>1, <3>2, <3>3
  <2>4. ~RespondError(g)
    <3>1. ASSUME RespondError(g)
          PROVE  FALSE
      BY <3>1, AbortKeeps DEF RespondError, CoreInv
    <3> QED
      BY <3>1
  <2>5. ~ClientCloses(g)
    <3>1. ASSUME ClientCloses(g)
          PROVE  FALSE
      BY <3>1 DEF ClientCloses
    <3> QED
      BY <3>1
  <2>6. ~Waiter(g)
    BY <1>0 DEF Waiter, Poll, WaiterTimeout, Rejected
  <2>7. CASE Respond(g)
    <3> DEFINE e == [ver |-> get[g].ver, expiresAt |-> Expiry, at |-> now, raced |-> get[g].raced]
    <3>1. get[g].ver \in Versions /\ get[g].raced \in BOOLEAN
      BY <1>0 DEF GetType
    <3>2. Live(e) /\ memory' = [memory EXCEPT ![GetNode[g]] = e] /\ UNCHANGED now
      BY <1>0, <2>7, <3>1, WrittenIsSound DEF Respond, Fill
    <3> HIDE DEF e
    <3>3. memory'[GetNode[g]] = e
      BY <1>0, <3>2
    <3> QED
      BY <3>2, <3>3 DEF Found, Live
  <2>8. CASE get'[g].pc = "answered"
    <3>1. get[g].pc # "answered" \/ Respond(g)
      BY <2>1, <2>6 DEF Acts, Handle, Reply, Lookup, RedisGet, RedisReply, Wake, Query, RespondError, ClientCloses
    <3> QED
      BY <2>1, <2>2, <2>7, <2>8, <3>1, Answering
  <2>9. CASE get'[g].pc = "failed" /\ ~Respond(g)
    <3>1. Handle(g)
      BY <2>1, <2>4, <2>5, <2>6, <2>9 DEF Acts, Reply
    <3>2. ~Lookup(g) /\ ~RedisReply(g) /\ ~Wake(g)
      <4>1. ASSUME NEW e, Answer(g, e)
            PROVE  FALSE
        BY <1>0, <2>9, <4>1 DEF Answer, GetType
      <4>2. ~(get' = [get EXCEPT ![g].pc = "redis"])
        BY <1>0, <2>9, PcGoes DEF Goes
      <4> QED
        BY <2>3, <4>1, <4>2 DEF Lookup, RedisReply, Wake
    <3>3. ~RedisGet(g)
      BY <1>0, <2>9, ReadGoes DEF RedisGet, CoreInv, RequestInv
    <3>4. ~Query(g)
      BY <1>0, <2>9, QueryGoes, VersionType DEF Query, CoreInv
    <3> QED
      BY <3>1, <3>2, <3>3, <3>4 DEF Handle
  <2> QED
    BY <2>7, <2>8, <2>9
<1> QED
  BY <1>1, <1>2

LEMMA OrphanStep == CoreInv /\ NoOrphanWaiter /\ [CacheNext]_cacheVars => NoOrphanWaiter'
BY FinishedIsFound DEF NoOrphanWaiter, Found

LEMMA OrphanInitial == CacheInit => NoOrphanWaiter
BY DEF CacheInit, NoOrphanWaiter

(* Whatever fails, closes or expires, with Redis or without: a promise     *)
(* that still polls when its request is over has an entry to find.         *)
THEOREM NoOrphanWaiterThm == CacheSpec => []NoOrphanWaiter
BY CoreInitial, CoreStep, OrphanInitial, OrphanStep, PTL DEF CacheSpec

-----------------------------------------------------------------------------
(* One handler at a time, in a process that keeps its cache to itself.     *)

Running(g) == get[g].pc \in {"query", "respond"}
\* No reply of a Redis is awaited. Whoever runs a handler undisturbed is the
\* one the others find in flight, and there is no entry yet.
LocalInv ==
  /\ \A g \in Gets : get[g].pc \notin {"redis", "reply"}
  /\ \A g \in Gets : Running(g) /\ Undisturbed(GetNode[g])
       => inflight[GetNode[g]] = g /\ memory[GetNode[g]] = NoEntry

LEMMA LocalMeansSingle == LocalInv => SingleBackendQuery
BY DEF LocalInv, SingleBackendQuery, Running

\* A disturbance is never taken back.
LEMMA UndisturbedBefore ==
  ASSUME CoreInv, [CacheNext]_cacheVars, NEW n \in Nodes, Undisturbed(n)'
  PROVE  Undisturbed(n)
<1>0. /\ get \in [Gets -> GetType] /\ promise \in [Gets -> PromiseType] /\ now \in Nat /\ TTL \in Nat
      /\ cleared \in [Nodes -> Nat] /\ version \in Nat /\ PutNode \in [Puts -> Nodes]
  <2>1. version \in Nat
    BY VersionType DEF CoreInv, Versions
  <2> QED
    BY <2>1, ResponseCacheAssumption DEF CoreInv, RequestInv, MutationInv
<1>1. now < TTL
  <2>1. now' \in {now, now + 1}
    BY OthersStay DEF CacheNext, Acts, Mutate, Commit, Clear, RedisScan, RedisDel, Tick, cacheVars
  <2> QED
    BY <1>0, <2>1 DEF Undisturbed
<1>2. cleared[n] = 0
  <2>1. ASSUME NEW w \in Puts, Clear(w)
        PROVE  cleared[n] = 0
    <3>1. put[w].ver \in Nat
      <4>1. w \in Committed /\ put[w].ver \in 1..version
        BY <2>1 DEF Clear, Committed, CoreInv, MutationInv
      <4> QED
        BY <1>0, <4>1
    <3>2. cleared'[n] >= cleared[n]
      BY <1>0, <2>1, <3>1 DEF Clear, Invalidated
    <3> QED
      BY <1>0, <3>2 DEF Undisturbed
  <2>2. CASE cleared' = cleared
    BY <2>2 DEF Undisturbed
  <2> QED
    BY <2>1, <2>2, OthersStay DEF CacheNext, Acts, Mutate, Commit, RedisScan, RedisDel, Tick, cacheVars
<1>3. ASSUME NEW g \in Gets
      PROVE  get[g].pc # "failed"
  <2>1. get'[g].pc # "failed"
    BY DEF Undisturbed
  <2>2. ASSUME get[g].pc = "failed", Acts(g)
        PROVE  get' = get
    BY <2>2 DEF Acts, Handle, Reply, Waiter, Lookup, RedisGet, RedisReply, Wake, Query, Respond, RespondError,
                ClientCloses, Poll, WaiterTimeout
  <2> QED
    BY <2>1, <2>2, OthersStay, MutationsAnswerNothing DEF CacheNext, Acts
<1>4. ASSUME NEW g \in Gets
      PROVE  promise[g].state # "rejected"
  <2>1. promise'[g].state # "rejected"
    BY DEF Undisturbed
  <2>2. ASSUME promise[g].state = "rejected", Acts(g)
        PROVE  promise'[g] = promise[g]
    <3>1. get[g].pc \notin Waiting
      BY <2>2 DEF CoreInv, RequestInv, Started
    <3> QED
      BY <2>2, <3>1 DEF Waiting, Acts, Handle, Reply, Waiter, Lookup, RedisGet, RedisReply, Wake, Query, Respond,
                        RespondError, Abort, ClientCloses, Poll, WaiterTimeout
  <2> QED
    BY <2>1, <2>2, OthersStay, MutationsAnswerNothing DEF CacheNext, Acts
<1> QED
  BY <1>1, <1>2, <1>3, <1>4 DEF Undisturbed

\* Undisturbed, every promise that has settled holds a live entry.
LEMMA AwaitedIsLive ==
  ASSUME CoreInv, NEW n \in Nodes, Undisturbed(n), NEW g \in Gets,
         promise[g].state \notin {"none", "polling"}
  PROVE  promise[g].state = "resolved" /\ Live(promise[g].entry)
<1>1. /\ promise[g] \in PromiseType /\ now \in Nat /\ now < TTL /\ TTL \in Nat /\ promise[g].state # "rejected"
  BY ResponseCacheAssumption DEF CoreInv, RequestInv, Undisturbed
<1>2. promise[g].state = "resolved" /\ promise[g].entry \in Sound /\ promise[g].entry # NoEntry
  BY <1>1 DEF PromiseType
<1>3. promise[g].entry.at \in Nat /\ promise[g].entry.expiresAt = promise[g].entry.at + TTL
  BY <1>2, ResponseCacheAssumption DEF Sound, Entry
<1> QED
  BY <1>1, <1>2, <1>3 DEF Live

LEMMA WakeAnswers ==
  ASSUME CoreInv, NEW n \in Nodes, Undisturbed(n), NEW g \in Gets, Wake(g)
  PROVE  /\ Answer(g, promise[get[g].leader].entry) /\ UNCHANGED <<memory, inflight>>
         /\ promise[get[g].leader].entry \in Sound
<1>1. get[g].leader \in Gets /\ promise[get[g].leader].state \notin {"none", "polling"}
  BY DEF Wake, CoreInv, RequestInv, Started, GetType
<1>2. PICK l \in Gets : l = get[g].leader
  BY <1>1
<1>3. promise[l].state = "resolved" /\ Live(promise[l].entry) /\ promise[l].entry \in Sound
  BY <1>1, <1>2, AwaitedIsLive DEF CoreInv, RequestInv, PromiseType
<1> QED
  BY <1>2, <1>3 DEF Wake

LEMMA LocalStep ==
  ASSUME ~UseRedis, CoreInv, LocalInv, [CacheNext]_cacheVars
  PROVE  LocalInv'
<1>0. /\ get \in [Gets -> GetType] /\ promise \in [Gets -> PromiseType] /\ memory \in [Nodes -> Sound]
      /\ inflight \in [Nodes -> Gets \cup {NoGet}] /\ GetNode \in [Gets -> Nodes] /\ PutNode \in [Puts -> Nodes]
      /\ NoGet \notin Gets
  BY ResponseCacheAssumption DEF CoreInv, RequestInv
<1>1. ASSUME NEW g \in Gets
      PROVE  get'[g].pc \notin {"redis", "reply"}
  <2>1. get[g].pc \notin {"redis", "reply"}
    BY DEF LocalInv
  <2>2. CASE ~Acts(g)
    BY <2>1, <2>2, OthersStay, MutationsAnswerNothing DEF CacheNext, Acts
  <2>3. CASE Acts(g)
    <3>1. ASSUME NEW pc \in {"redis", "reply"}, get'[g].pc = pc
          PROVE  FALSE
      <4>1. ~StartMiss(g) /\ ~JoinOrMiss(g)
        <5>1. ~StartMiss(g)
          BY <1>0, <3>1, MissGoes DEF Goes
        <5>2. CASE inflight[GetNode[g]] # NoGet
          BY <1>0, <3>1, <5>1, <5>2, JoinGoes DEF JoinOrMiss, Goes
        <5>3. CASE inflight[GetNode[g]] = NoGet
          BY <5>1, <5>3 DEF JoinOrMiss
        <5> QED
          BY <5>1, <5>2, <5>3
      <4>2. ASSUME NEW e, Answer(g, e)
            PROVE  FALSE
        BY <1>0, <3>1, <4>2 DEF Answer, GetType
      <4>3. ~Query(g)
        BY <1>0, <3>1, QueryGoes, VersionType DEF Query, CoreInv
      <4>4. ~RespondError(g)
        BY <1>0, <3>1, PcGoes DEF RespondError, Goes
      <4> QED
        BY <2>1, <2>3, <3>1, <4>1, <4>2, <4>3, <4>4
        DEF Acts, Handle, Reply, Waiter, Lookup, RedisGet, RedisReply, Wake, Respond, ClientCloses, Poll, WaiterTimeout
    <3> QED
      BY <3>1
  <2> QED
    BY <2>2, <2>3
<1>2. ASSUME NEW h \in Gets, Running(h)', Undisturbed(GetNode[h])'
      PROVE  inflight'[GetNode[h]] = h /\ memory'[GetNode[h]] = NoEntry
  <2> DEFINE n == GetNode[h]
  <2>1. n \in Nodes /\ Undisturbed(n)
    BY <1>0, <1>2, UndisturbedBefore
  <2>2. Running(h) => inflight[n] = h /\ memory[n] = NoEntry /\ ~Live(memory[n])
    BY <2>1 DEF LocalInv, Live
  <2>3. ASSUME NEW g \in Gets, Acts(g)
        PROVE  inflight'[n] = h /\ memory'[n] = NoEntry
    <3>1. h # g => Running(h)
      BY <1>2, <2>3, OthersStay DEF Running
    <3>2. CASE GetNode[g] # n
      BY <2>1, <2>2, <2>3, <3>1, <3>2, OthersStay
    <3>3. CASE GetNode[g] = n
      <4>1. CASE Lookup(g)
        <5>1. ~Live(memory[n]) /\ JoinOrMiss(g) /\ memory' = [memory EXCEPT ![n] = NoEntry]
          <6>1. CASE Live(memory[n])
            <7>1. h = g
              BY <2>2, <3>1, <6>1
            <7>2. get'[h].pc = "answered"
              BY <1>0, <3>3, <4>1, <6>1, <7>1, AnswerGoes DEF Lookup, Goes
            <7> QED
              BY <1>2, <7>2 DEF Running
          <6>2. CASE ~Live(memory[n])
            BY <3>3, <4>1, <6>2 DEF Lookup
          <6> QED
            BY <6>1, <6>2
        <5>2. memory'[n] = NoEntry
          BY <1>0, <2>1, <5>1
        <5>3. CASE inflight[n] # NoGet
          <6>1. get' = [get EXCEPT ![g].pc = "wait", ![g].leader = inflight[n]] /\ UNCHANGED inflight
            BY <3>3, <5>1, <5>3 DEF JoinOrMiss
          <6>2. Goes(g, "wait")
            BY <1>0, <2>1, <6>1, JoinGoes
          <6>3. h # g
            BY <1>2, <6>2 DEF Goes, Running
          <6> QED
            BY <2>2, <3>1, <5>2, <6>1, <6>3
        <5>4. CASE inflight[n] = NoGet
          <6>1. h = g
            BY <1>0, <2>2, <3>1, <5>4
          <6>2. inflight' = [inflight EXCEPT ![n] = g]
            BY <3>3, <5>1, <5>4 DEF JoinOrMiss, StartMiss
          <6> QED
            BY <1>0, <2>1, <5>2, <6>1, <6>2
        <5> QED
          BY <5>3, <5>4
      <4>2. CASE RedisGet(g) \/ RedisReply(g)
        BY <4>2 DEF LocalInv, RedisGet, RedisReply
      <4>3. CASE Wake(g)
        <5>1. /\ Answer(g, promise[get[g].leader].entry) /\ UNCHANGED <<memory, inflight>>
              /\ promise[get[g].leader].entry \in Sound
          BY <2>1, <4>3, WakeAnswers
        <5>2. h # g
          BY <1>0, <1>2, <5>1, AnswerGoes DEF Goes, Running
        <5> QED
          BY <2>2, <3>1, <5>1, <5>2
      <4>4. CASE Query(g)
        BY <2>2, <3>1, <4>4 DEF Query, Running
      <4>5. CASE Respond(g)
        <5>1. h = g
          <6>1. inflight[n] = g
            BY <2>1, <3>3, <4>5 DEF LocalInv, Running, Respond
          <6> QED
            BY <2>2, <3>1, <6>1
        <5>2. get'[g].pc = "answered"
          BY <1>0, <4>5 DEF Respond, Answer, GetType
        <5> QED
          BY <1>2, <5>1, <5>2 DEF Running
      <4>6. CASE RespondError(g)
        BY <1>0, <1>2, <4>6, PcGoes DEF RespondError, Goes, Undisturbed
      <4>7. CASE ClientCloses(g)
        BY <1>2, <4>7, AbortKeeps DEF ClientCloses, CoreInv, Undisturbed
      <4>8. CASE Poll(g)
        <5>1. Running(h)
          BY <1>2, <4>8 DEF Poll, Running
        <5> QED
          BY <2>2, <3>3, <4>8, <5>1 DEF Poll
      <4>9. CASE WaiterTimeout(g)
        <5>1. promise'[g].state = "rejected"
          BY <1>0, <4>9 DEF WaiterTimeout, Rejected
        <5> QED
          BY <1>2, <5>1 DEF Undisturbed
      <4> QED
        BY <2>3, <4>1, <4>2, <4>3, <4>4, <4>5, <4>6, <4>7, <4>8, <4>9 DEF Acts, Handle, Reply, Waiter
    <3> QED
      BY <3>2, <3>3
  <2>4. ASSUME NEW w \in Puts, Clear(w)
        PROVE  inflight'[n] = h /\ memory'[n] = NoEntry
    <3>1. Running(h)
      BY <1>2, <2>4, MutationsAnswerNothing DEF Running, Mutate
    <3>2. n # PutNode[w]
      <4>1. w \in Committed /\ put[w].ver \in 1..version /\ cleared \in [Nodes -> 0..version] /\ version \in Nat
        BY <2>4, VersionType DEF Clear, Committed, CoreInv, MutationInv, Versions
      <4>2. CASE n = PutNode[w]
        <5>1. cleared'[n] # 0
          BY <2>1, <2>4, <4>1, <4>2 DEF Clear, Invalidated
        <5> QED
          BY <1>2, <5>1 DEF Undisturbed
      <4> QED
        BY <4>2
    <3>3. memory'[n] = memory[n] /\ inflight'[n] = inflight[n]
      BY <1>0, <2>1, <2>4, <3>2 DEF Clear, Fill, Settle
    <3> QED
      BY <2>2, <3>1, <3>3
  <2>5. ASSUME UNCHANGED <<get, memory, inflight>>
        PROVE  inflight'[n] = h /\ memory'[n] = NoEntry
    BY <1>2, <2>2, <2>5 DEF Running
  <2>6. ASSUME NEW w \in Puts, Commit(w) \/ RedisScan(w) \/ RedisDel(w)
        PROVE  UNCHANGED <<get, memory, inflight>>
    BY <2>6 DEF Commit, RedisScan, RedisDel
  <2> QED
    BY <2>3, <2>4, <2>5, <2>6 DEF CacheNext, Acts, Mutate, Tick, cacheVars
<1> QED
  BY <1>1, <1>2 DEF LocalInv, Running

LEMMA LocalInitial == CacheInit => LocalInv
BY DEF CacheInit, LocalInv, Running

(* "Concurrent identical GETs share one backend query": a process that     *)
(* keeps its cache to itself runs one handler for a key at a time, until   *)
(* an entry expires, a request fails or the cache is cleared; and whoever  *)
(* joined a miss has something to wait for.                                *)
THEOREM CoalescingSoundThm ==
  ASSUME ~UseRedis
  PROVE  CacheSpec => []CoalescingSound
<1>1. CoreInv /\ LocalInv /\ [CacheNext]_cacheVars => LocalInv'
  BY LocalStep
<1>2. NoOrphanWaiter /\ LocalInv => CoalescingSound
  BY LocalMeansSingle DEF CoalescingSound
<1> QED
  BY <1>1, <1>2, CoreInitial, CoreStep, LocalInitial, OrphanInitial, OrphanStep, PTL DEF CacheSpec

-----------------------------------------------------------------------------
(* What a mutation's invalidation leaves behind.                           *)

\* What a handler has read is newer than any invalidation it has not raced.
ReadAfterClear ==
  \A g \in Gets : get[g].pc = "respond" /\ ~get[g].raced => get[g].ver >= cleared[GetNode[g]]
ClearedInv == ClearedAfterMutation /\ ReadAfterClear

LEMMA ClearedStep ==
  ASSUME ~UseRedis, KeyMatches, CoreInv, LocalInv, ClearedInv, [CacheNext]_cacheVars
  PROVE  ClearedInv'
<1>0. /\ get \in [Gets -> GetType] /\ memory \in [Nodes -> Sound]
      /\ GetNode \in [Gets -> Nodes] /\ PutNode \in [Puts -> Nodes]
      /\ cleared \in [Nodes -> 0..version] /\ version \in Nat /\ version \in Versions
  <2>1. version \in Versions /\ version \in Nat
    BY VersionType DEF CoreInv, Versions
  <2> QED
    BY <2>1, ResponseCacheAssumption DEF CoreInv, RequestInv, MutationInv
<1>1. ASSUME NEW g \in Gets, Acts(g)
      PROVE  ClearedInv'
  <2>1. UNCHANGED cleared /\ \A h \in Gets \ {g} : get'[h] = get[h]
    BY <1>1, OthersStay
  <2>2. CASE Respond(g)
    <3> DEFINE n == GetNode[g]
               e == [ver |-> get[g].ver, expiresAt |-> Expiry, at |-> now, raced |-> get[g].raced]
    <3>1. /\ e.ver = get[g].ver /\ e.raced = get[g].raced
          /\ memory' = [memory EXCEPT ![n] = e] /\ get'[g].pc = "answered" /\ n \in Nodes
      BY <1>0, <2>2 DEF Respond, Fill, Answer, GetType
    <3>2. get[g].pc = "respond"
      BY <2>2 DEF Respond
    <3> HIDE DEF e
    <3>3. memory'[n] = e /\ \A m \in Nodes \ {n} : memory'[m] = memory[m]
      BY <1>0, <3>1
    <3>4. ~e.raced => e.ver >= cleared[n]
      BY <3>1, <3>2 DEF ClearedInv, ReadAfterClear
    <3> QED
      BY <2>1, <3>1, <3>3, <3>4 DEF ClearedInv, ClearedAfterMutation, ReadAfterClear
  <2>3. CASE ~Respond(g)
    <3>1. \A n \in Nodes : memory'[n] \in {memory[n], NoEntry}
      <4>1. ~RedisReply(g)
        BY DEF LocalInv, RedisReply
      <4> QED
        BY <1>0, <1>1, <2>3, <4>1 DEF Acts, Handle, Reply, Waiter, Lookup, RedisGet, Wake, Query, RespondError,
           ClientCloses, Poll, WaiterTimeout
    <3>2. CASE Query(g)
      <4>1. get' = [get EXCEPT ![g].pc = "respond", ![g].ver = version]
        BY <3>2 DEF Query
      <4>2. get'[g].ver = version
        BY <1>0, <4>1, QueryGoes
      <4> QED
        BY <1>0, <2>1, <3>1, <4>2 DEF ClearedInv, ClearedAfterMutation, ReadAfterClear
    <3>3. CASE ~Query(g)
      <4>1. get'[g] = get[g] \/ get'[g].pc # "respond"
        <5>1. ASSUME StartMiss(g)
              PROVE  get'[g].pc # "respond"
          BY <1>0, <5>1, MissGoes DEF CoreInv, RequestInv, Goes
        <5>2. ASSUME JoinOrMiss(g)
              PROVE  get'[g].pc # "respond"
          <6>1. CASE inflight[GetNode[g]] # NoGet
            BY <1>0, <5>2, <6>1, JoinGoes DEF JoinOrMiss, CoreInv, RequestInv, Goes
          <6>2. CASE inflight[GetNode[g]] = NoGet
            BY <5>1, <5>2, <6>2 DEF JoinOrMiss
          <6> QED
            BY <6>1, <6>2
        <5>3. ASSUME NEW e, Answer(g, e)
              PROVE  get'[g].pc # "respond"
          BY <1>0, <5>3 DEF Answer, GetType
        <5>4. ASSUME RespondError(g)
              PROVE  get'[g].pc # "respond"
          BY <1>0, <5>4, PcGoes DEF RespondError, Goes
        <5> QED
          BY <1>1, <2>3, <3>3, <5>1, <5>2, <5>3, <5>4
          DEF Acts, Handle, Reply, Waiter, Lookup, RedisGet, RedisReply, Wake, ClientCloses, Poll, WaiterTimeout, LocalInv
      <4> QED
        BY <1>0, <2>1, <3>1, <4>1 DEF ClearedInv, ClearedAfterMutation, ReadAfterClear
    <3> QED
      BY <3>2, <3>3
  <2> QED
    BY <2>2, <2>3
<1>2. ASSUME NEW w \in Puts, Clear(w)
      PROVE  ClearedInv'
  <2> DEFINE n == PutNode[w]
  <2>1. n \in Nodes /\ memory'[n] = NoEntry /\ \A m \in Nodes \ {n} : memory'[m] = memory[m] /\ cleared'[m] = cleared[m]
    BY <1>0, <1>2 DEF Clear, Invalidated, Fill
  <2>2. ASSUME NEW g \in Gets, get'[g].pc = "respond", ~get'[g].raced
        PROVE  get[g] = get'[g] /\ GetNode[g] # n
    <3>1. get[g].pc = "respond"
      BY <1>2, <2>2, MutationsAnswerNothing DEF Mutate
    <3>2. [get[g] EXCEPT !.raced = TRUE].raced
      BY <1>0 DEF GetType
    <3>3. get'[g] = IF GetNode[g] = n /\ get[g].pc = "respond" THEN [get[g] EXCEPT !.raced = TRUE] ELSE get[g]
      BY <1>2 DEF Clear, Invalidated
    <3> QED
      BY <2>2, <3>1, <3>2, <3>3
  <2>3. ReadAfterClear'
    BY <1>0, <2>1, <2>2 DEF ClearedInv, ReadAfterClear
  <2>4. ClearedAfterMutation'
    BY <2>1 DEF ClearedInv, ClearedAfterMutation
  <2> QED
    BY <2>3, <2>4 DEF ClearedInv
<1>3. ASSUME UNCHANGED <<memory, get, cleared>>
      PROVE  ClearedInv'
  BY <1>3 DEF ClearedInv, ClearedAfterMutation, ReadAfterClear
<1>4. ASSUME NEW w \in Puts, Commit(w) \/ RedisScan(w) \/ RedisDel(w)
      PROVE  UNCHANGED <<memory, get, cleared>>
  BY <1>4 DEF Commit, RedisScan, RedisDel
<1> QED
  BY <1>1, <1>2, <1>3, <1>4 DEF CacheNext, Acts, Mutate, Tick, cacheVars

LEMMA ClearedInitial == CacheInit => ClearedInv
BY DEF CacheInit, ClearedInv, ClearedAfterMutation, ReadAfterClear

(* "Clear GET list cache for this path prefix after mutations": a process  *)
(* that keeps its cache to itself, under a key the mutation's prefix       *)
(* matches, holds nothing older than the mutation, except what a handler   *)
(* had already read when the invalidation ran.                             *)
THEOREM ClearedAfterMutationThm ==
  ASSUME ~UseRedis, KeyMatches
  PROVE  CacheSpec => []ClearedAfterMutation
<1>1. CoreInv /\ LocalInv /\ [CacheNext]_cacheVars => LocalInv'
  BY LocalStep
<1>2. CoreInv /\ LocalInv /\ ClearedInv /\ [CacheNext]_cacheVars => ClearedInv'
  BY ClearedStep
<1>3. ClearedInv => ClearedAfterMutation
  BY DEF ClearedInv
<1> QED
  BY <1>1, <1>2, <1>3, CoreInitial, CoreStep, LocalInitial, ClearedInitial, PTL DEF CacheSpec

=============================================================================
