---------------------------- MODULE DashboardLoader ----------------------------
(***************************************************************************)
(* The shared loader of the dashboard, src/services/dashboardDataLoader.ts,*)
(* in one process: requests that need the same rows share one load, and    *)
(* its result serves those that follow for 15 seconds, unless a mutation   *)
(* of the tenant drops both.  Other processes write as well, and tell      *)
(* nobody.  An action is the code between two awaits.                      *)
(***************************************************************************)
EXTENDS Integers, FiniteSets, Sequences

CONSTANTS
  Keys,         \* keys of one tenant: collection, range and mode
  Readers,      \* dashboard requests in progress
  Loads,        \* loads in progress at once
  NoLoad, NoRows,
  SnapshotTTL,  \* SNAPSHOT_TTL_MS
  MaxLoad,      \* the longest a load takes, assumed
  MaxWrites,    \* bound on the mutations
  MaxInstant    \* bound on the clock

ASSUME LoaderAssumption ==
  /\ SnapshotTTL \in Nat \ {0}
  /\ {MaxLoad, MaxWrites, MaxInstant} \subseteq Nat
  /\ NoLoad \notin Loads

VARIABLES
  instant,     \* the clock
  writes,      \* history: the tenant's mutations, in the order they committed
  snapshot,    \* cache: [Keys -> rows and the time they arrived, or NoRows]
  underWay,    \* inflight: [Keys -> Loads or NoLoad]
  load,        \* [Loads -> local state]
  reader,      \* [Readers -> the load the request awaits, or NoLoad]
  overtook     \* history: an invalidation found a load in progress

loaderVars == <<instant, writes, snapshot, underWay, load, reader, overtook>>

\* Rows are the number of mutations they show; late: an invalidation passed
\* while they were being loaded.
Resting == [pc |-> "idle", key |-> CHOOSE k \in Keys : TRUE, rows |-> 0, begun |-> 0, late |-> FALSE]
Working == {l \in Loads : load[l].pc # "idle"}
Hit(k) == snapshot[k] # NoRows /\ instant < snapshot[k].at + SnapshotTTL

-----------------------------------------------------------------------------
(* cachedLoad                                                              *)

Request(r, k) ==
  /\ reader[r] = NoLoad /\ ~Hit(k)
  /\ IF underWay[k] # NoLoad
     THEN /\ reader' = [reader EXCEPT ![r] = underWay[k]]
          /\ UNCHANGED <<underWay, load>>
     ELSE \E l \in Loads \ Working :
            /\ reader' = [reader EXCEPT ![r] = l]
            /\ underWay' = [underWay EXCEPT ![k] = l]
            /\ load' = [load EXCEPT ![l] = [Resting EXCEPT !.pc = "query", !.key = k, !.begun = instant]]
  /\ UNCHANGED <<instant, writes, snapshot, overtook>>

\* The moment MongoDB reads the collection.
Find(l) ==
  /\ load[l].pc = "query"
  /\ load' = [load EXCEPT ![l].pc = "rows", ![l].rows = Len(writes)]
  /\ UNCHANGED <<instant, writes, snapshot, underWay, reader, overtook>>

Done(l) ==
  /\ load' = [load EXCEPT ![l] = Resting]
  /\ reader' = [r \in Readers |-> IF reader[r] = l THEN NoLoad ELSE reader[r]]
  /\ UNCHANGED <<instant, writes, overtook>>
\* Also the entry of a load that took this one's place.
Forget(l) == underWay' = [underWay EXCEPT ![load[l].key] = NoLoad]

Loaded(l) ==
  /\ load[l].pc = "rows"
  /\ snapshot' = [snapshot EXCEPT ![load[l].key] =
       [rows |-> load[l].rows, at |-> instant, late |-> load[l].late]]
  /\ Forget(l)
  /\ Done(l)

\* Mutant: a load that failed stays in the map.
LoadFails_Kept(l) ==
  /\ load[l].pc # "idle"
  /\ Done(l)
  /\ UNCHANGED <<snapshot, underWay>>
LoadFails(l) ==
  /\ load[l].pc # "idle"
  /\ Forget(l)
  /\ Done(l)
  /\ UNCHANGED snapshot

-----------------------------------------------------------------------------
(* Mutations.                                                              *)

\* A mutation commits, served by this process or by another.
Mutation(here) ==
  /\ Len(writes) < MaxWrites
  /\ writes' = Append(writes, [at |-> instant, here |-> here, cleared |-> FALSE])
  /\ UNCHANGED <<instant, snapshot, underWay, load, reader, overtook>>

\* Mutant: only the loads are forgotten.
DropSnapshots_Kept(i) ==
  /\ writes[i].here /\ ~writes[i].cleared
  /\ writes' = [writes EXCEPT ![i].cleared = TRUE]
  /\ underWay' = [k \in Keys |-> NoLoad]
  /\ load' = [l \in Loads |-> IF l \in Working THEN [load[l] EXCEPT !.late = TRUE] ELSE load[l]]
  /\ overtook' = (overtook \/ Working # {})
  /\ UNCHANGED <<instant, snapshot, reader>>
\* invalidateDashboardDataLoader drops the tenant's entries of both maps.
DropSnapshots(i) ==
  /\ writes[i].here /\ ~writes[i].cleared
  /\ writes' = [writes EXCEPT ![i].cleared = TRUE]
  /\ snapshot' = [k \in Keys |-> NoRows]
  /\ underWay' = [k \in Keys |-> NoLoad]
  /\ load' = [l \in Loads |-> IF l \in Working THEN [load[l] EXCEPT !.late = TRUE] ELSE load[l]]
  /\ overtook' = (overtook \/ Working # {})
  /\ UNCHANGED <<instant, reader>>

\* Rows that have expired may as well be gone.
LoaderTick ==
  /\ instant < MaxInstant
  /\ \A l \in Working : instant < load[l].begun + MaxLoad
  /\ instant' = instant + 1
  /\ snapshot' = [k \in Keys |->
       IF snapshot[k] # NoRows /\ instant + 1 < snapshot[k].at + SnapshotTTL THEN snapshot[k] ELSE NoRows]
  /\ UNCHANGED <<writes, underWay, load, reader, overtook>>

-----------------------------------------------------------------------------
LoaderInit ==
  /\ instant = 0
  /\ writes = << >>
  /\ snapshot = [k \in Keys |-> NoRows]
  /\ underWay = [k \in Keys |-> NoLoad]
  /\ load = [l \in Loads |-> Resting]
  /\ reader = [r \in Readers |-> NoLoad]
  /\ overtook = FALSE

LoaderNext ==
  \/ \E r \in Readers, k \in Keys : Request(r, k)
  \/ \E l \in Loads : Find(l) \/ Loaded(l) \/ LoadFails(l)
  \/ \E here \in BOOLEAN : Mutation(here)
  \/ \E i \in DOMAIN writes : DropSnapshots(i)
  \/ LoaderTick

LoaderSpec == LoaderInit /\ [][LoaderNext]_loaderVars

-----------------------------------------------------------------------------
(* Properties.                                                             *)

(* The dashboard shows a mutation after the lifetime of a snapshot and the *)
(* time of one load, wherever it was served, also when a load overtakes the*)
(* invalidation; and in the process that served the mutation as soon as it *)
(* has invalidated, unless the rows come from a load that was under way.   *)
SnapshotsFresh ==
  \A k \in Keys, i \in DOMAIN writes : Hit(k) /\ snapshot[k].rows < i =>
    /\ instant < writes[i].at + SnapshotTTL + MaxLoad
    /\ writes[i].here /\ writes[i].cleared => snapshot[k].late

(* A request awaits a load that is in progress: none joins one that has    *)
(* ended.  And the database reads a key once at a time ("dedupes Mongo     *)
(* reads"), until an invalidation overtakes a load, which when it ends     *)
(* makes the map forget its successor.                                     *)
LoadsShared ==
  /\ \A r \in Readers : reader[r] # NoLoad => reader[r] \in Working
  /\ \A k \in Keys : underWay[k] # NoLoad => underWay[k] \in Working /\ load[underWay[k]].key = k
  /\ ~overtook => \A l, m \in Working : load[l].key = load[m].key => l = m
=============================================================================
