----------------------------- MODULE MCProcesses -----------------------------
(* Several processes at once, one part at a time: two whose caches share a *)
(* Redis, and the overlapping runs of their timers over the same tasks.    *)
EXTENDS MCResponseCache, DeadlineJob

VARIABLE part

ProcessesInit ==
  /\ part \in {"cache", "deadlines"}
  /\ CacheInit
  /\ DeadlineInit /\ (part = "cache" => \A t \in Tasks : task[t].deadline = 0)

ProcessesNext ==
  \/ part = "cache" /\ CacheNext /\ UNCHANGED <<deadlineVars, part>>
  \/ part = "deadlines" /\ DeadlineNext /\ UNCHANGED <<cacheVars, part>>

ProcessesSpec == ProcessesInit /\ [][ProcessesNext]_<<cacheVars, deadlineVars, part>>
=============================================================================
