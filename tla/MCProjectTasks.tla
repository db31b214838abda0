---------------------------- MODULE MCProjectTasks ----------------------------
(* Two tasks that move between two projects under two requests; a client   *)
(* that sends counters sends more completed tasks than tasks.              *)
EXTENDS ProjectTasks, TLC

MCSent == {[count |-> 0, done |-> 1]}

\* Requests, tasks and projects are interchangeable: nothing names one.
ProjectSymmetry == Permutations(Requests) \cup Permutations(Tasks) \cup Permutations(Projects)
=============================================================================
