----------------------------- MODULE ProjectTasks -----------------------------
(***************************************************************************)
(* Projects and their tasks: the task counters a project keeps, which the  *)
(* after-hooks of src/controllers/pmController.ts recompute from the tasks *)
(* (src/services/pmService.ts), and the deletion of a project's tasks.     *)
(* An action is one awaited MongoDB call of a request.                     *)
(***************************************************************************)
EXTENDS Integers, FiniteSets

CONSTANTS
  Projects, Tasks,
  NoProject,   \* the project of a task that does not exist
  Requests,    \* requests to the project and task routes in progress at once
  Sent,        \* the counters [count, done] that clients put on a project
  MaxFaults    \* bound on failing hooks and crashes

ASSUME ProjectAssumption ==
  /\ IsFiniteSet(Tasks)
  /\ NoProject \notin Projects
  /\ Sent \subseteq [count : Nat, done : Nat]
  /\ MaxFaults \in Nat

VARIABLES
  project,   \* [Projects -> [live, count, done]], taskCount and completedTaskCount
  task,      \* [Tasks -> [in, completed]], projectId and status = completed
  req,       \* the requests' local state
  orderly,   \* history: no overlap, no fault, no task moved so far
  asSent,    \* history: the projects whose counters are as a client sent them
  astray,    \* history: the tasks a client put on a project that is not there
  faults

vars == <<project, task, req, orderly, asSent, astray, faults>>

Gone == [live |-> FALSE, count |-> 0, done |-> 0]
Absent == [in |-> NoProject, completed |-> FALSE]
Idle == [pc |-> "idle", task |-> Absent, of |-> NoProject, read |-> [count |-> 0, done |-> 0], alone |-> TRUE]
InFlight == {q \in Requests : req[q].pc # "idle"}

\* A step of q; the history flags of every other request in progress are lost.
Move(q, new) ==
  req' = [x \in Requests |-> CASE x = q -> new
                               [] x \in InFlight \ {q} -> [req[x] EXCEPT !.alone = FALSE]
                               [] OTHER -> req[x]]
Note(undisturbed) == orderly' = (orderly /\ undisturbed)
Step(q, new) == Move(q, new) /\ Note(InFlight \subseteq {q})

TasksOf(p) == {t \in Tasks : task[t].in = p}
\* Mutant: unfinished tasks only are counted.
Counts_Open(p) ==
  [count |-> Cardinality({t \in TasksOf(p) : ~task[t].completed}),
   done |-> Cardinality({t \in TasksOf(p) : task[t].completed})]
Counts(p) ==
  [count |-> Cardinality(TasksOf(p)),
   done |-> Cardinality({t \in TasksOf(p) : task[t].completed})]

-----------------------------------------------------------------------------
(* The task routes.  The after-hooks recompute one project.                *)

Recalc(q, p) == Move(q, [Idle EXCEPT !.pc = "readTasks", !.of = p])

\* Nothing checks that the project a task names is there.
Placed(t, p) == astray' = IF project[p].live THEN astray \ {t} ELSE astray \cup {t}

\* POST /pm-tasks
CreateTask(q, t, p) ==
  /\ req[q].pc = "idle"
  /\ task[t] = Absent
  /\ task' = [task EXCEPT ![t] = [in |-> p, completed |-> FALSE]]
  /\ Placed(t, p)
  /\ Recalc(q, p)
  /\ Note(InFlight \subseteq {q})
  /\ UNCHANGED <<project, asSent, faults>>

\* PUT /pm-tasks/:id: the hook recomputes the project the task is in now.
UpdateTask(q, t, p) ==
  /\ req[q].pc = "idle"
  /\ task[t] # Absent
  /\ \E c \in BOOLEAN : task' = [task EXCEPT ![t] = [in |-> p, completed |-> c]]
  /\ Placed(t, p)
  /\ Recalc(q, p)
  /\ Note(InFlight \subseteq {q} /\ p = task[t].in)
  /\ UNCHANGED <<project, asSent, faults>>

\* DELETE /pm-tasks/:id
DeleteTask(q, t) ==
  /\ req[q].pc = "idle"
  /\ task[t] # Absent
  /\ task' = [task EXCEPT ![t] = Absent]
  /\ astray' = astray \ {t}
  /\ Recalc(q, task[t].in)
  /\ Note(InFlight \subseteq {q})
  /\ UNCHANGED <<project, asSent, faults>>

\* PATCH /pm-tasks/:id/status loads the task first; without a change of the
\* status there is nothing to do.
LoadForPatch(q, t, c) ==
  /\ req[q].pc = "idle"
  /\ task[t] # Absent /\ task[t].completed # c
  /\ Step(q, [Idle EXCEPT !.pc = "savePatch", !.task = [in |-> task[t].in, completed |-> c], !.of = t])
  /\ UNCHANGED <<project, task, asSent, astray, faults>>

\* save() sends the status only; of a task deleted meanwhile it throws.  The
\* project recomputed is the one the task was in when it was loaded.
SavePatch(q) ==
  LET t == req[q].of
  IN /\ req[q].pc = "savePatch"
     /\ IF task[t] = Absent
        THEN Step(q, Idle) /\ UNCHANGED task
        ELSE /\ task' = [task EXCEPT ![t].completed = req[q].task.completed]
             /\ Step(q, [req[q] EXCEPT !.pc = "readTasks", !.of = req[q].task.in])
     /\ UNCHANGED <<project, asSent, astray, faults>>

-----------------------------------------------------------------------------
(* recalcProjectProgress                                                   *)

ReadTasks(q) ==
  /\ req[q].pc = "readTasks"
  /\ Step(q, [req[q] EXCEPT !.pc = "saveProject", !.read = Counts(req[q].of)])
  /\ UNCHANGED <<project, task, asSent, astray, faults>>

\* Mutant: the number of tasks is not written.
SaveProject_DoneOnly(q) ==
  LET p == req[q].of
  IN /\ req[q].pc = "saveProject"
     /\ IF ~project[p].live THEN UNCHANGED <<project, asSent>>
        ELSE /\ project' = [project EXCEPT ![p].done = req[q].read.done]
             /\ asSent' = asSent \ {p}
     /\ Step(q, Idle)
     /\ UNCHANGED <<task, astray, faults>>
SaveProject(q) ==
  LET p == req[q].of
  IN /\ req[q].pc = "saveProject"
     /\ IF ~project[p].live THEN UNCHANGED <<project, asSent>>
        ELSE /\ project' = [project EXCEPT ![p].count = req[q].read.count, ![p].done = req[q].read.done]
             /\ asSent' = asSent \ {p}
     /\ Step(q, Idle)
     /\ UNCHANGED <<task, astray, faults>>

-----------------------------------------------------------------------------
(* The project routes.                                                     *)

\* POST /pm-projects, under an id nobody has used yet: counters the client
\* does not send are zero, those he sends are stored.
CreateProject(q, p) ==
  /\ req[q].pc = "idle"
  /\ ~project[p].live
  /\ \A x \in Requests : req[x].of # p /\ req[x].task.in # p
  /\ TasksOf(p) = {}
  /\ \/ /\ project' = [project EXCEPT ![p] = [live |-> TRUE, count |-> 0, done |-> 0]]
        /\ UNCHANGED asSent
     \/ /\ \E b \in Sent : project' = [project EXCEPT ![p] = [live |-> TRUE, count |-> b.count, done |-> b.done]]
        /\ asSent' = asSent \cup {p}
  /\ Step(q, Idle)
  /\ UNCHANGED <<task, astray, faults>>

\* PUT /pm-projects/:id with counters: they are stored, nothing recounts.
EditProject(q, p) ==
  /\ req[q].pc = "idle"
  /\ project[p].live
  /\ \E b \in Sent : project' = [project EXCEPT ![p] = [live |-> TRUE, count |-> b.count, done |-> b.done]]
  /\ asSent' = asSent \cup {p}
  /\ Step(q, Idle)
  /\ UNCHANGED <<task, astray, faults>>

\* Mutant: a deleted project leaves its tasks to the client.
DeleteProject_Only(q, p) ==
  /\ req[q].pc = "idle"
  /\ project[p].live
  /\ project' = [project EXCEPT ![p] = Gone]
  /\ asSent' = asSent \ {p}
  /\ Step(q, Idle)
  /\ UNCHANGED <<task, astray, faults>>
\* DELETE /pm-projects/:id, then deleteTasksForProject.
DeleteProject(q, p) ==
  /\ req[q].pc = "idle"
  /\ project[p].live
  /\ project' = [project EXCEPT ![p] = Gone]
  /\ asSent' = asSent \ {p}
  /\ Step(q, [Idle EXCEPT !.pc = "deleteTasks", !.of = p])
  /\ UNCHANGED <<task, astray, faults>>

DeleteTasks(q) ==
  /\ req[q].pc = "deleteTasks"
  /\ task' = [t \in Tasks |-> IF task[t].in = req[q].of THEN Absent ELSE task[t]]
  /\ astray' = astray \ TasksOf(req[q].of)
  /\ Step(q, Idle)
  /\ UNCHANGED <<project, asSent, faults>>

-----------------------------------------------------------------------------
\* A call of a hook fails; crudFactory logs it and the request goes on.
HookFails(q) ==
  /\ faults < MaxFaults
  /\ q \in InFlight
  /\ faults' = faults + 1
  /\ Move(q, Idle) /\ Note(FALSE)
  /\ UNCHANGED <<project, task, asSent, astray>>

Crash ==
  /\ faults < MaxFaults
  /\ InFlight # {}
  /\ faults' = faults + 1
  /\ req' = [q \in Requests |-> Idle] /\ Note(FALSE)
  /\ UNCHANGED <<project, task, asSent, astray>>

Init ==
  /\ project = [p \in Projects |-> Gone]
  /\ task = [t \in Tasks |-> Absent]
  /\ req = [q \in Requests |-> Idle]
  /\ orderly = TRUE
  /\ asSent = {}
  /\ astray = {}
  /\ faults = 0

Write(q) ==
  \/ \E t \in Tasks, p \in Projects : CreateTask(q, t, p) \/ UpdateTask(q, t, p)
  \/ \E t \in Tasks : DeleteTask(q, t) \/ \E c \in BOOLEAN : LoadForPatch(q, t, c)
  \/ \E p \in Projects : CreateProject(q, p) \/ EditProject(q, p) \/ DeleteProject(q, p)
Hook(q) == SavePatch(q) \/ ReadTasks(q) \/ SaveProject(q) \/ DeleteTasks(q)

Next == Crash \/ \E q \in Requests : Write(q) \/ Hook(q) \/ HookFails(q)

Spec == Init /\ [][Next]_vars

-----------------------------------------------------------------------------
(* Properties.                                                             *)

CountType == [count : Nat, done : Nat]
(* The types of the state; however requests interleave, a project never    *)
(* shows more completed tasks than tasks, unless a client sent it that way.*)
TypeOK ==
  /\ project \in [Projects -> [live : BOOLEAN, count : Nat, done : Nat]]
  /\ \A p \in Projects \ asSent : project[p].done <= project[p].count
  /\ task \in [Tasks -> [in : Projects \cup {NoProject}, completed : BOOLEAN]]
  /\ req \in [Requests -> [pc : {"idle", "savePatch", "readTasks", "saveProject", "deleteTasks"},
                           task : [in : Projects \cup {NoProject}, completed : BOOLEAN],
                           of : Projects \cup Tasks \cup {NoProject},
                           read : CountType, alone : BOOLEAN]]
  /\ orderly \in BOOLEAN
  /\ asSent \subseteq Projects /\ astray \subseteq Tasks
  /\ faults \in 0..MaxFaults

ProjectRight(p) ==
  project[p].live => [count |-> project[p].count, done |-> project[p].done] = Counts(p)

(* As long as requests do not overlap, no hook fails and no task is moved  *)
(* to another project: once no request is in progress, every project counts*)
(* its tasks rightly, except one whose counters a client has sent and no   *)
(* hook has recounted since, and of a deleted project no task is left that *)
(* was put on it while it was there.                                       *)
OrderlyProgress ==
  orderly /\ InFlight = {} =>
    /\ \A p \in Projects \ asSent : ProjectRight(p)
    /\ \A t \in Tasks \ astray : task[t].in # NoProject => project[task[t].in].live

(* The hooks recompute instead of counting up and down, so they heal:      *)
(* whatever races, failures and moves came before, one write whose hooks   *)
(* run without another request in between leaves its project right.        *)
AloneRepairs ==
  [][\A q \in Requests, p \in Projects :
       req[q].pc = "saveProject" /\ req[q].of = p /\ req[q].alone /\ SaveProject(q)
         => ProjectRight(p)']_vars
=============================================================================
