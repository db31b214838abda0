-------------------------- MODULE ProjectTasksProofs --------------------------
(***************************************************************************)
(* Proofs about ProjectTasks, for any projects, any finite set of tasks,   *)
(* any number of overlapping requests, of failing hooks and of crashes.    *)
(***************************************************************************)
EXTENDS ProjectTasks, FiniteSetTheorems, TLAPS

-----------------------------------------------------------------------------
(* Counting the tasks of a project.                                        *)

\* There are never more completed tasks than tasks.
LEMMA CountsType ==
  ASSUME NEW p
  PROVE  Counts(p) \in CountType /\ Counts(p).done <= Counts(p).count
<1> DEFINE Done == {t \in TasksOf(p) : task[t].completed}
<1>1. IsFiniteSet(TasksOf(p))
  BY FS_Subset, ProjectAssumption DEF TasksOf
<1>2. IsFiniteSet(Done) /\ Cardinality(Done) <= Cardinality(TasksOf(p))
  BY <1>1, FS_Subset
<1>3. Cardinality(Done) \in Nat /\ Cardinality(TasksOf(p)) \in Nat
  BY <1>1, <1>2, FS_CardinalityType
<1>4. Counts(p) = [count |-> Cardinality(TasksOf(p)), done |-> Cardinality(Done)]
  BY DEF Counts
<1> HIDE DEF Done
<1> QED
  BY <1>2, <1>3, <1>4 DEF CountType

\* A step that leaves the tasks of a project alone leaves its counts alone.
LEMMA SameCounts ==
  ASSUME NEW p, \A t \in Tasks : (task'[t].in = p <=> task[t].in = p)
                                   /\ (task[t].in = p => task'[t].completed = task[t].completed)
  PROVE  Counts(p)' = Counts(p)
<1>1. TasksOf(p)' = TasksOf(p)
  BY DEF TasksOf
<1>2. {t \in TasksOf(p) : task'[t].completed} = {t \in TasksOf(p) : task[t].completed}
  BY DEF TasksOf
<1>3. Counts(p)' = [count |-> Cardinality(TasksOf(p)),
                    done |-> Cardinality({t \in TasksOf(p) : task'[t].completed})]
  BY <1>1 DEF Counts
<1> QED
  BY <1>2, <1>3 DEF Counts

-----------------------------------------------------------------------------
(* Types.                                                                  *)

ProjectStates == [live : BOOLEAN, count : Nat, done : Nat]
TaskStates == [in : Projects \cup {NoProject}, completed : BOOLEAN]
RequestStates ==
  [pc : {"idle", "savePatch", "readTasks", "saveProject", "deleteTasks"},
   task : TaskStates, of : Projects \cup Tasks \cup {NoProject}, read : CountType, alone : BOOLEAN]
Counting == {"readTasks", "saveProject"}

\* What a request works on, and that what it is about to write is sound.
Aimed(new) ==
  /\ new.pc = "savePatch" => new.of \in Tasks /\ new.task.in \in Projects
  /\ new.pc \in Counting \cup {"deleteTasks"} => new.of \in Projects
  /\ new.pc = "saveProject" => new.read.done <= new.read.count
Homed == \A t \in Tasks : task[t] = Absent \/ task[t].in \in Projects

\* The counters of a project are sound, unless a client sent them.
Sound(p) == p \in asSent \/ project[p].done <= project[p].count

TypeInv ==
  /\ project \in [Projects -> ProjectStates]
  /\ \A p \in Projects : Sound(p)
  /\ task \in [Tasks -> TaskStates]
  /\ Homed
  /\ req \in [Requests -> RequestStates]
  /\ \A q \in Requests : Aimed(req[q])
  /\ orderly \in BOOLEAN
  /\ asSent \subseteq Projects /\ astray \subseteq Tasks
  /\ faults \in 0..MaxFaults

LEMMA TypeInvType == TypeInv => TypeOK
BY DEF TypeInv, Sound, TypeOK, ProjectStates, TaskStates, RequestStates

\* A step of one request: its own state is the new one, every other request
\* only loses the claim to be alone, if it is in progress.
LEMMA OneRequest ==
  ASSUME req \in [Requests -> RequestStates], NEW q \in Requests,
         NEW new \in RequestStates, Move(q, new)
  PROVE  /\ req' \in [Requests -> RequestStates]
         /\ req'[q] = new
         /\ \A x \in Requests \ {q} :
              /\ req'[x].pc = req[x].pc /\ req'[x].of = req[x].of
              /\ x \in InFlight => ~req'[x].alone
              /\ x \notin InFlight => req'[x] = req[x]
              /\ Aimed(req[x]) => Aimed(req'[x])
<1>1. req'[q] = new
  BY DEF Move
<1>2. ASSUME NEW x \in Requests \ {q}
      PROVE  /\ req'[x] \in RequestStates
             /\ req'[x].pc = req[x].pc /\ req'[x].of = req[x].of
             /\ x \in InFlight => ~req'[x].alone
             /\ x \notin InFlight => req'[x] = req[x]
             /\ Aimed(req[x]) => Aimed(req'[x])
  <2>1. req[x] \in RequestStates
    OBVIOUS
  <2>2. CASE x \in InFlight
    <3>1. req'[x] = [req[x] EXCEPT !.alone = FALSE]
      BY <2>2 DEF Move
    <3> QED
      BY <2>1, <2>2, <3>1 DEF RequestStates, Aimed
  <2>3. CASE x \notin InFlight
    <3>1. req'[x] = req[x]
      BY <2>3 DEF Move
    <3> QED
      BY <2>1, <2>3, <3>1
  <2> QED
    BY <2>2, <2>3
<1>3. req' \in [Requests -> RequestStates]
  <2>1. \A x \in Requests : req'[x] \in RequestStates
    BY <1>1, <1>2
  <2>2. req' = [x \in Requests |-> req'[x]]
    BY DEF Move
  <2> QED
    BY <2>1, <2>2
<1> QED
  BY <1>1, <1>2, <1>3

LEMMA IdleType == Idle \in RequestStates /\ Aimed(Idle)
BY DEF Idle, Absent, RequestStates, TaskStates, CountType, Aimed, Counting

LEMMA RecalcType ==
  ASSUME NEW p \in Projects
  PROVE  LET new == [Idle EXCEPT !.pc = "readTasks", !.of = p]
         IN new \in RequestStates /\ Aimed(new) /\ new.pc = "readTasks" /\ new.of = p /\ new.alone
BY DEF Idle, Absent, RequestStates, TaskStates, CountType, Aimed, Counting

\* Homed tasks and sound counts are kept, whatever the requests do.
LEMMA TypeStep == TypeInv /\ [Next]_vars => TypeInv'
<1> SUFFICES ASSUME TypeInv, [Next]_vars
             PROVE  TypeInv'
  OBVIOUS
<1>0. /\ project \in [Projects -> ProjectStates]
      /\ \A p \in Projects : Sound(p)
      /\ task \in [Tasks -> TaskStates]
      /\ Homed
      /\ req \in [Requests -> RequestStates]
      /\ \A q \in Requests : Aimed(req[q])
      /\ orderly \in BOOLEAN
      /\ asSent \subseteq Projects /\ astray \subseteq Tasks
      /\ faults \in 0..MaxFaults
  BY DEF TypeInv
<1>1. ASSUME NEW q \in Requests, NEW new \in RequestStates, Aimed(new), Move(q, new)
      PROVE  req' \in [Requests -> RequestStates] /\ \A x \in Requests : Aimed(req'[x])
  BY <1>0, <1>1, OneRequest
<1>2. ASSUME NEW b \in BOOLEAN, Note(b)
      PROVE  orderly' \in BOOLEAN
  BY <1>0, <1>2 DEF Note
<1>3. ASSUME NEW q \in Requests, NEW p \in Projects, Recalc(q, p)
      PROVE  req' \in [Requests -> RequestStates] /\ \A x \in Requests : Aimed(req'[x])
  BY <1>1, <1>3, RecalcType DEF Recalc
<1>4. ASSUME NEW q \in Requests, NEW new \in RequestStates, Aimed(new), Step(q, new)
      PROVE  /\ req' \in [Requests -> RequestStates] /\ \A x \in Requests : Aimed(req'[x])
             /\ orderly' \in BOOLEAN
  BY <1>1, <1>2, <1>4 DEF Step
<1>5. ASSUME NEW t \in Tasks, NEW new \in TaskStates, task' = [task EXCEPT ![t] = new],
             new = Absent \/ new.in \in Projects
      PROVE  task' \in [Tasks -> TaskStates] /\ Homed'
  BY <1>0, <1>5 DEF Homed, Absent
<1>s. UNCHANGED <<project, asSent>> => \A p \in Projects : Sound(p)'
  BY <1>0 DEF Sound
<1>6. ASSUME NEW q \in Requests, NEW t \in Tasks, NEW p \in Projects,
             CreateTask(q, t, p) \/ UpdateTask(q, t, p)
      PROVE  TypeInv'
  <2>1. PICK c \in BOOLEAN : task' = [task EXCEPT ![t] = [in |-> p, completed |-> c]]
    BY <1>6 DEF CreateTask, UpdateTask
  <2>2. task' \in [Tasks -> TaskStates] /\ Homed'
    BY <1>5, <2>1 DEF TaskStates
  <2>3. Recalc(q, p) /\ UNCHANGED <<project, asSent, faults>> /\ astray' \subseteq Tasks
    BY <1>0, <1>6 DEF CreateTask, UpdateTask, Placed
  <2>4. orderly' \in BOOLEAN
    BY <1>0, <1>6 DEF CreateTask, UpdateTask, Note
  <2> QED
    BY <1>0, <1>3, <1>s, <2>2, <2>3, <2>4 DEF TypeInv
<1>7. ASSUME NEW q \in Requests, NEW t \in Tasks, DeleteTask(q, t)
      PROVE  TypeInv'
  <2>1. task' = [task EXCEPT ![t] = Absent] /\ Absent \in TaskStates
    BY <1>7 DEF DeleteTask, Absent, TaskStates
  <2>2. task' \in [Tasks -> TaskStates] /\ Homed'
    BY <1>5, <2>1
  <2>3. /\ Recalc(q, task[t].in) /\ task[t].in \in Projects /\ UNCHANGED <<project, asSent, faults>>
        /\ astray' \subseteq Tasks
    BY <1>0, <1>7 DEF DeleteTask, Homed
  <2>4. orderly' \in BOOLEAN
    BY <1>0, <1>7 DEF DeleteTask, Note
  <2> QED
    BY <1>0, <1>3, <1>s, <2>2, <2>3, <2>4 DEF TypeInv
<1>8. ASSUME NEW q \in Requests, NEW t \in Tasks, NEW c \in BOOLEAN, LoadForPatch(q, t, c)
      PROVE  TypeInv'
  <2> DEFINE new == [Idle EXCEPT !.pc = "savePatch", !.task = [in |-> task[t].in, completed |-> c], !.of = t]
  <2>1. task[t].in \in Projects
    BY <1>0, <1>8 DEF LoadForPatch, Homed
  <2>2. new \in RequestStates /\ Aimed(new)
    BY <2>1 DEF Idle, Absent, RequestStates, TaskStates, CountType, Aimed, Counting
  <2>3. Step(q, new) /\ UNCHANGED <<project, task, asSent, astray, faults>>
    BY <1>8 DEF LoadForPatch
  <2> QED
    BY <1>0, <1>4, <1>s, <2>2, <2>3 DEF TypeInv, Homed
<1>9. ASSUME NEW q \in Requests, SavePatch(q)
      PROVE  TypeInv'
  <2>0. PICK t \in Tasks : t = req[q].of /\ req[q].task.in \in Projects /\ req[q] \in RequestStates
    BY <1>0, <1>9 DEF SavePatch, Aimed
  <2>1. UNCHANGED <<project, asSent, astray, faults>>
    BY <1>9 DEF SavePatch
  <2>2. CASE Step(q, Idle) /\ UNCHANGED task
    BY <1>0, <1>4, <1>s, <2>1, <2>2, IdleType DEF TypeInv, Homed
  <2>3. CASE /\ task[t] # Absent
             /\ task' = [task EXCEPT ![t].completed = req[q].task.completed]
             /\ Step(q, [req[q] EXCEPT !.pc = "readTasks", !.of = req[q].task.in])
    <3> DEFINE new == [req[q] EXCEPT !.pc = "readTasks", !.of = req[q].task.in]
               late == [task[t] EXCEPT !.completed = req[q].task.completed]
    <3>1. new \in RequestStates /\ Aimed(new)
      BY <2>0 DEF RequestStates, Aimed, Counting
    <3>2. late \in TaskStates /\ late.in \in Projects
      BY <1>0, <2>0, <2>3 DEF RequestStates, TaskStates, Homed
    <3>3. task' = [task EXCEPT ![t] = late]
      BY <2>3
    <3>4. task' \in [Tasks -> TaskStates] /\ Homed'
      BY <1>5, <3>2, <3>3
    <3> QED
      BY <1>0, <1>4, <1>s, <2>1, <2>3, <3>1, <3>4 DEF TypeInv
  <2> QED
    BY <1>9, <2>0, <2>2, <2>3 DEF SavePatch
<1>10. ASSUME NEW q \in Requests, ReadTasks(q)
       PROVE  TypeInv'
  <2> DEFINE new == [req[q] EXCEPT !.pc = "saveProject", !.read = Counts(req[q].of)]
  <2>0. req[q] \in RequestStates /\ Aimed(req[q]) /\ req[q].pc = "readTasks"
    BY <1>0, <1>10 DEF ReadTasks
  <2>1. Counts(req[q].of) \in CountType /\ Counts(req[q].of).done <= Counts(req[q].of).count
    BY CountsType
  <2>2. new \in RequestStates /\ Aimed(new)
    BY <2>0, <2>1 DEF RequestStates, Aimed, Counting
  <2>3. Step(q, new) /\ UNCHANGED <<project, task, asSent, astray, faults>>
    BY <1>10 DEF ReadTasks
  <2> QED
    BY <1>0, <1>4, <1>s, <2>2, <2>3 DEF TypeInv, Homed
<1>11. ASSUME NEW q \in Requests, SaveProject(q)
       PROVE  TypeInv'
  <2>0. PICK p \in Projects : p = req[q].of /\ req[q] \in RequestStates /\ req[q].read.done <= req[q].read.count
    BY <1>0, <1>11 DEF SaveProject, Aimed, Counting
  <2>1. project' = IF ~project[p].live THEN project
                   ELSE [project EXCEPT ![p].count = req[q].read.count, ![p].done = req[q].read.done]
    BY <1>11, <2>0 DEF SaveProject
  <2>2. ASSUME project[p].live
        PROVE  /\ project' \in [Projects -> ProjectStates] /\ project'[p].done <= project'[p].count
               /\ \A x \in Projects \ {p} : project'[x] = project[x]
    <3> DEFINE counted == [project EXCEPT ![p].count = req[q].read.count]
    <3>1. req[q].read.count \in Nat /\ req[q].read.done \in Nat
      BY <2>0 DEF RequestStates, CountType
    <3>2. /\ counted \in [Projects -> ProjectStates] /\ counted[p].count = req[q].read.count
          /\ \A x \in Projects \ {p} : counted[x] = project[x]
      BY <1>0, <3>1 DEF ProjectStates
    <3>3. project' = [counted EXCEPT ![p].done = req[q].read.done]
      BY <2>1, <2>2
    <3> HIDE DEF counted
    <3>4. /\ project' \in [Projects -> ProjectStates] /\ project'[p].count = req[q].read.count
          /\ project'[p].done = req[q].read.done
          /\ \A x \in Projects \ {p} : project'[x] = project[x]
      BY <3>1, <3>2, <3>3 DEF ProjectStates
    <3> QED
      BY <2>0, <3>4
  <2>3. asSent' = (IF project[p].live THEN asSent \ {p} ELSE asSent)
    BY <1>11, <2>0 DEF SaveProject
  <2>4. project' \in [Projects -> ProjectStates] /\ \A x \in Projects : Sound(x)'
    <3>1. CASE project[p].live
      BY <1>0, <2>2, <2>3, <3>1 DEF Sound
    <3>2. CASE ~project[p].live
      BY <1>0, <2>1, <2>3, <3>2 DEF Sound
    <3> QED
      BY <3>1, <3>2
  <2>5. Step(q, Idle) /\ UNCHANGED <<task, astray, faults>> /\ asSent' \subseteq Projects
    BY <1>0, <1>11, <2>3 DEF SaveProject
  <2> QED
    BY <1>0, <1>4, <2>4, <2>5, IdleType DEF TypeInv, Homed
<1>12. ASSUME NEW q \in Requests, NEW p \in Projects, CreateProject(q, p) \/ EditProject(q, p)
       PROVE  TypeInv'
  <2>1. PICK new \in ProjectStates : /\ project' = [project EXCEPT ![p] = new]
                                     /\ \/ asSent' = asSent \cup {p}
                                        \/ asSent' = asSent /\ new.done <= new.count
    <3> DEFINE empty == [live |-> TRUE, count |-> 0, done |-> 0]
               sent(b) == [live |-> TRUE, count |-> b.count, done |-> b.done]
    <3>1. empty \in ProjectStates /\ empty.done <= empty.count
      BY DEF ProjectStates
    <3>2. \A b \in Sent : sent(b) \in ProjectStates
      BY ProjectAssumption DEF ProjectStates
    <3>3. \/ project' = [project EXCEPT ![p] = empty] /\ asSent' = asSent
          \/ \E b \in Sent : project' = [project EXCEPT ![p] = sent(b)] /\ asSent' = asSent \cup {p}
      BY <1>12 DEF CreateProject, EditProject
    <3> QED
      BY <3>1, <3>2, <3>3
  <2>2. project' \in [Projects -> ProjectStates] /\ \A x \in Projects : Sound(x)'
    BY <1>0, <2>1 DEF Sound
  <2>3. Step(q, Idle) /\ UNCHANGED <<task, astray, faults>> /\ asSent' \subseteq Projects
    BY <1>0, <1>12 DEF CreateProject, EditProject
  <2> QED
    BY <1>0, <1>4, <2>2, <2>3, IdleType DEF TypeInv, Homed
<1>13. ASSUME NEW q \in Requests, NEW p \in Projects, DeleteProject(q, p)
       PROVE  TypeInv'
  <2> DEFINE new == [Idle EXCEPT !.pc = "deleteTasks", !.of = p]
  <2>1. project' = [project EXCEPT ![p] = Gone] /\ asSent' = asSent \ {p}
    BY <1>13 DEF DeleteProject
  <2>2. project' \in [Projects -> ProjectStates] /\ \A x \in Projects : Sound(x)'
    BY <1>0, <2>1 DEF ProjectStates, Gone, Sound
  <2>3. new \in RequestStates /\ Aimed(new)
    BY DEF Idle, Absent, RequestStates, TaskStates, CountType, Aimed, Counting
  <2>4. Step(q, new) /\ UNCHANGED <<task, astray, faults>> /\ asSent' \subseteq Projects
    BY <1>0, <1>13 DEF DeleteProject
  <2> QED
    BY <1>0, <1>4, <2>2, <2>3, <2>4 DEF TypeInv, Homed
<1>14. ASSUME NEW q \in Requests, DeleteTasks(q)
       PROVE  TypeInv'
  <2>1. task' = [t \in Tasks |-> IF task[t].in = req[q].of THEN Absent ELSE task[t]] /\ Absent \in TaskStates
    BY <1>14 DEF DeleteTasks, Absent, TaskStates
  <2>2. task' \in [Tasks -> TaskStates] /\ Homed'
    BY <1>0, <2>1 DEF Homed, Absent
  <2>3. Step(q, Idle) /\ UNCHANGED <<project, asSent, faults>> /\ astray' \subseteq Tasks
    BY <1>0, <1>14 DEF DeleteTasks
  <2> QED
    BY <1>0, <1>4, <1>s, <2>2, <2>3, IdleType DEF TypeInv
<1>15. ASSUME NEW q \in Requests, HookFails(q)
       PROVE  TypeInv'
  <2>1. Move(q, Idle) /\ orderly' \in BOOLEAN /\ UNCHANGED <<project, task, asSent, astray>>
    BY <1>15 DEF HookFails, Note
  <2>2. faults' \in 0..MaxFaults
    BY <1>0, <1>15, ProjectAssumption DEF HookFails
  <2> QED
    BY <1>0, <1>1, <1>s, <2>1, <2>2, IdleType DEF TypeInv, Homed
<1>16. ASSUME Crash
       PROVE  TypeInv'
  <2>1. req' = [q \in Requests |-> Idle] /\ orderly' \in BOOLEAN /\ UNCHANGED <<project, task, asSent, astray>>
    BY <1>16 DEF Crash, Note
  <2>2. faults' \in 0..MaxFaults
    BY <1>0, <1>16, ProjectAssumption DEF Crash
  <2>3. req' \in [Requests -> RequestStates] /\ \A q \in Requests : Aimed(req'[q])
    BY <2>1, IdleType
  <2> QED
    BY <1>0, <1>s, <2>1, <2>2, <2>3 DEF TypeInv, Homed
<1>17. CASE UNCHANGED vars
  BY <1>0, <1>s, <1>17 DEF vars, TypeInv, Homed
<1> QED
  BY <1>6, <1>7, <1>8, <1>9, <1>10, <1>11, <1>12, <1>13, <1>14, <1>15, <1>16, <1>17 DEF Next, Write, Hook

LEMMA InitType == Init => TypeInv
<1> SUFFICES ASSUME Init
             PROVE  TypeInv
  OBVIOUS
<1>1. project \in [Projects -> ProjectStates] /\ \A p \in Projects : Sound(p)
  BY DEF Init, ProjectStates, Gone, Sound
<1>2. task \in [Tasks -> TaskStates] /\ Homed
  BY DEF Init, Absent, TaskStates, Homed
<1>3. req \in [Requests -> RequestStates] /\ \A q \in Requests : Aimed(req[q])
  BY IdleType DEF Init
<1> QED
  BY <1>1, <1>2, <1>3, ProjectAssumption DEF Init, TypeInv

(* However requests interleave, fail and crash, the counters a project     *)
(* shows are numbers, and never more completed tasks than tasks, unless a  *)
(* client sent them.                                                       *)
THEOREM TypeCorrect == Spec => []TypeOK
BY InitType, TypeStep, TypeInvType, PTL DEF Spec

-----------------------------------------------------------------------------
(* The counters.                                                           *)

\* What a request that nothing disturbed knows at each of its steps: the
\* task it loaded is where it was, what it counted is still so.
Known(q) ==
  req[q].alone =>
    /\ req[q].pc = "savePatch" => /\ task[req[q].of] # Absent
                                  /\ task[req[q].of].in = req[q].task.in
    /\ req[q].pc = "saveProject" => req[q].read = Counts(req[q].of)
    /\ req[q].pc = "deleteTasks" => ~project[req[q].of].live
\* As long as things are orderly there is one request at a time ...
OneAtATime == orderly => \A q \in InFlight : req[q].alone /\ InFlight = {q}
\* ... and only the project it recounts, or whose tasks it deletes, may be wrong.
Tallied(p) == p \in asSent \/ ProjectRight(p)
Housed(t) == task[t].in # NoProject => t \in astray \/ project[task[t].in].live
OthersRight ==
  orderly => /\ \A p \in Projects :
                  Tallied(p) \/ \E q \in Requests : req[q].pc \in Counting /\ req[q].of = p
             /\ \A t \in Tasks :
                  Housed(t) \/ \E q \in Requests : req[q].pc = "deleteTasks" /\ req[q].of = task[t].in
ProgressInv ==
  /\ TypeInv
  /\ \A q \in Requests : Known(q)
  /\ OneAtATime
  /\ OthersRight

\* The requests a step does not take know what they knew.
LEMMA OthersKnow ==
  ASSUME req \in [Requests -> RequestStates], NEW q \in Requests,
         NEW new \in RequestStates, Move(q, new),
         Known(q)'
  PROVE  \A x \in Requests : Known(x)'
<1> SUFFICES ASSUME NEW x \in Requests \ {q}
             PROVE  Known(x)'
  OBVIOUS
<1>1. CASE x \in InFlight
  <2>1. ~req'[x].alone
    BY <1>1, OneRequest
  <2> QED
    BY <2>1 DEF Known
<1>2. CASE x \notin InFlight
  <2>1. req'[x].pc = "idle"
    BY <1>2, OneRequest DEF InFlight
  <2> QED
    BY <2>1 DEF Known
<1> QED
  BY <1>1, <1>2

\* Nothing has to be known of a request that is done or about to count.
LEMMA FreshKnows ==
  ASSUME req \in [Requests -> RequestStates], NEW q \in Requests,
         NEW new \in RequestStates, Move(q, new), new.pc \in {"idle", "readTasks"}
  PROVE  \A x \in Requests : Known(x)'
<1>1. req'[q] = new
  BY OneRequest
<1>2. Known(q)'
  BY <1>1 DEF Known
<1> QED
  BY <1>2, OthersKnow

\* A step that keeps things orderly was taken while no other request ran.
LEMMA StaysOne ==
  ASSUME req \in [Requests -> RequestStates], NEW q \in Requests,
         NEW new \in RequestStates, Move(q, new), new.alone,
         InFlight \subseteq {q}
  PROVE  OneAtATime'
<1>1. \A x \in Requests \ {q} : req'[x].pc = "idle"
  BY OneRequest DEF InFlight
<1>2. req'[q].alone
  BY OneRequest
<1>3. InFlight' \subseteq {q}
  BY <1>1 DEF InFlight
<1> QED
  BY <1>2, <1>3 DEF OneAtATime

\* In an orderly state where only q may be in progress, everything is right
\* but what q is about; and so it is after a step of q, if that is shown.
LEMMA RightBefore ==
  ASSUME ProgressInv, orderly, NEW q \in Requests, InFlight \subseteq {q}
  PROVE  /\ \A p \in Projects : Tallied(p) \/ (req[q].pc \in Counting /\ req[q].of = p)
         /\ \A t \in Tasks : Housed(t) \/ (req[q].pc = "deleteTasks" /\ req[q].of = task[t].in)
BY DEF ProgressInv, OthersRight, InFlight, Counting

LEMMA StepOf ==
  ASSUME ProgressInv, NEW q \in Requests, NEW new \in RequestStates, Move(q, new),
         NEW b, Note(b), b => InFlight \subseteq {q},
         orderly => new.alone,
         orderly /\ b
           => /\ \A p \in Projects : Tallied(p)' \/ (new.pc \in Counting /\ new.of = p)
              /\ \A t \in Tasks : Housed(t)' \/ (new.pc = "deleteTasks" /\ new.of = task'[t].in)
  PROVE  OneAtATime' /\ OthersRight'
<1>0. req \in [Requests -> RequestStates] /\ orderly \in BOOLEAN
  BY DEF ProgressInv, TypeInv
<1>1. orderly' = (orderly /\ b)
  BY DEF Note
<1>2. CASE ~(orderly /\ b)
  <2>1. orderly' = FALSE
    BY <1>1, <1>2
  <2> QED
    BY <2>1 DEF OneAtATime, OthersRight
<1>3. CASE orderly /\ b
  <2>1. OneAtATime' /\ req'[q] = new
    BY <1>0, <1>3, StaysOne, OneRequest
  <2> QED
    BY <1>3, <2>1 DEF OthersRight
<1> QED
  BY <1>2, <1>3

\* A project whose tasks and record a step leaves alone stays right.
LEMMA ProjectStaysRight ==
  ASSUME NEW p, ProjectRight(p), project'[p] = project[p], Counts(p)' = Counts(p)
  PROVE  ProjectRight(p)'
BY DEF ProjectRight

LEMMA StaysTallied ==
  ASSUME NEW p, Tallied(p), project'[p] = project[p], Counts(p)' = Counts(p),
         p \in asSent => p \in asSent'
  PROVE  Tallied(p)'
BY ProjectStaysRight DEF Tallied

\* What was counted is what the project shows once it is written.
LEMMA SavedCounts ==
  ASSUME project \in [Projects -> ProjectStates], NEW p \in Projects, NEW q \in Requests,
         p = req[q].of, req[q].read = Counts(p), Counts(p)' = Counts(p), SaveProject(q)
  PROVE  ProjectRight(p)'
<1>1. CASE ~project[p].live
  BY <1>1 DEF SaveProject, ProjectRight
<1>2. CASE project[p].live
  <2> DEFINE counted == [project EXCEPT ![p].count = req[q].read.count]
  <2>1. counted \in [Projects -> [live : BOOLEAN, count : {req[q].read.count} \cup Nat, done : Nat]]
    BY DEF ProjectStates
  <2>2. counted[p].count = req[q].read.count
    BY DEF ProjectStates
  <2>3. project' = [counted EXCEPT ![p].done = req[q].read.done]
    BY <1>2 DEF SaveProject
  <2> HIDE DEF counted
  <2>4. project'[p].count = req[q].read.count /\ project'[p].done = req[q].read.done
    BY <2>1, <2>2, <2>3
  <2>5. Counts(p) = [count |-> Counts(p).count, done |-> Counts(p).done]
    BY DEF Counts
  <2> QED
    BY <2>4, <2>5 DEF ProjectRight
<1> QED
  BY <1>1, <1>2

\* The requests that write one task and recount its project.
LEMMA TaskSteps ==
  ASSUME ProgressInv, NEW q \in Requests, NEW t \in Tasks, NEW p \in Projects,
         \/ CreateTask(q, t, p)
         \/ UpdateTask(q, t, p)
         \/ DeleteTask(q, t) /\ p = task[t].in
  PROVE  (\A x \in Requests : Known(x)') /\ OneAtATime' /\ OthersRight'
<1> DEFINE new == [Idle EXCEPT !.pc = "readTasks", !.of = p]
<1>0. /\ project \in [Projects -> ProjectStates] /\ task \in [Tasks -> TaskStates] /\ Homed
      /\ req \in [Requests -> RequestStates] /\ orderly \in BOOLEAN
  BY DEF ProgressInv, TypeInv
<1>1. req[q].pc = "idle" /\ UNCHANGED <<project, asSent>> /\ Move(q, new)
  BY DEF CreateTask, UpdateTask, DeleteTask, Recalc
<1>2. new \in RequestStates /\ new.pc = "readTasks" /\ new.of = p /\ new.alone
  BY RecalcType
<1> HIDE DEF new
<1>3. PICK b \in BOOLEAN : Note(b) /\ (b => InFlight \subseteq {q} /\ (task[t].in = p \/ task[t] = Absent))
  <2>1. CASE CreateTask(q, t, p)
    BY <2>1 DEF CreateTask
  <2>2. CASE UpdateTask(q, t, p)
    <3> WITNESS (InFlight \subseteq {q} /\ p = task[t].in) \in BOOLEAN
    <3> QED
      BY <2>2 DEF UpdateTask
  <2>3. CASE DeleteTask(q, t) /\ p = task[t].in
    BY <2>3 DEF DeleteTask
  <2> QED
    BY <2>1, <2>2, <2>3
<1>4. PICK late \in TaskStates : /\ task' = [task EXCEPT ![t] = late]
                                 /\ late = Absent \/ late.in = p
                                 /\ late # Absent => t \in astray' \/ project[p].live
                                 /\ astray \subseteq astray' \cup {t}
  <2>1. CASE CreateTask(q, t, p)
    <3> USE DEF TaskStates, Absent
    <3> WITNESS [in |-> p, completed |-> FALSE] \in TaskStates
    <3> QED
      BY <2>1 DEF CreateTask, Placed
  <2>2. CASE UpdateTask(q, t, p)
    <3>1. PICK c \in BOOLEAN : task' = [task EXCEPT ![t] = [in |-> p, completed |-> c]]
      BY <2>2 DEF UpdateTask
    <3> USE DEF TaskStates, Absent
    <3> WITNESS [in |-> p, completed |-> c] \in TaskStates
    <3> QED
      BY <2>2, <3>1 DEF UpdateTask, Placed
  <2>3. CASE DeleteTask(q, t) /\ p = task[t].in
    <3> USE DEF TaskStates, Absent
    <3> WITNESS Absent \in TaskStates
    <3> QED
      BY <2>3 DEF DeleteTask
  <2> QED
    BY <2>1, <2>2, <2>3
<1>5. Absent.in = NoProject /\ NoProject \notin Projects
  BY ProjectAssumption DEF Absent
<1>6. task'[t] = late /\ \A x \in Tasks \ {t} : task'[x] = task[x]
  BY <1>0, <1>4
<1>7. \A x \in Requests : Known(x)'
  BY <1>0, <1>1, <1>2, FreshKnows
<1>8. ASSUME orderly, b, NEW r \in Projects
      PROVE  Tallied(r)' \/ (new.pc \in Counting /\ new.of = r)
  <2>1. CASE r = p
    BY <1>2, <2>1 DEF Counting
  <2>2. CASE r # p
    <3>1. Tallied(r)
      BY <1>1, <1>3, <1>8, RightBefore DEF Counting
    <3>2. task[t].in # r /\ task'[t].in # r
      BY <1>3, <1>4, <1>5, <1>6, <1>8, <2>2
    <3>3. Counts(r)' = Counts(r)
      BY <1>6, <3>2, SameCounts
    <3> QED
      BY <1>1, <3>1, <3>3, StaysTallied
  <2> QED
    BY <2>1, <2>2
<1>9. ASSUME orderly, b, NEW x \in Tasks
      PROVE  Housed(x)'
  <2>1. \A y \in Tasks : Housed(y)
    BY <1>1, <1>3, <1>9, RightBefore
  <2>2. CASE x = t
    BY <1>1, <1>4, <1>5, <1>6, <2>1, <2>2 DEF Housed
  <2>3. CASE x # t
    BY <1>1, <1>4, <1>6, <2>1, <2>3 DEF Housed
  <2> QED
    BY <2>2, <2>3
<1> QED
  BY <1>1, <1>2, <1>3, <1>7, <1>8, <1>9, StepOf

\* PATCH /pm-tasks/:id/status: the load, and the save that recounts.
LEMMA PatchSteps ==
  ASSUME ProgressInv, NEW q \in Requests,
         (\E t \in Tasks, c \in BOOLEAN : LoadForPatch(q, t, c)) \/ SavePatch(q)
  PROVE  (\A x \in Requests : Known(x)') /\ OneAtATime' /\ OthersRight'
<1>0. /\ project \in [Projects -> ProjectStates] /\ task \in [Tasks -> TaskStates] /\ Homed
      /\ req \in [Requests -> RequestStates] /\ orderly \in BOOLEAN
      /\ Aimed(req[q]) /\ req[q] \in RequestStates
  BY DEF ProgressInv, TypeInv
<1>1. UNCHANGED <<project, asSent, astray>> /\ req[q].pc \in {"idle", "savePatch"}
  BY DEF LoadForPatch, SavePatch
<1>2. \A p \in Projects : orderly /\ InFlight \subseteq {q} => Tallied(p)
  BY <1>1, RightBefore DEF Counting
<1>3. \A t \in Tasks : orderly /\ InFlight \subseteq {q} => Housed(t)
  BY <1>1, RightBefore
<1>4. ASSUME NEW t \in Tasks, NEW c \in BOOLEAN, LoadForPatch(q, t, c)
      PROVE  (\A x \in Requests : Known(x)') /\ OneAtATime' /\ OthersRight'
  <2> DEFINE new == [Idle EXCEPT !.pc = "savePatch", !.task = [in |-> task[t].in, completed |-> c], !.of = t]
  <2>1. Step(q, new) /\ UNCHANGED task /\ task[t] # Absent
    BY <1>4 DEF LoadForPatch
  <2>2. /\ new \in RequestStates /\ new.pc = "savePatch" /\ new.of = t /\ new.alone
        /\ new.task.in = task[t].in
    BY <1>0 DEF Idle, Absent, RequestStates, TaskStates, CountType
  <2> HIDE DEF new
  <2>3. req'[q] = new /\ Move(q, new) /\ Note(InFlight \subseteq {q})
    BY <1>0, <2>1, <2>2, OneRequest DEF Step
  <2>4. Known(q)'
    BY <2>1, <2>2, <2>3 DEF Known
  <2>5. \A x \in Requests : Known(x)'
    BY <1>0, <2>2, <2>3, <2>4, OthersKnow
  <2>6. \A p \in Projects : Tallied(p) => Tallied(p)'
    BY <1>1, <2>1, SameCounts, StaysTallied
  <2>7. \A x \in Tasks : Housed(x) => Housed(x)'
    BY <1>1, <2>1 DEF Housed
  <2> QED
    BY <1>2, <1>3, <2>2, <2>3, <2>5, <2>6, <2>7, StepOf
<1>5. CASE SavePatch(q)
  <2>0. PICK t \in Tasks : t = req[q].of /\ req[q].pc = "savePatch"
    BY <1>0, <1>5 DEF SavePatch, Aimed
  <2>1. CASE task[t] = Absent
    <3>1. Step(q, Idle) /\ UNCHANGED task
      BY <1>5, <2>0, <2>1 DEF SavePatch
    <3>2. Idle \in RequestStates /\ Idle.pc = "idle" /\ Idle.alone
      BY IdleType DEF Idle
    <3>3. Move(q, Idle) /\ Note(InFlight \subseteq {q})
      BY <3>1 DEF Step
    <3>4. \A x \in Requests : Known(x)'
      BY <1>0, <3>2, <3>3, FreshKnows
    <3>5. \A p \in Projects : Tallied(p) => Tallied(p)'
      BY <1>1, <3>1, SameCounts, StaysTallied
    <3>6. \A x \in Tasks : Housed(x) => Housed(x)'
      BY <1>1, <3>1 DEF Housed
    <3> QED
      BY <1>2, <1>3, <3>2, <3>3, <3>4, <3>5, <3>6, StepOf
  <2>2. CASE task[t] # Absent
    <3> DEFINE new == [req[q] EXCEPT !.pc = "readTasks", !.of = req[q].task.in]
    <3>1. task' = [task EXCEPT ![t].completed = req[q].task.completed] /\ Step(q, new)
      BY <1>5, <2>0, <2>2 DEF SavePatch
    <3>2. /\ new \in RequestStates /\ new.pc = "readTasks" /\ new.of = req[q].task.in
          /\ new.alone = req[q].alone
      BY <1>0, <2>0 DEF RequestStates, Aimed
    <3> HIDE DEF new
    <3>3. Move(q, new) /\ Note(InFlight \subseteq {q})
      BY <3>1 DEF Step
    <3>4. \A x \in Requests : Known(x)'
      BY <1>0, <3>2, <3>3, FreshKnows
    <3>5. orderly => req[q].alone /\ task[t].in = new.of
      BY <2>0, <3>2 DEF ProgressInv, OneAtATime, InFlight, Known
    <3>6. \A x \in Tasks : task'[x].in = task[x].in /\ (x # t => task'[x] = task[x])
      BY <1>0, <3>1 DEF TaskStates
    <3>7. ASSUME orderly, InFlight \subseteq {q}, NEW p \in Projects
          PROVE  Tallied(p)' \/ (new.pc \in Counting /\ new.of = p)
      <4>1. CASE p = new.of
        BY <3>2, <4>1 DEF Counting
      <4>2. CASE p # new.of
        <5>1. Counts(p)' = Counts(p)
          BY <3>5, <3>6, <3>7, <4>2, SameCounts
        <5> QED
          BY <1>1, <1>2, <3>7, <5>1, StaysTallied
      <4> QED
        BY <4>1, <4>2
    <3>8. \A x \in Tasks : Housed(x) => Housed(x)'
      BY <1>1, <3>6 DEF Housed
    <3> QED
      BY <1>3, <3>2, <3>3, <3>4, <3>5, <3>7, <3>8, StepOf
  <2> QED
    BY <2>1, <2>2
<1> QED
  BY <1>4, <1>5

\* recalcProjectProgress: the count, and the write of what was counted.
LEMMA RecountSteps ==
  ASSUME ProgressInv, NEW q \in Requests, ReadTasks(q) \/ SaveProject(q)
  PROVE  (\A x \in Requests : Known(x)') /\ OneAtATime' /\ OthersRight'
<1>0. /\ project \in [Projects -> ProjectStates] /\ task \in [Tasks -> TaskStates]
      /\ req \in [Requests -> RequestStates] /\ orderly \in BOOLEAN
      /\ Aimed(req[q]) /\ req[q] \in RequestStates
  BY DEF ProgressInv, TypeInv
<1>1. PICK p \in Projects : p = req[q].of /\ req[q].pc \in Counting /\ UNCHANGED <<task, astray>>
  BY <1>0 DEF Aimed, Counting, ReadTasks, SaveProject
<1>2. Known(q) /\ (orderly => req[q].alone)
  BY <1>1 DEF ProgressInv, OneAtATime, InFlight, Counting
<1>3. \A r : Counts(r)' = Counts(r)
  BY <1>1, SameCounts
<1>4. \A t \in Tasks : orderly /\ InFlight \subseteq {q} => Housed(t)
  BY <1>1, RightBefore DEF Counting
<1>5. \A r \in Projects \ {p} : orderly /\ InFlight \subseteq {q} => Tallied(r)
  BY <1>1, RightBefore
<1>6. CASE ReadTasks(q)
  <2> DEFINE new == [req[q] EXCEPT !.pc = "saveProject", !.read = Counts(req[q].of)]
  <2>1. Step(q, new) /\ UNCHANGED <<project, asSent>>
    BY <1>6 DEF ReadTasks
  <2>2. /\ new \in RequestStates /\ new.pc = "saveProject" /\ new.of = p
        /\ new.alone = req[q].alone /\ new.read = Counts(p)
    BY <1>0, <1>1, CountsType DEF RequestStates
  <2> HIDE DEF new
  <2>3. req'[q] = new /\ Move(q, new) /\ Note(InFlight \subseteq {q})
    BY <1>0, <2>1, <2>2, OneRequest DEF Step
  <2>4. Known(q)'
    BY <1>3, <2>2, <2>3 DEF Known
  <2>5. \A x \in Requests : Known(x)'
    BY <1>0, <2>2, <2>3, <2>4, OthersKnow
  <2>6. \A r \in Projects : Tallied(r) => Tallied(r)'
    BY <1>3, <2>1, StaysTallied
  <2>7. \A x \in Tasks : Housed(x) => Housed(x)'
    BY <1>1, <2>1 DEF Housed
  <2> QED
    BY <1>2, <1>4, <1>5, <2>2, <2>3, <2>5, <2>6, <2>7, StepOf DEF Counting
<1>7. CASE SaveProject(q)
  <2>1. Step(q, Idle) /\ req[q].pc = "saveProject"
    BY <1>7 DEF SaveProject
  <2>2. Idle \in RequestStates /\ Idle.pc = "idle" /\ Idle.alone
    BY IdleType DEF Idle
  <2>3. Move(q, Idle) /\ Note(InFlight \subseteq {q})
    BY <2>1 DEF Step
  <2>4. \A x \in Requests : Known(x)'
    BY <1>0, <2>2, <2>3, FreshKnows
  <2>5. \A r \in Projects : project'[r].live = project[r].live /\ (r # p => project'[r] = project[r])
    BY <1>0, <1>1, <1>7 DEF SaveProject, ProjectStates
  <2>6. req[q].alone => ProjectRight(p)'
    BY <1>0, <1>1, <1>2, <1>3, <1>7, SavedCounts DEF Known, SaveProject
  <2>7. ASSUME NEW r \in Projects, orderly, InFlight \subseteq {q}
        PROVE  Tallied(r)'
    <3>1. CASE r = p
      BY <1>2, <2>6, <2>7, <3>1 DEF Tallied
    <3>2. CASE r # p
      <4>1. r \in asSent => r \in asSent'
        BY <1>1, <1>7, <3>2 DEF SaveProject
      <4> QED
        BY <1>3, <1>5, <2>5, <2>7, <3>2, <4>1, StaysTallied
    <3> QED
      BY <3>1, <3>2
  <2>8. \A x \in Tasks : Housed(x) => Housed(x)'
    <3>1. \A x \in Tasks : task[x].in # NoProject => task[x].in \in Projects
      BY <1>0 DEF TaskStates
    <3> QED
      BY <1>1, <2>5, <3>1 DEF Housed
  <2> QED
    BY <1>4, <2>2, <2>3, <2>4, <2>7, <2>8, StepOf
<1> QED
  BY <1>6, <1>7

\* The requests that create and delete projects.
LEMMA ProjectSteps ==
  ASSUME ProgressInv, NEW q \in Requests,
         (\E p \in Projects : CreateProject(q, p) \/ EditProject(q, p) \/ DeleteProject(q, p)) \/ DeleteTasks(q)
  PROVE  (\A x \in Requests : Known(x)') /\ OneAtATime' /\ OthersRight'
<1>0. /\ project \in [Projects -> ProjectStates] /\ task \in [Tasks -> TaskStates]
      /\ req \in [Requests -> RequestStates] /\ orderly \in BOOLEAN
      /\ Aimed(req[q]) /\ req[q] \in RequestStates
  BY DEF ProgressInv, TypeInv
<1>1. \A x \in Tasks : task[x].in # NoProject => task[x].in \in Projects
  BY <1>0 DEF TaskStates
<1>2. Idle \in RequestStates /\ Idle.pc = "idle" /\ Idle.alone
  BY IdleType DEF Idle
<1>3. \A p \in Projects : orderly /\ InFlight \subseteq {q} => Tallied(p)
  BY RightBefore DEF Counting, CreateProject, EditProject, DeleteProject, DeleteTasks
<1>4. ASSUME NEW p \in Projects, CreateProject(q, p) \/ EditProject(q, p)
      PROVE  (\A x \in Requests : Known(x)') /\ OneAtATime' /\ OthersRight'
  <2>1. /\ \/ /\ project' = [project EXCEPT ![p] = [live |-> TRUE, count |-> 0, done |-> 0]]
              /\ TasksOf(p) = {} /\ asSent' = asSent
           \/ /\ \E b \in Sent : project' = [project EXCEPT ![p] = [live |-> TRUE, count |-> b.count, done |-> b.done]]
              /\ asSent' = asSent \cup {p}
        /\ Step(q, Idle) /\ UNCHANGED <<task, astray>> /\ req[q].pc = "idle"
    BY <1>4 DEF CreateProject, EditProject
  <2>2. Move(q, Idle) /\ Note(InFlight \subseteq {q})
    BY <2>1 DEF Step
  <2>3. \A x \in Requests : Known(x)'
    BY <1>0, <1>2, <2>2, FreshKnows
  <2>4. \A r : Counts(r)' = Counts(r)
    BY <2>1, SameCounts
  <2>5. project'[p].live /\ \A r \in Projects \ {p} : project'[r] = project[r]
    BY <1>0, <2>1
  <2>6. Tallied(p)'
    <3>1. CASE p \in asSent'
      BY <3>1 DEF Tallied
    <3>2. CASE p \notin asSent'
      <4>1. TasksOf(p) = {} /\ project' = [project EXCEPT ![p] = [live |-> TRUE, count |-> 0, done |-> 0]]
        BY <2>1, <3>2
      <4>2. {t \in TasksOf(p) : task[t].completed} = {}
        BY <4>1
      <4>3. Counts(p) = [count |-> 0, done |-> 0]
        BY <4>1, <4>2, FS_EmptySet DEF Counts
      <4>4. project'[p].count = 0 /\ project'[p].done = 0
        BY <1>0, <4>1
      <4> QED
        BY <2>4, <4>3, <4>4 DEF Tallied, ProjectRight
    <3> QED
      BY <3>1, <3>2
  <2>7. \A r \in Projects : Tallied(r) => Tallied(r)'
    BY <2>1, <2>4, <2>5, <2>6, StaysTallied
  <2>8. \A x \in Tasks : Housed(x) => Housed(x)'
    BY <1>1, <2>1, <2>5 DEF Housed
  <2>9. \A x \in Tasks : orderly /\ InFlight \subseteq {q} => Housed(x)
    BY <2>1, RightBefore
  <2> QED
    BY <1>2, <1>3, <2>2, <2>3, <2>7, <2>8, <2>9, StepOf
<1>5. ASSUME NEW p \in Projects, DeleteProject(q, p)
      PROVE  (\A x \in Requests : Known(x)') /\ OneAtATime' /\ OthersRight'
  <2> DEFINE new == [Idle EXCEPT !.pc = "deleteTasks", !.of = p]
  <2>1. /\ project' = [project EXCEPT ![p] = Gone] /\ asSent' = asSent \ {p}
        /\ Step(q, new) /\ UNCHANGED <<task, astray>> /\ req[q].pc = "idle"
    BY <1>5 DEF DeleteProject
  <2>2. new \in RequestStates /\ new.pc = "deleteTasks" /\ new.of = p /\ new.alone
    BY DEF Idle, Absent, RequestStates, TaskStates, CountType
  <2> HIDE DEF new
  <2>3. req'[q] = new /\ Move(q, new) /\ Note(InFlight \subseteq {q})
    BY <1>0, <2>1, <2>2, OneRequest DEF Step
  <2>4. ~project'[p].live /\ \A r \in Projects \ {p} : project'[r] = project[r]
    BY <1>0, <2>1 DEF ProjectStates, Gone
  <2>5. Known(q)'
    BY <2>2, <2>3, <2>4 DEF Known
  <2>6. \A x \in Requests : Known(x)'
    BY <1>0, <2>2, <2>3, <2>5, OthersKnow
  <2>7. \A r \in Projects : Tallied(r) => Tallied(r)'
    <3>1. Tallied(p)'
      BY <2>4 DEF Tallied, ProjectRight
    <3>2. \A r \in Projects \ {p} : Counts(r)' = Counts(r) /\ (r \in asSent => r \in asSent')
      BY <2>1, SameCounts
    <3> QED
      BY <2>4, <3>1, <3>2, StaysTallied
  <2>8. \A x \in Tasks : Housed(x) => Housed(x)' \/ task'[x].in = p
    BY <1>1, <2>1, <2>4 DEF Housed
  <2>9. \A x \in Tasks : orderly /\ InFlight \subseteq {q} => Housed(x)
    BY <2>1, RightBefore
  <2> QED
    BY <1>3, <2>2, <2>3, <2>6, <2>7, <2>8, <2>9, StepOf
<1>6. CASE DeleteTasks(q)
  <2>0. PICK p \in Projects : p = req[q].of /\ req[q].pc = "deleteTasks"
    BY <1>0, <1>6 DEF DeleteTasks, Aimed
  <2>1. /\ task' = [t \in Tasks |-> IF task[t].in = p THEN Absent ELSE task[t]]
        /\ astray' = astray \ TasksOf(p) /\ Step(q, Idle) /\ UNCHANGED <<project, asSent>>
    BY <1>6, <2>0 DEF DeleteTasks
  <2>2. Move(q, Idle) /\ Note(InFlight \subseteq {q})
    BY <2>1 DEF Step
  <2>3. \A x \in Requests : Known(x)'
    BY <1>0, <1>2, <2>2, FreshKnows
  <2>4. orderly => ~project[p].live
    BY <2>0 DEF ProgressInv, OneAtATime, InFlight, Known
  <2>5. Absent.in = NoProject /\ NoProject \notin Projects
    BY ProjectAssumption DEF Absent
  <2>6. ASSUME orderly, InFlight \subseteq {q}, NEW r \in Projects
        PROVE  Tallied(r)'
    <3>1. CASE r = p
      BY <2>1, <2>4, <2>6, <3>1 DEF Tallied, ProjectRight
    <3>2. CASE r # p
      <4>1. Counts(r)' = Counts(r)
        BY <2>1, <2>5, <3>2, SameCounts
      <4> QED
        BY <1>3, <2>1, <2>6, <4>1, StaysTallied
    <3> QED
      BY <3>1, <3>2
  <2>7. ASSUME orderly, InFlight \subseteq {q}, NEW x \in Tasks
        PROVE  Housed(x)'
    <3>1. CASE task[x].in = p
      BY <2>1, <2>5, <3>1 DEF Housed
    <3>2. CASE task[x].in # p
      <4>1. Housed(x)
        BY <2>0, <2>7, <3>2, RightBefore
      <4> QED
        BY <2>1, <3>2, <4>1 DEF Housed, TasksOf
    <3> QED
      BY <3>1, <3>2
  <2> QED
    BY <1>2, <2>2, <2>3, <2>6, <2>7, StepOf
<1> QED
  BY <1>4, <1>5, <1>6

LEMMA ProgressStep == ProgressInv /\ [Next]_vars => ProgressInv'
<1> SUFFICES ASSUME ProgressInv, [Next]_vars
             PROVE  ProgressInv'
  OBVIOUS
<1>0. /\ req \in [Requests -> RequestStates] /\ orderly \in BOOLEAN
      /\ \A t \in Tasks : task[t] # Absent => task[t].in \in Projects
  BY DEF ProgressInv, TypeInv, Homed
<1>1. TypeInv'
  BY TypeStep DEF ProgressInv
<1>2. ASSUME NEW q \in Requests, HookFails(q)
      PROVE  (\A x \in Requests : Known(x)') /\ OneAtATime' /\ OthersRight'
  <2>1. Move(q, Idle) /\ orderly' = FALSE
    BY <1>2 DEF HookFails, Note
  <2>2. Idle \in RequestStates /\ Idle.pc = "idle"
    BY IdleType DEF Idle
  <2> QED
    BY <1>0, <2>1, <2>2, FreshKnows DEF OneAtATime, OthersRight
<1>3. ASSUME Crash
      PROVE  (\A x \in Requests : Known(x)') /\ OneAtATime' /\ OthersRight'
  <2>1. req' = [q \in Requests |-> Idle] /\ orderly' = FALSE
    BY <1>3 DEF Crash, Note
  <2>2. \A x \in Requests : Known(x)'
    BY <2>1 DEF Known, Idle
  <2> QED
    BY <2>1, <2>2 DEF OneAtATime, OthersRight
<1>4. CASE UNCHANGED vars
  <2>1. UNCHANGED <<project, task, req, orderly, asSent, astray>>
    BY <1>4 DEF vars
  <2>2. \A p : Counts(p)' = Counts(p)
    BY <2>1, SameCounts
  <2>3. (\A p : ProjectRight(p)' <=> ProjectRight(p)) /\ (\A t : Housed(t)' <=> Housed(t))
    BY <2>1, <2>2 DEF ProjectRight, Housed
  <2>4. \A q \in Requests : Known(q)'
    BY <2>1, <2>2 DEF ProgressInv, Known
  <2>5. OneAtATime' /\ OthersRight'
    BY <2>1, <2>3 DEF ProgressInv, OneAtATime, OthersRight, Tallied, InFlight
  <2> QED
    BY <1>1, <2>4, <2>5 DEF ProgressInv
<1>5. ASSUME NEW q \in Requests, NEW t \in Tasks, DeleteTask(q, t)
      PROVE  (\A x \in Requests : Known(x)') /\ OneAtATime' /\ OthersRight'
  <2>1. task[t].in \in Projects
    BY <1>0, <1>5 DEF DeleteTask
  <2> QED
    BY <1>5, <2>1, TaskSteps
<1> QED
  BY <1>1, <1>2, <1>3, <1>4, <1>5, TaskSteps, PatchSteps, RecountSteps, ProjectSteps
     DEF Next, Write, Hook, ProgressInv

LEMMA ProgressInvariant == Spec => []ProgressInv
<1>1. Init => ProgressInv
  <2> SUFFICES ASSUME Init
               PROVE  ProgressInv
    OBVIOUS
  <2>1. \A q \in Requests : Known(q) /\ q \notin InFlight
    BY DEF Init, Known, Idle, InFlight
  <2>2. \A p \in Projects : Tallied(p)
    BY DEF Init, Tallied, ProjectRight, Gone
  <2>3. \A t \in Tasks : Housed(t)
    BY DEF Init, Housed, Absent
  <2> QED
    BY InitType, <2>1, <2>2, <2>3 DEF ProgressInv, OneAtATime, OthersRight, InFlight
<1> QED
  BY <1>1, ProgressStep, PTL DEF Spec

(* As long as requests have not overlapped, no hook has failed and no task *)
(* was moved: whenever no request is in progress, every project counts its *)
(* tasks rightly, but for those whose counters a client sent last, and no  *)
(* task put on a live project has outlived it.                             *)
THEOREM OrderlyProgressThm == Spec => []OrderlyProgress
<1>1. ProgressInv => OrderlyProgress
  BY DEF ProgressInv, OthersRight, OrderlyProgress, InFlight, Counting, Tallied, Housed
<1> QED
  BY <1>1, ProgressInvariant, PTL

(* Whatever races, failures and moves came before: a recount that no other *)
(* request disturbed leaves its project with the right counters.           *)
THEOREM AloneRepairsThm == Spec => AloneRepairs
<1>1. ASSUME ProgressInv, NEW q \in Requests, NEW p \in Projects,
             req[q].pc = "saveProject", req[q].of = p, req[q].alone, SaveProject(q)
      PROVE  ProjectRight(p)'
  <2>1. project \in [Projects -> ProjectStates] /\ req[q].read = Counts(p)
    BY <1>1 DEF ProgressInv, TypeInv, Known
  <2>2. Counts(p)' = Counts(p)
    BY <1>1, SameCounts DEF SaveProject
  <2> QED
    BY <1>1, <2>1, <2>2, SavedCounts
<1>2. ProgressInv /\ [Next]_vars
        => [\A q \in Requests, p \in Projects :
              req[q].pc = "saveProject" /\ req[q].of = p /\ req[q].alone /\ SaveProject(q)
                => ProjectRight(p)']_vars
  BY <1>1
<1> QED
  BY <1>2, ProgressInvariant, PTL DEF Spec, AloneRepairs

=============================================================================
