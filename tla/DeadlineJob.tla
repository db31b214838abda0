------------------------------ MODULE DeadlineJob ------------------------------
(***************************************************************************)
(* The deadline reminders of src/jobs/pmDeadlineNotifications.ts.  Every   *)
(* 15 minutes a run notifies the assignees of overdue tasks, then those of *)
(* tasks due tomorrow, one by one, and stamps each task after its notice.  *)
(* A timer starts the next run whether or not the last one has ended, and  *)
(* every server process has its own timer.                                 *)
(***************************************************************************)
EXTENDS Integers, FiniteSets, FiniteSetsExt

CONSTANTS
  Tasks,
  Assigned,    \* the tasks that stay with one user all the time
  Edited,      \* the tasks clients change while the job is at work
  Jobs,        \* runs in progress at once, of any process
  Never,       \* no reminder yet
  Batch,       \* limit() of the two queries
  MaxDay,      \* bound on the calendar
  MaxFaults    \* bound on failing calls and crashes

ASSUME DeadlineAssumption ==
  /\ IsFiniteSet(Tasks)
  /\ Assigned \subseteq Tasks
  /\ Edited \subseteq Tasks
  /\ IsFiniteSet(Jobs)
  /\ Batch \in Nat \ {0}
  /\ MaxDay \in Nat
  /\ Never \notin Nat
  /\ MaxFaults \in Nat

VARIABLES
  today,        \* the business day
  task,         \* [Tasks -> TaskType]
  run,          \* [Jobs -> RunType]
  sent,         \* history: [Notices -> Sent], inbox rows of each kind
  nobody,       \* history: the notices not sent because the addressee was no user
  restamped,    \* history: the tasks whose stamps a client has written
  overlapped,   \* history: two runs have been in progress at once
  faults

deadlineVars == <<today, task, run, sent, nobody, restamped, overlapped, faults>>

Days == 0..MaxDay
Phases == {"overdue", "tomorrow"}
\* A deleted task is one that stays completed.
TaskType == [completed : BOOLEAN, deadline : 0..(MaxDay + 1),
             overdueNotified : BOOLEAN, tomorrowNotifiedOn : Days \cup {Never}]
RunType == [pc : {"idle", "find", "notify", "stamp"}, phase : Phases, today : Days,
            batch : SUBSET Tasks, current : SUBSET Tasks]
\* One overdue notice per task, one reminder per task and day.
Notices == ({"overdue"} \X Tasks \X {0}) \cup ({"tomorrow"} \X Tasks \X Days)
Notice(phase, t, day) == <<phase, t, IF phase = "overdue" THEN 0 ELSE day>>

\* History counts none, one and more.
Sent == 0..2
More(n) == IF n = 0 THEN 1 ELSE 2

Active == {j \in Jobs : run[j].pc # "idle"}
Idle == [pc |-> "idle", phase |-> "overdue", today |-> 0, batch |-> {}, current |-> {}]

-----------------------------------------------------------------------------
(* runPmDeadlineNotifications                                              *)

\* The two queries, with the business day the run began on.
Due(phase, day) ==
  {t \in Tasks : ~task[t].completed /\
     IF phase = "overdue"
     THEN task[t].deadline < day /\ ~task[t].overdueNotified
     ELSE task[t].deadline = day + 1 /\ task[t].tomorrowNotifiedOn # day}
Limited(S) == kSubset(IF Cardinality(S) < Batch THEN Cardinality(S) ELSE Batch, S)

\* The rest of a batch, or the next query, or the end of the run.
Continue(j, r, batch) ==
  run' = [run EXCEPT ![j] =
    CASE batch # {} -> [r EXCEPT !.pc = "notify", !.batch = batch, !.current = {}]
      [] batch = {} /\ r.phase = "overdue" ->
           [Idle EXCEPT !.pc = "find", !.phase = "tomorrow", !.today = r.today]
      [] OTHER -> Idle]

\* A new run computes its business day, which both queries use; the timer
\* does not look for other runs.
Start(j) ==
  /\ run[j].pc = "idle"
  /\ \E batch \in Limited(Due("overdue", today)) : Continue(j, [Idle EXCEPT !.today = today], batch)
  /\ overlapped' = (overlapped \/ Active # {})
  /\ UNCHANGED <<today, task, sent, nobody, restamped, faults>>

FindTomorrow(j) ==
  /\ run[j].pc = "find"
  /\ \E batch \in Limited(Due("tomorrow", run[j].today)) : Continue(j, run[j], batch)
  /\ UNCHANGED <<today, task, sent, nobody, restamped, overlapped, faults>>

\* notifyUserByEmail: no notice if the address the query has loaded belongs to
\* no user.  Tasks are reassigned, and accounts come and go, at any time, so a
\* notice may or may not find its user.
Deliver(j, t) ==
  LET n == Notice(run[j].phase, t, run[j].today)
  IN \/ sent' = [sent EXCEPT ![n] = More(@)] /\ nobody' = nobody \ {n}
     \/ t \notin Assigned /\ nobody' = (IF sent[n] = 0 THEN nobody \cup {n} ELSE nobody) /\ UNCHANGED sent

\* Mutant: a task completed meanwhile is not announced, but stamped.
Notify_Recheck(j) ==
  /\ run[j].pc = "notify"
  /\ \E t \in run[j].batch :
       /\ IF ~task[t].completed THEN Deliver(j, t) ELSE UNCHANGED <<sent, nobody>>
       /\ run' = [run EXCEPT ![j].pc = "stamp", ![j].current = {t}]
  /\ UNCHANGED <<today, task, restamped, overlapped, faults>>
Notify(j) ==
  /\ run[j].pc = "notify"
  /\ \E t \in run[j].batch :
       /\ Deliver(j, t)
       /\ run' = [run EXCEPT ![j].pc = "stamp", ![j].current = {t}]
  /\ UNCHANGED <<today, task, restamped, overlapped, faults>>

\* Mutant: the day of the deadline is stored, not the day of the reminder.
Stamped_Deadline(t, phase, day) ==
  IF phase = "overdue" THEN [task[t] EXCEPT !.overdueNotified = TRUE]
  ELSE [task[t] EXCEPT !.tomorrowNotifiedOn = day + 1]
Stamped(t, phase, day) ==
  IF phase = "overdue" THEN [task[t] EXCEPT !.overdueNotified = TRUE]
  ELSE [task[t] EXCEPT !.tomorrowNotifiedOn = day]

\* Mutant: only tasks whose assignee was found are stamped.
Stamp_FoundOnly(j) ==
  /\ run[j].pc = "stamp"
  /\ \E t \in run[j].current :
       /\ task' = [task EXCEPT ![t] = IF sent[Notice(run[j].phase, t, run[j].today)] = 0 THEN @ ELSE Stamped(t, run[j].phase, run[j].today)]
       /\ Continue(j, run[j], run[j].batch \ {t})
  /\ UNCHANGED <<today, sent, nobody, restamped, overlapped, faults>>
\* Mutant: the second loop forgets to stamp.
Stamp_OverdueOnly(j) ==
  /\ run[j].pc = "stamp"
  /\ \E t \in run[j].current :
       /\ task' = [task EXCEPT ![t] = IF run[j].phase = "tomorrow" THEN @ ELSE Stamped(t, run[j].phase, run[j].today)]
       /\ Continue(j, run[j], run[j].batch \ {t})
  /\ UNCHANGED <<today, sent, nobody, restamped, overlapped, faults>>
\* updateOne, also of a task completed or rescheduled meanwhile.
Stamp(j) ==
  /\ run[j].pc = "stamp"
  /\ \E t \in run[j].current :
       /\ task' = [task EXCEPT ![t] = Stamped(t, run[j].phase, run[j].today)]
       /\ Continue(j, run[j], run[j].batch \ {t})
  /\ UNCHANGED <<today, sent, nobody, restamped, overlapped, faults>>

\* A call throws: the whole run ends, the error is logged.
RunFails(j) ==
  /\ faults < MaxFaults
  /\ j \in Active
  /\ faults' = faults + 1
  /\ run' = [run EXCEPT ![j] = Idle]
  /\ UNCHANGED <<today, task, sent, nobody, restamped, overlapped>>

Crash ==
  /\ faults < MaxFaults
  /\ Active # {}
  /\ faults' = faults + 1
  /\ run' = [j \in Jobs |-> Idle]
  /\ UNCHANGED <<today, task, sent, nobody, restamped, overlapped>>

-----------------------------------------------------------------------------
(* The rest of the system: clients edit tasks, days go by.                 *)

\* PATCH /pm-tasks/:id/status and PUT /pm-tasks/:id.
SetStatus(t) ==
  /\ task' = [task EXCEPT ![t].completed = ~@]
  /\ UNCHANGED <<today, run, sent, nobody, restamped, overlapped, faults>>

Reschedule(t) ==
  /\ \E d \in 0..(MaxDay + 1) : task' = [task EXCEPT ![t].deadline = d]
  /\ UNCHANGED <<today, run, sent, nobody, restamped, overlapped, faults>>

\* PUT /pm-tasks/:id stores what is sent: a form that holds the whole task puts
\* back the stamps it was filled with.  Bound: once per task.
PutStamps(t) ==
  /\ t \notin restamped
  /\ \E o \in BOOLEAN, d \in (0..today) \cup {Never} :
       task' = [task EXCEPT ![t].overdueNotified = o, ![t].tomorrowNotifiedOn = d]
  /\ restamped' = restamped \cup {t}
  /\ UNCHANGED <<today, run, sent, nobody, overlapped, faults>>

NextDay ==
  /\ today < MaxDay
  /\ today' = today + 1
  /\ UNCHANGED <<task, run, sent, nobody, restamped, overlapped, faults>>

-----------------------------------------------------------------------------
DeadlineInit ==
  /\ today = 0
  /\ \E deadline \in [Tasks -> 0..(MaxDay + 1)] :
       task = [t \in Tasks |-> [completed |-> FALSE, deadline |-> deadline[t],
                                overdueNotified |-> FALSE, tomorrowNotifiedOn |-> Never]]
  /\ run = [j \in Jobs |-> Idle]
  /\ sent = [n \in Notices |-> 0]
  /\ nobody = {}
  /\ restamped = {}
  /\ overlapped = FALSE
  /\ faults = 0

Job(j) == Start(j) \/ FindTomorrow(j) \/ Notify(j) \/ Stamp(j)

DeadlineNext ==
  \/ \E j \in Jobs : Job(j) \/ RunFails(j)
  \/ \E t \in Edited : SetStatus(t) \/ Reschedule(t) \/ PutStamps(t)
  \/ Crash
  \/ NextDay

DeadlineSpec == DeadlineInit /\ [][DeadlineNext]_deadlineVars

-----------------------------------------------------------------------------
(* Properties.                                                             *)

(* The types of the state: a task is stamped with a day that has come.     *)
DeadlineTypeOK ==
  /\ today \in Days
  /\ \A t \in Tasks : task[t].tomorrowNotifiedOn \in (0..today) \cup {Never}
  /\ task \in [Tasks -> TaskType]
  /\ run \in [Jobs -> RunType]
  /\ sent \in [Notices -> Sent]
  /\ nobody \subseteq Notices
  /\ restamped \subseteq Tasks
  /\ overlapped \in BOOLEAN
  /\ faults \in 0..MaxFaults

(* A notice is not lost: a task is stamped only after its assignee has     *)
(* been notified, or was no user when the notice was due, wherever a run   *)
(* breaks off and whatever clients do to the task in the meantime - but for*)
(* a task whose stamps a client has written.                               *)
Reported(n) == sent[n] > 0 \/ n \in nobody
StampedMeansNotified ==
  \A t \in Tasks \ restamped :
    /\ task[t].overdueNotified => Reported(Notice("overdue", t, 0))
    /\ \A day \in Days : task[t].tomorrowNotifiedOn = day => Reported(Notice("tomorrow", t, day))

(* A notice is not repeated, as long as runs do not overlap, none fails and*)
(* no client writes the stamps: at most one overdue notice per task and one*)
(* reminder per task and day, also if a run goes on past midnight or the   *)
(* deadline is moved.                                                      *)
NotifiedOnce ==
  ~overlapped /\ faults = 0 => \A n \in Notices : n[2] \notin restamped => sent[n] <= 1

(* Both: no notice is lost, and none repeated without a reason.            *)
NoticesExact == StampedMeansNotified /\ NotifiedOnce

(* Every task that stays open and overdue is dealt with, although a query  *)
(* returns only part of the tasks in no particular order: tasks nobody can *)
(* be notified of do not crowd out the others.                             *)
Overdue(t) == ~task[t].completed /\ task[t].deadline < today
EveryOverdueHandled ==
  \A t \in Tasks : Overdue(t) ~> (task[t].overdueNotified \/ ~Overdue(t))
=============================================================================
