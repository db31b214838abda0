-------------------------- MODULE BackOfficeProofs --------------------------
(***************************************************************************)
(* What goes on behind the requests: that no deadline notice is lost and   *)
(* none repeated without a reason, and what follows a product - the lines  *)
(* of its documents, the clock of an item and the order of the list the    *)
(* clock is for. The parts share no state; each has its own specification. *)
(***************************************************************************)
EXTENDS DeadlineJob, ProductLines, StockDuration, TLAPS

-----------------------------------------------------------------------------
(* The operators of the model.                                             *)

\* A query returns some of the tasks it asks for.
LEMMA LimitedIsPart ==
  ASSUME NEW S, NEW batch \in Limited(S)
  PROVE  batch \subseteq S
BY DEF Limited, kSubset

LEMMA DueIsTasks ==
  ASSUME NEW phase, NEW date
  PROVE  Due(phase, date) \subseteq Tasks
BY DEF Due

LEMMA NoticeType ==
  ASSUME NEW phase \in Phases, NEW t \in Tasks, NEW date \in Days
  PROVE  Notice(phase, t, date) \in Notices
BY DEF Notice, Notices, Phases

\* Two notices are the same only if they tell the same.
LEMMA NoticesDiffer ==
  ASSUME NEW f \in Phases, NEW g \in Phases, NEW t, NEW u, NEW d, NEW e
  PROVE  Notice(f, t, d) = Notice(g, u, e) <=> f = g /\ t = u /\ (f = "tomorrow" => d = e)
BY DEF Notice, Phases

LEMMA IdleType == Idle \in RunType /\ Idle.pc = "idle" /\ Idle.today = 0 /\ Idle.batch = {} /\ Idle.current = {}
BY DeadlineAssumption DEF Idle, RunType, Phases, Days

\* How a run goes on: with its batch, with the second query, or not at all.
Loops(new, r, batch) ==
  /\ batch # {}
  /\ new.pc = "notify" /\ new.phase = r.phase /\ new.today = r.today
  /\ new.batch = batch /\ new.current = {}
Turns(new, r, batch) ==
  /\ batch = {} /\ r.phase = "overdue"
  /\ new.pc = "find" /\ new.phase = "tomorrow" /\ new.today = r.today
  /\ new.batch = {} /\ new.current = {}

LEMMA Continued ==
  ASSUME run \in [Jobs -> RunType], NEW j \in Jobs, NEW r \in RunType, NEW batch \in SUBSET Tasks,
         Continue(j, r, batch)
  PROVE  /\ run' \in [Jobs -> RunType]
         /\ \A i \in Jobs \ {j} : run'[i] = run[i]
         /\ Loops(run'[j], r, batch) \/ Turns(run'[j], r, batch) \/ run'[j] = Idle
<1>1. CASE batch # {}
  <2> DEFINE new == [r EXCEPT !.pc = "notify", !.batch = batch, !.current = {}]
  <2>1. new \in RunType /\ Loops(new, r, batch)
    BY <1>1 DEF RunType, Loops
  <2>2. run' = [run EXCEPT ![j] = new]
    BY <1>1 DEF Continue
  <2> HIDE DEF new
  <2> QED
    BY <2>1, <2>2
<1>2. CASE batch = {} /\ r.phase = "overdue"
  <2> DEFINE new == [Idle EXCEPT !.pc = "find", !.phase = "tomorrow", !.today = r.today]
  <2>1. new \in RunType /\ Turns(new, r, batch)
    BY <1>2 DEF RunType, Turns, Idle, Phases
  <2>2. run' = [run EXCEPT ![j] = new]
    BY <1>2 DEF Continue
  <2> HIDE DEF new
  <2> QED
    BY <2>1, <2>2
<1>3. CASE batch = {} /\ r.phase # "overdue"
  <2>1. run' = [run EXCEPT ![j] = Idle]
    BY <1>3 DEF Continue
  <2> QED
    BY <2>1, IdleType
<1> QED
  BY <1>1, <1>2, <1>3

LEMMA DeliverType ==
  ASSUME sent \in [Notices -> Sent], nobody \subseteq Notices, run \in [Jobs -> RunType],
         NEW j \in Jobs, NEW t \in Tasks, Deliver(j, t)
  PROVE  /\ sent' \in [Notices -> Sent] /\ nobody' \subseteq Notices
         /\ \A n \in Notices : Reported(n) => Reported(n)'
         /\ \A n \in Notices : n # Notice(run[j].phase, t, run[j].today) => sent'[n] = sent[n]
         /\ \A n \in Notices : n = Notice(run[j].phase, t, run[j].today) =>
              Reported(n)' /\ (sent[n] = 0 => sent'[n] <= 1)
<1>6. Notice(run[j].phase, t, run[j].today) \in Notices
  BY NoticeType DEF RunType
<1>7. PICK n \in Notices : n = Notice(run[j].phase, t, run[j].today)
  BY <1>6
<1>1. sent[n] \in Sent
  OBVIOUS
<1>2. \/ sent' = [sent EXCEPT ![n] = More(sent[n])] /\ nobody' = nobody \ {n}
      \/ nobody' = (IF sent[n] = 0 THEN nobody \cup {n} ELSE nobody) /\ UNCHANGED sent
  BY <1>7 DEF Deliver
<1>3. /\ More(sent[n]) \in Sent /\ More(sent[n]) > 0
      /\ sent[n] = 0 => More(sent[n]) <= 1
  BY <1>1 DEF More, Sent
<1>4. CASE sent' = [sent EXCEPT ![n] = More(sent[n])] /\ nobody' = nobody \ {n}
  <2>1. sent'[n] = More(sent[n]) /\ \A m \in Notices \ {n} : sent'[m] = sent[m]
    BY <1>1, <1>4
  <2>2. \A m \in Notices : Reported(m) => Reported(m)'
    BY <1>3, <1>4, <2>1 DEF Reported
  <2>3. sent' \in [Notices -> Sent] /\ nobody' \subseteq Notices
    BY <1>1, <1>3, <1>4
  <2> QED
    BY <1>1, <1>3, <1>7, <2>1, <2>2, <2>3 DEF Reported
<1>5. CASE nobody' = (IF sent[n] = 0 THEN nobody \cup {n} ELSE nobody) /\ UNCHANGED sent
  <2>1. sent[n] = 0 \/ sent[n] > 0
    BY <1>1 DEF Sent
  <2>2. sent' \in [Notices -> Sent] /\ nobody' \subseteq Notices /\ nobody \subseteq nobody'
    BY <1>1, <1>5
  <2>3. Reported(n)' /\ (\A m \in Notices : Reported(m) => Reported(m)')
    BY <1>1, <1>5, <2>1, <2>2 DEF Reported
  <2>4. sent[n] = 0 => sent'[n] <= 1
    BY <1>1, <1>5
  <2> QED
    BY <1>5, <1>7, <2>2, <2>3, <2>4
<1> QED
  BY <1>2, <1>4, <1>5

LEMMA StampedType ==
  ASSUME task \in [Tasks -> TaskType], NEW t \in Tasks, NEW phase \in Phases, NEW date \in Days,
         task' = [task EXCEPT ![t] = Stamped(t, phase, date)]
  PROVE  /\ task' \in [Tasks -> TaskType]
         /\ \A u \in Tasks \ {t} : task'[u] = task[u]
         /\ phase = "overdue" => task'[t].overdueNotified /\ task'[t].tomorrowNotifiedOn = task[t].tomorrowNotifiedOn
         /\ phase = "tomorrow" => /\ task'[t].overdueNotified = task[t].overdueNotified
                                  /\ task'[t].tomorrowNotifiedOn = date
<1>1. task[t] \in TaskType
  OBVIOUS
<1>2. Stamped(t, phase, date) \in TaskType
  BY <1>1 DEF Stamped, TaskType, Phases
<1>3. task'[t] = Stamped(t, phase, date) /\ \A u \in Tasks \ {t} : task'[u] = task[u]
  OBVIOUS
<1>4. task' \in [Tasks -> TaskType]
  BY <1>2, <1>3
<1> QED
  BY <1>1, <1>3, <1>4 DEF Stamped, TaskType, Phases

\* A run that has notified one task of its batch is about to stamp it.
LEMMA NotifyingRun ==
  ASSUME run \in [Jobs -> RunType], NEW j \in Jobs, NEW t,
         run' = [run EXCEPT ![j].pc = "stamp", ![j].current = {t}]
  PROVE  run' = [run EXCEPT ![j] = [run[j] EXCEPT !.pc = "stamp", !.current = {t}]]
<1> DEFINE half == [run EXCEPT ![j].pc = "stamp"]
<1>1. run' = [half EXCEPT ![j].current = {t}]
  OBVIOUS
<1>2. half = [run EXCEPT ![j] = [run[j] EXCEPT !.pc = "stamp"]]
  OBVIOUS
<1>3. half[j] = [run[j] EXCEPT !.pc = "stamp"]
  BY <1>2
<1>4. run' = [half EXCEPT ![j] = [half[j] EXCEPT !.current = {t}]]
  BY <1>1
<1> HIDE DEF half
<1> QED
  BY <1>2, <1>3, <1>4

\* Changing the status or the deadline does not touch the stamps.
LEMMA EditKeepsStamps ==
  ASSUME task \in [Tasks -> TaskType], NEW t \in Tasks, SetStatus(t) \/ Reschedule(t)
  PROVE  /\ task' \in [Tasks -> TaskType]
         /\ \A u \in Tasks : /\ task'[u].overdueNotified = task[u].overdueNotified
                             /\ task'[u].tomorrowNotifiedOn = task[u].tomorrowNotifiedOn
<1>1. task[t] \in TaskType
  OBVIOUS
<1>2. PICK c \in BOOLEAN, d \in 0..(MaxDay + 1) :
        task' = [task EXCEPT ![t] = [completed |-> c, deadline |-> d, overdueNotified |-> task[t].overdueNotified,
                                     tomorrowNotifiedOn |-> task[t].tomorrowNotifiedOn]]
  <2>1. CASE SetStatus(t)
    <3>1. [task[t] EXCEPT !.completed = ~task[t].completed]
            = [completed |-> ~task[t].completed, deadline |-> task[t].deadline, overdueNotified |-> task[t].overdueNotified,
               tomorrowNotifiedOn |-> task[t].tomorrowNotifiedOn]
      BY <1>1 DEF TaskType
    <3>2. task' = [task EXCEPT ![t] = [task[t] EXCEPT !.completed = ~task[t].completed]]
      BY <2>1 DEF SetStatus
    <3> QED
      BY <1>1, <3>1, <3>2 DEF TaskType
  <2>2. CASE Reschedule(t)
    <3>1. PICK d \in 0..(MaxDay + 1) : task' = [task EXCEPT ![t].deadline = d]
      BY <2>2 DEF Reschedule
    <3>2. [task[t] EXCEPT !.deadline = d]
            = [completed |-> task[t].completed, deadline |-> d, overdueNotified |-> task[t].overdueNotified,
               tomorrowNotifiedOn |-> task[t].tomorrowNotifiedOn]
      BY <1>1 DEF TaskType
    <3>3. task' = [task EXCEPT ![t] = [task[t] EXCEPT !.deadline = d]]
      BY <3>1
    <3> QED
      BY <1>1, <3>2, <3>3 DEF TaskType
  <2> QED
    BY <2>1, <2>2
<1> QED
  BY <1>1, <1>2 DEF TaskType

\* A client writes the stamps of one task.
LEMMA PutStampsType ==
  ASSUME task \in [Tasks -> TaskType], today \in Days, NEW t \in Tasks, PutStamps(t)
  PROVE  /\ task' \in [Tasks -> TaskType]
         /\ task'[t].tomorrowNotifiedOn \in (0..today) \cup {Never}
         /\ \A u \in Tasks \ {t} : task'[u] = task[u]
<1>1. PICK o \in BOOLEAN, d \in (0..today) \cup {Never} :
        task' = [task EXCEPT ![t].overdueNotified = o, ![t].tomorrowNotifiedOn = d]
  BY DEF PutStamps
<1>2. d \in Days \cup {Never}
  BY DeadlineAssumption DEF Days
<1> DEFINE half == [task EXCEPT ![t].overdueNotified = o]
<1>3. half = [task EXCEPT ![t] = [task[t] EXCEPT !.overdueNotified = o]]
  OBVIOUS
<1>4. [task[t] EXCEPT !.overdueNotified = o] \in TaskType
  BY DEF TaskType
<1>5. half \in [Tasks -> TaskType] /\ \A u \in Tasks \ {t} : half[u] = task[u]
  <2> HIDE DEF half
  <2> QED
    BY <1>3, <1>4
<1>6. task' = [half EXCEPT ![t].tomorrowNotifiedOn = d]
  BY <1>1
<1> HIDE DEF half
<1>7. task' = [half EXCEPT ![t] = [half[t] EXCEPT !.tomorrowNotifiedOn = d]]
  BY <1>6
<1>8. [half[t] EXCEPT !.tomorrowNotifiedOn = d] \in TaskType /\ [half[t] EXCEPT !.tomorrowNotifiedOn = d].tomorrowNotifiedOn = d
  <2>1. half[t] \in TaskType
    BY <1>5
  <2> QED
    BY <1>2, <2>1 DEF TaskType
<1> QED
  BY <1>5, <1>7, <1>8

-----------------------------------------------------------------------------
(* No notice is lost.                                                      *)

\* A run works with a date that has come, and has told the assignee of the
\* task it is about to stamp, if there is one.
RunSound(j) ==
  /\ run[j].today <= today
  /\ run[j].pc = "find" => run[j].phase = "tomorrow"
  /\ run[j].pc = "stamp" =>
       \E t \in run[j].batch :
         /\ run[j].current = {t}
         /\ Reported(Notice(run[j].phase, t, run[j].today))
ToldInv == DeadlineTypeOK /\ (\A j \in Jobs : RunSound(j)) /\ StampedMeansNotified

\* A run that did nothing yet, or has just turned to its next task.
LEMMA TurningIsSound ==
  ASSUME ToldInv, NEW j \in Jobs, NEW r \in RunType, NEW batch \in SUBSET Tasks, Continue(j, r, batch),
         r.today <= today, UNCHANGED <<today, sent, nobody>>
  PROVE  run' \in [Jobs -> RunType] /\ \A i \in Jobs : RunSound(i)'
<1>1. run \in [Jobs -> RunType] /\ today \in Nat
  BY DeadlineAssumption DEF ToldInv, DeadlineTypeOK, Days
<1>2. /\ run' \in [Jobs -> RunType]
      /\ \A i \in Jobs \ {j} : run'[i] = run[i]
      /\ Loops(run'[j], r, batch) \/ Turns(run'[j], r, batch) \/ run'[j] = Idle
  BY <1>1, Continued
<1>3. RunSound(j)'
  BY <1>1, <1>2, IdleType DEF RunSound, Loops, Turns
<1>4. ASSUME NEW i \in Jobs \ {j}
      PROVE  RunSound(i)'
  BY <1>2 DEF RunSound, ToldInv, Reported
<1> QED
  BY <1>2, <1>3, <1>4

LEMMA ToldStep == ToldInv /\ [DeadlineNext]_deadlineVars => ToldInv'
<1> SUFFICES ASSUME ToldInv, [DeadlineNext]_deadlineVars
             PROVE  ToldInv'
  OBVIOUS
<1>1. /\ today \in Days /\ Days \subseteq Nat
      /\ \A t \in Tasks : task[t].tomorrowNotifiedOn \in (0..today) \cup {Never}
      /\ task \in [Tasks -> TaskType]
      /\ run \in [Jobs -> RunType]
      /\ sent \in [Notices -> Sent] /\ nobody \subseteq Notices /\ restamped \subseteq Tasks
      /\ overlapped \in BOOLEAN
      /\ faults \in 0..MaxFaults
      /\ \A j \in Jobs : RunSound(j)
      /\ StampedMeansNotified
  BY DeadlineAssumption DEF ToldInv, DeadlineTypeOK, Days
<1>2. ASSUME NEW j \in Jobs, Start(j)
      PROVE  ToldInv'
  <2>1. PICK batch \in Limited(Due("overdue", today)) : Continue(j, [Idle EXCEPT !.today = today], batch)
    BY <1>2 DEF Start
  <2> DEFINE r == [Idle EXCEPT !.today = today]
  <2>2. r \in RunType /\ r.today = today
    BY <1>1 DEF Idle, RunType, Phases
  <2>3. batch \in SUBSET Tasks
    BY LimitedIsPart, DueIsTasks
  <2>4. UNCHANGED <<today, task, sent, nobody, restamped, faults>> /\ overlapped' \in BOOLEAN /\ Continue(j, r, batch)
    BY <1>1, <1>2, <2>1 DEF Start
  <2>5. r.today <= today
    BY <1>1, <2>2
  <2> HIDE DEF r
  <2>6. run' \in [Jobs -> RunType] /\ \A i \in Jobs : RunSound(i)'
    BY <2>2, <2>3, <2>4, <2>5, TurningIsSound
  <2> QED
    BY <1>1, <2>4, <2>6 DEF ToldInv, DeadlineTypeOK, StampedMeansNotified, Reported
<1>3. ASSUME NEW j \in Jobs, FindTomorrow(j)
      PROVE  ToldInv'
  <2>1. PICK batch \in Limited(Due("tomorrow", run[j].today)) : Continue(j, run[j], batch)
    BY <1>3 DEF FindTomorrow
  <2>2. batch \in SUBSET Tasks
    BY LimitedIsPart, DueIsTasks
  <2>3. UNCHANGED <<today, task, sent, nobody, restamped, overlapped, faults>>
    BY <1>3 DEF FindTomorrow
  <2>4. run[j] \in RunType /\ run[j].today <= today
    BY <1>1 DEF RunSound
  <2>5. run' \in [Jobs -> RunType] /\ \A i \in Jobs : RunSound(i)'
    BY <2>1, <2>2, <2>3, <2>4, TurningIsSound
  <2> QED
    BY <1>1, <2>3, <2>5 DEF ToldInv, DeadlineTypeOK, StampedMeansNotified, Reported
<1>4. ASSUME NEW j \in Jobs, Notify(j)
      PROVE  ToldInv'
  <2>1. PICK t \in run[j].batch : /\ Deliver(j, t)
                                  /\ run' = [run EXCEPT ![j].pc = "stamp", ![j].current = {t}]
    BY <1>4 DEF Notify
  <2>2. t \in Tasks /\ run[j] \in RunType /\ run[j].phase \in Phases /\ run[j].today \in Days
    BY <1>1, <2>1 DEF RunType
  <2>3. UNCHANGED <<today, task, restamped, overlapped, faults>>
    BY <1>4 DEF Notify
  <2>4. /\ sent' \in [Notices -> Sent] /\ nobody' \subseteq Notices
        /\ \A n \in Notices : Reported(n) => Reported(n)'
        /\ \A n \in Notices : n = Notice(run[j].phase, t, run[j].today) => Reported(n)'
    BY <1>1, <2>1, <2>2, DeliverType
  <2>5. ASSUME NEW n \in Notices, Reported(n)
        PROVE  Reported(n)'
    BY <2>4, <2>5
  <2> DEFINE new == [run[j] EXCEPT !.pc = "stamp", !.current = {t}]
  <2>6. /\ new \in RunType /\ new.pc = "stamp" /\ new.current = {t} /\ new.batch = run[j].batch
        /\ new.phase = run[j].phase /\ new.today = run[j].today
    BY <2>2 DEF RunType
  <2>7. run' = [run EXCEPT ![j] = new]
    BY <1>1, <2>1, NotifyingRun
  <2> HIDE DEF new
  <2>8. run' \in [Jobs -> RunType] /\ run'[j] = new /\ \A i \in Jobs \ {j} : run'[i] = run[i]
    BY <1>1, <2>6, <2>7
  <2>9. RunSound(j)'
    <3>1. PICK n \in Notices : n = Notice(run[j].phase, t, run[j].today)
      BY <2>2, NoticeType
    <3>2. Reported(n)'
      BY <2>4, <3>1
    <3>3. n = Notice(run'[j].phase, t, run'[j].today)
      BY <2>6, <2>8, <3>1
    <3> QED
      BY <1>1, <2>1, <2>3, <2>6, <2>8, <3>2, <3>3 DEF RunSound, Reported
  <2>10. ASSUME NEW i \in Jobs \ {j}
         PROVE  RunSound(i)'
    <3>1. ASSUME NEW u \in run[i].batch, Reported(Notice(run[i].phase, u, run[i].today))
          PROVE  Reported(Notice(run[i].phase, u, run[i].today))'
      <4>1. Notice(run[i].phase, u, run[i].today) \in Notices
        BY <1>1, NoticeType DEF RunType
      <4>2. Reported(Notice(run[i].phase, u, run[i].today)) => Reported(Notice(run[i].phase, u, run[i].today))'
        BY <2>8, <4>1, <2>5 DEF Reported
      <4> QED
        BY <3>1, <4>2
    <3> QED
      BY <1>1, <2>3, <2>8, <3>1 DEF RunSound, Reported
  <2>11. StampedMeansNotified'
    <3>1. \A u \in Tasks, date \in Days : Notice("overdue", u, 0) \in Notices /\ Notice("tomorrow", u, date) \in Notices
      BY <1>1, NoticeType, DeadlineAssumption DEF Phases, Days
    <3> QED
      BY <1>1, <2>3, <2>5, <3>1 DEF StampedMeansNotified, Reported
  <2> QED
    BY <1>1, <2>3, <2>4, <2>8, <2>9, <2>10, <2>11 DEF ToldInv, DeadlineTypeOK
<1>5. ASSUME NEW j \in Jobs, Stamp(j)
      PROVE  ToldInv'
  <2>1. PICK t \in run[j].current :
          /\ task' = [task EXCEPT ![t] = Stamped(t, run[j].phase, run[j].today)]
          /\ Continue(j, run[j], run[j].batch \ {t})
    BY <1>5 DEF Stamp
  <2>2. /\ t \in Tasks /\ run[j] \in RunType /\ run[j].phase \in Phases /\ run[j].today \in Days
        /\ run[j].today <= today /\ run[j].batch \ {t} \in SUBSET Tasks
    BY <1>1, <2>1 DEF RunType, RunSound
  <2>3. Reported(Notice(run[j].phase, t, run[j].today))
    BY <1>1, <1>5, <2>1 DEF RunSound, Stamp
  <2>4. UNCHANGED <<today, sent, nobody, restamped, overlapped, faults>>
    BY <1>5 DEF Stamp
  <2>5. /\ task' \in [Tasks -> TaskType]
        /\ \A u \in Tasks \ {t} : task'[u] = task[u]
        /\ run[j].phase = "overdue" => task'[t].overdueNotified /\ task'[t].tomorrowNotifiedOn = task[t].tomorrowNotifiedOn
        /\ run[j].phase = "tomorrow" => /\ task'[t].overdueNotified = task[t].overdueNotified
                                        /\ task'[t].tomorrowNotifiedOn = run[j].today
    <3>1. PICK phase \in Phases, date \in Days : phase = run[j].phase /\ date = run[j].today
      BY <2>2
    <3>2. task' = [task EXCEPT ![t] = Stamped(t, phase, date)]
      BY <2>1, <3>1
    <3>3. /\ task' \in [Tasks -> TaskType]
          /\ \A u \in Tasks \ {t} : task'[u] = task[u]
          /\ phase = "overdue" => task'[t].overdueNotified /\ task'[t].tomorrowNotifiedOn = task[t].tomorrowNotifiedOn
          /\ phase = "tomorrow" => /\ task'[t].overdueNotified = task[t].overdueNotified
                                   /\ task'[t].tomorrowNotifiedOn = date
      BY ZenonT(60), <1>1, <2>2, <3>2, StampedType
    <3> QED
      BY <3>1, <3>3
  <2>6. run' \in [Jobs -> RunType] /\ \A i \in Jobs : RunSound(i)'
    BY <2>1, <2>2, <2>4, TurningIsSound
  <2>7. \A u \in Tasks : task'[u].tomorrowNotifiedOn \in (0..today) \cup {Never}
    BY <1>1, <2>2, <2>5 DEF Phases, Days
  <2>8. ASSUME NEW u \in Tasks \ restamped, task'[u].overdueNotified
        PROVE  Reported(Notice("overdue", u, 0))
    <3>1. CASE task[u].overdueNotified
      BY <1>1, <3>1 DEF StampedMeansNotified
    <3>2. CASE ~task[u].overdueNotified
      <4>1. u = t /\ run[j].phase = "overdue"
        BY <2>2, <2>5, <2>8, <3>2, DeadlineAssumption DEF Phases
      <4> QED
        BY <2>3, <4>1 DEF Notice
    <3> QED
      BY <3>1, <3>2
  <2>9. ASSUME NEW u \in Tasks \ restamped, NEW date \in Days, task'[u].tomorrowNotifiedOn = date
        PROVE  Reported(Notice("tomorrow", u, date))
    <3>1. CASE task[u].tomorrowNotifiedOn = date
      BY <1>1, <3>1 DEF StampedMeansNotified
    <3>2. CASE task[u].tomorrowNotifiedOn # date
      <4>1. u = t /\ run[j].phase = "tomorrow" /\ run[j].today = date
        BY <2>2, <2>5, <2>9, <3>2, DeadlineAssumption DEF Phases
      <4> QED
        BY <2>3, <4>1 DEF Notice
    <3> QED
      BY <3>1, <3>2
  <2>10. StampedMeansNotified'
    BY <2>4, <2>8, <2>9 DEF StampedMeansNotified, Reported
  <2> QED
    BY <1>1, <2>4, <2>5, <2>6, <2>7, <2>10 DEF ToldInv, DeadlineTypeOK
<1>6. ASSUME NEW j \in Jobs, RunFails(j)
      PROVE  ToldInv'
  <2>1. run' = [run EXCEPT ![j] = Idle] /\ UNCHANGED <<today, task, sent, nobody, restamped, overlapped>>
    BY <1>6 DEF RunFails
  <2>2. faults' \in 0..MaxFaults
    BY <1>1, <1>6, DeadlineAssumption DEF RunFails
  <2>3. run' \in [Jobs -> RunType] /\ \A i \in Jobs : RunSound(i)'
    BY <1>1, <2>1, IdleType DEF RunSound, Reported
  <2> QED
    BY <1>1, <2>1, <2>2, <2>3 DEF ToldInv, DeadlineTypeOK, StampedMeansNotified, Reported
<1>7. ASSUME Crash
      PROVE  ToldInv'
  <2>1. run' = [j \in Jobs |-> Idle] /\ UNCHANGED <<today, task, sent, nobody, restamped, overlapped>>
    BY <1>7 DEF Crash
  <2>2. faults' \in 0..MaxFaults
    BY <1>1, <1>7, DeadlineAssumption DEF Crash
  <2>3. run' \in [Jobs -> RunType] /\ \A i \in Jobs : RunSound(i)'
    BY <1>1, <2>1, IdleType DEF RunSound, Reported
  <2> QED
    BY <1>1, <2>1, <2>2, <2>3 DEF ToldInv, DeadlineTypeOK, StampedMeansNotified, Reported
<1>8. ASSUME NEW t \in Tasks, SetStatus(t) \/ Reschedule(t)
      PROVE  ToldInv'
  <2>1. UNCHANGED <<today, run, sent, nobody, restamped, overlapped, faults>>
    BY <1>8 DEF SetStatus, Reschedule
  <2>2. /\ task' \in [Tasks -> TaskType]
        /\ \A u \in Tasks : /\ task'[u].overdueNotified = task[u].overdueNotified
                            /\ task'[u].tomorrowNotifiedOn = task[u].tomorrowNotifiedOn
    BY <1>1, <1>8, EditKeepsStamps
  <2>3. \A i \in Jobs : RunSound(i)'
    BY <1>1, <2>1 DEF RunSound, Reported
  <2> QED
    BY <1>1, <2>1, <2>2, <2>3, DeadlineAssumption DEF ToldInv, DeadlineTypeOK, StampedMeansNotified, Reported
<1>11. ASSUME NEW t \in Tasks, PutStamps(t)
       PROVE  ToldInv'
  <2>1. UNCHANGED <<today, run, sent, nobody, overlapped, faults>> /\ restamped' = restamped \cup {t}
    BY <1>11 DEF PutStamps
  <2>2. /\ task' \in [Tasks -> TaskType]
        /\ task'[t].tomorrowNotifiedOn \in (0..today) \cup {Never}
        /\ \A u \in Tasks \ {t} : task'[u] = task[u]
    BY <1>1, <1>11, PutStampsType
  <2>3. \A i \in Jobs : RunSound(i)'
    BY <1>1, <2>1 DEF RunSound, Reported
  <2>4. StampedMeansNotified'
    BY <1>1, <2>1, <2>2 DEF StampedMeansNotified, Reported
  <2>5. \A u \in Tasks : task'[u].tomorrowNotifiedOn \in (0..today) \cup {Never}
    BY <1>1, <2>2
  <2> QED
    BY <1>1, <2>1, <2>2, <2>3, <2>4, <2>5 DEF ToldInv, DeadlineTypeOK
<1>9. ASSUME NextDay
      PROVE  ToldInv'
  <2>1. today' = today + 1 /\ today' \in Days /\ UNCHANGED <<task, run, sent, nobody, restamped, overlapped, faults>>
    BY <1>1, <1>9, DeadlineAssumption DEF NextDay, Days
  <2>2. \A t \in Tasks : task'[t].tomorrowNotifiedOn \in (0..today') \cup {Never}
    BY <1>1, <2>1 DEF Days
  <2>3. \A i \in Jobs : RunSound(i)'
    BY <1>1, <2>1 DEF RunSound, Reported, RunType, Days
  <2> QED
    BY <1>1, <2>1, <2>2, <2>3 DEF ToldInv, DeadlineTypeOK, StampedMeansNotified, Reported
<1>10. CASE UNCHANGED deadlineVars
  <2>1. UNCHANGED <<today, task, run, sent, nobody, restamped, overlapped, faults>>
    BY <1>10 DEF deadlineVars
  <2>2. \A i \in Jobs : RunSound(i)'
    BY <1>1, <2>1 DEF RunSound, Reported
  <2> QED
    BY <1>1, <2>1, <2>2 DEF ToldInv, DeadlineTypeOK, StampedMeansNotified, Reported
<1> QED
  BY <1>2, <1>3, <1>4, <1>5, <1>6, <1>7, <1>8, <1>9, <1>10, <1>11, DeadlineAssumption DEF DeadlineNext, Job

LEMMA ToldInitial == DeadlineInit => ToldInv
<1> SUFFICES ASSUME DeadlineInit
             PROVE  ToldInv
  OBVIOUS
<1>1. PICK deadline \in [Tasks -> 0..(MaxDay + 1)] :
        task = [t \in Tasks |-> [completed |-> FALSE, deadline |-> deadline[t],
                                 overdueNotified |-> FALSE, tomorrowNotifiedOn |-> Never]]
  BY DEF DeadlineInit
<1>2. task \in [Tasks -> TaskType] /\ \A t \in Tasks : ~task[t].overdueNotified /\ task[t].tomorrowNotifiedOn = Never
  BY <1>1 DEF TaskType
<1>3. today = 0 /\ 0 \in Days /\ \A date \in Days : date # Never
  BY DeadlineAssumption DEF DeadlineInit, Days
<1>4. run \in [Jobs -> RunType] /\ \A j \in Jobs : RunSound(j)
  BY <1>3, IdleType DEF DeadlineInit, RunSound
<1>5. sent \in [Notices -> Sent] /\ overlapped \in BOOLEAN /\ nobody = {} /\ restamped = {}
  <2>1. nobody = {} /\ restamped = {} /\ sent = [n \in Notices |-> 0] /\ overlapped = FALSE /\ 0 \in Sent
    BY DEF DeadlineInit, Sent
  <2> QED
    BY <2>1
<1>6. faults \in 0..MaxFaults
  BY DeadlineAssumption DEF DeadlineInit
<1> QED
  BY <1>2, <1>3, <1>4, <1>5, <1>6, DeadlineAssumption DEF ToldInv, DeadlineTypeOK, StampedMeansNotified, Reported

(* The types of the state; a task is stamped with a date that has come.     *)
THEOREM DeadlineTypeOKThm == DeadlineSpec => []DeadlineTypeOK
<1>1. ToldInv => DeadlineTypeOK
  BY DEF ToldInv
<1> QED
  BY <1>1, ToldInitial, ToldStep, PTL DEF DeadlineSpec

-----------------------------------------------------------------------------
(* No notice is repeated without a reason.                                 *)

Undisturbed == ~overlapped /\ faults = 0
Clean == Tasks \ restamped
Single == \A n \in Notices : n[2] \notin restamped => sent[n] <= 1
Told(phase, t, date) == sent[Notice(phase, t, date)] > 0
\* What run j has yet to tell has not been told, and no later run stamped.
Later(j) == IF run[j].pc = "stamp" THEN run[j].batch \ run[j].current ELSE run[j].batch
Ahead(j) ==
  run[j].pc # "idle" =>
    /\ \A t \in Later(j) \ restamped : ~Told(run[j].phase, t, run[j].today)
    /\ \A t \in Clean : task[t].tomorrowNotifiedOn \in (0..run[j].today) \cup {Never}
\* What was told is stamped, with its date or a later one, or run j is about
\* to stamp it.
Stamping(j, phase, t) == run[j].pc = "stamp" /\ run[j].phase = phase /\ run[j].current = {t}
Behind(j) ==
  /\ \A t \in Clean : Told("overdue", t, 0) => task[t].overdueNotified \/ Stamping(j, "overdue", t)
  /\ \A t \in Clean, date \in Days : Told("tomorrow", t, date) =>
       \/ task[t].tomorrowNotifiedOn # Never /\ date <= task[t].tomorrowNotifiedOn
       \/ Stamping(j, "tomorrow", t) /\ run[j].today = date
OnceInv ==
  Undisturbed => /\ \A i, j \in Active : i = j
                 /\ \A j \in Jobs : Ahead(j)
                 /\ \A j \in Jobs : j \in Active \/ Active = {} => Behind(j)
                 /\ Single

\* It is enough to look at the run that took the step.
LEMMA OnceAfter ==
  ASSUME NEW j \in Jobs, \A i \in Jobs \ {j} : run'[i].pc = "idle",
         Ahead(j)', Behind(j)', Single'
  PROVE  OnceInv'
<1>1. Active' \subseteq {j}
  BY DEF Active
<1>2. \A i \in Jobs \ {j} : Ahead(i)'
  BY DEF Ahead
<1>3. \A i \in Jobs \ {j} : Active' = {} => Behind(i)'
  <2>1. \A i \in Jobs : Active' = {} => run'[i].pc = "idle"
    BY DEF Active
  <2> QED
    BY <2>1 DEF Behind, Stamping
<1> QED
  BY <1>1, <1>2, <1>3 DEF OnceInv

LEMMA OnceBefore ==
  ASSUME OnceInv, Undisturbed, NEW j \in Jobs, j \in Active \/ Active = {}
  PROVE  /\ \A i \in Jobs \ {j} : run[i].pc = "idle"
         /\ Ahead(j) /\ Behind(j) /\ Single
<1>1. /\ \A i, k \in Active : i = k
      /\ \A i \in Jobs : Ahead(i)
      /\ \A i \in Jobs : i \in Active \/ Active = {} => Behind(i)
      /\ Single
  BY DEF OnceInv
<1> QED
  BY <1>1 DEF Active

\* A run that goes on has told none of what is left of its batch.
LEMMA Proceeds ==
  ASSUME run \in [Jobs -> RunType], NEW j \in Jobs, NEW r \in RunType, NEW batch \in SUBSET Tasks,
         Continue(j, r, batch),
         \A i \in Jobs \ {j} : run[i].pc = "idle",
         \A t \in batch \ restamped : ~Told(r.phase, t, r.today),
         \A t \in Clean : task'[t].tomorrowNotifiedOn \in (0..r.today) \cup {Never},
         \A t \in Clean : Told("overdue", t, 0) => task'[t].overdueNotified,
         \A t \in Clean, date \in Days : Told("tomorrow", t, date) =>
           task'[t].tomorrowNotifiedOn # Never /\ date <= task'[t].tomorrowNotifiedOn,
         Single,
         UNCHANGED <<sent, restamped>>
  PROVE  OnceInv'
<1>1. /\ \A i \in Jobs \ {j} : run'[i] = run[i]
      /\ Loops(run'[j], r, batch) \/ Turns(run'[j], r, batch) \/ run'[j] = Idle
  BY Continued
<1>2. \A phase, t, date : Told(phase, t, date)' <=> Told(phase, t, date)
  BY DEF Told
<1>3. Ahead(j)'
  <2>1. CASE Loops(run'[j], r, batch)
    <3>1. /\ run'[j].phase = r.phase /\ run'[j].today = r.today
          /\ run'[j].batch = batch /\ run'[j].current = {}
      BY <2>1 DEF Loops
    <3>2. Later(j)' = batch
      BY <2>1 DEF Loops, Later
    <3> QED
      BY <3>1, <3>2 DEF Ahead, Told, Clean
  <2>2. CASE Turns(run'[j], r, batch)
    <3>1. run'[j].today = r.today /\ Later(j)' = {}
      BY <2>2 DEF Turns, Later
    <3> QED
      BY <3>1 DEF Ahead, Clean
  <2>3. CASE run'[j] = Idle
    BY <2>3, IdleType DEF Ahead
  <2> QED
    BY <1>1, <2>1, <2>2, <2>3
<1>4. Behind(j)'
  BY <1>2 DEF Behind, Told, Clean
<1> QED
  BY <1>1, <1>3, <1>4, OnceAfter DEF Single

LEMMA OnceStep == ToldInv /\ OnceInv /\ [DeadlineNext]_deadlineVars => OnceInv'
<1> SUFFICES ASSUME ToldInv, OnceInv, [DeadlineNext]_deadlineVars, Undisturbed'
             PROVE  OnceInv'
  BY DEF OnceInv
<1>1. /\ today \in Days /\ Days \subseteq Nat
      /\ \A t \in Tasks : task[t].tomorrowNotifiedOn \in (0..today) \cup {Never}
      /\ task \in [Tasks -> TaskType]
      /\ run \in [Jobs -> RunType]
      /\ sent \in [Notices -> Sent] /\ nobody \subseteq Notices /\ restamped \subseteq Tasks
      /\ overlapped \in BOOLEAN
      /\ faults \in Nat
      /\ \A j \in Jobs : RunSound(j)
  BY DeadlineAssumption DEF ToldInv, DeadlineTypeOK, Days
<1>2. ASSUME NEW j \in Jobs, Start(j)
      PROVE  OnceInv'
  <2>1. PICK batch \in Limited(Due("overdue", today)) : Continue(j, [Idle EXCEPT !.today = today], batch)
    BY <1>2 DEF Start
  <2> DEFINE r == [Idle EXCEPT !.today = today]
  <2>2. r \in RunType /\ r.phase = "overdue" /\ r.today = today /\ Continue(j, r, batch)
    BY <1>1, <2>1 DEF Idle, RunType, Phases
  <2> HIDE DEF r
  <2>3. batch \in SUBSET Tasks /\ \A t \in batch : ~task[t].overdueNotified
    <3>1. batch \subseteq Due("overdue", today)
      BY LimitedIsPart
    <3> QED
      BY <3>1 DEF Due
  <2>4. UNCHANGED <<task, sent, restamped, faults>> /\ Undisturbed /\ Active = {}
    BY <1>1, <1>2 DEF Start, Undisturbed
  <2>5. /\ \A i \in Jobs : run[i].pc = "idle"
        /\ Behind(j) /\ Single
    BY <2>4, OnceBefore DEF Active
  <2>6. /\ \A t \in Clean : Told("overdue", t, 0) => task[t].overdueNotified
        /\ \A t \in Clean, date \in Days : Told("tomorrow", t, date) =>
             task[t].tomorrowNotifiedOn # Never /\ date <= task[t].tomorrowNotifiedOn
    BY <2>5 DEF Behind, Stamping
  <2>7. \A t \in batch \ restamped : ~Told(r.phase, t, r.today)
    BY <2>2, <2>3, <2>6 DEF Told, Notice, Clean
  <2>8. \A t \in Clean : task[t].tomorrowNotifiedOn \in (0..r.today) \cup {Never}
    BY <1>1, <2>2 DEF Clean
  <2> QED
    BY <1>1, <2>2, <2>3, <2>4, <2>5, <2>6, <2>7, <2>8, Proceeds
<1>3. ASSUME NEW j \in Jobs, FindTomorrow(j)
      PROVE  OnceInv'
  <2>1. PICK batch \in Limited(Due("tomorrow", run[j].today)) : Continue(j, run[j], batch)
    BY <1>3 DEF FindTomorrow
  <2>2. run[j] \in RunType /\ run[j].phase = "tomorrow" /\ run[j].pc = "find" /\ run[j].today \in Days
    BY <1>1, <1>3 DEF FindTomorrow, RunSound, RunType
  <2>3. batch \in SUBSET Tasks /\ \A t \in batch : task[t].tomorrowNotifiedOn # run[j].today
    <3>1. batch \subseteq Due("tomorrow", run[j].today)
      BY LimitedIsPart
    <3> QED
      BY <3>1 DEF Due
  <2>4. UNCHANGED <<task, sent, restamped, overlapped, faults>> /\ Undisturbed /\ j \in Active
    BY <1>3, <2>2 DEF FindTomorrow, Undisturbed, Active
  <2>5. /\ \A i \in Jobs \ {j} : run[i].pc = "idle"
        /\ Ahead(j) /\ Behind(j) /\ Single
    BY <2>4, OnceBefore
  <2>6. /\ \A t \in Clean : Told("overdue", t, 0) => task[t].overdueNotified
        /\ \A t \in Clean, date \in Days : Told("tomorrow", t, date) =>
             task[t].tomorrowNotifiedOn # Never /\ date <= task[t].tomorrowNotifiedOn
    BY <2>2, <2>5 DEF Behind, Stamping
  <2>7. \A t \in Clean : task[t].tomorrowNotifiedOn \in (0..run[j].today) \cup {Never}
    BY <2>2, <2>5 DEF Ahead
  <2>8. \A t \in batch \ restamped : ~Told(run[j].phase, t, run[j].today)
    <3>1. ASSUME NEW t \in batch \ restamped, Told("tomorrow", t, run[j].today)
          PROVE  FALSE
      <4>1. t \in Clean /\ task[t].tomorrowNotifiedOn # Never /\ run[j].today <= task[t].tomorrowNotifiedOn
        BY <2>2, <2>3, <2>6, <3>1 DEF Clean
      <4>2. task[t].tomorrowNotifiedOn \in 0..run[j].today
        BY <2>7, <4>1
      <4>3. run[j].today \in Nat /\ task[t].tomorrowNotifiedOn # run[j].today
        BY <1>1, <2>2, <2>3
      <4>4. \A a, b \in Nat : a \in 0..b /\ b <= a => a = b
        OBVIOUS
      <4> QED
        BY <4>1, <4>2, <4>3, <4>4
    <3> QED
      BY <2>2, <3>1
  <2> QED
    BY <1>1, <2>1, <2>2, <2>3, <2>4, <2>5, <2>6, <2>7, <2>8, Proceeds
<1>4. ASSUME NEW j \in Jobs, Notify(j)
      PROVE  OnceInv'
  <2>1. PICK t \in run[j].batch : /\ Deliver(j, t)
                                  /\ run' = [run EXCEPT ![j].pc = "stamp", ![j].current = {t}]
    BY <1>4 DEF Notify
  <2>2. PICK phase \in Phases, date \in Days : phase = run[j].phase /\ date = run[j].today
    BY <1>1 DEF RunType
  <2>3. t \in Tasks /\ run[j] \in RunType /\ run[j].pc = "notify"
    BY <1>1, <1>4, <2>1 DEF RunType, Notify
  <2>4. UNCHANGED <<task, restamped, overlapped, faults>> /\ Undisturbed /\ j \in Active
    BY <1>4, <2>3 DEF Notify, Undisturbed, Active
  <2>5. /\ \A i \in Jobs \ {j} : run[i].pc = "idle"
        /\ Ahead(j) /\ Behind(j) /\ Single
    BY <2>4, OnceBefore
  <2>6. /\ \A u \in run[j].batch \ restamped : ~Told(phase, u, date)
        /\ \A u \in Clean : task[u].tomorrowNotifiedOn \in (0..date) \cup {Never}
    BY <2>2, <2>3, <2>5 DEF Ahead, Later
  <2>7. /\ \A u \in Clean : Told("overdue", u, 0) => task[u].overdueNotified
        /\ \A u \in Clean, e \in Days : Told("tomorrow", u, e) =>
             task[u].tomorrowNotifiedOn # Never /\ e <= task[u].tomorrowNotifiedOn
    BY <2>3, <2>5 DEF Behind, Stamping
  <2> DEFINE new == [run[j] EXCEPT !.pc = "stamp", !.current = {t}]
  <2>8. /\ new.pc = "stamp" /\ new.current = {t} /\ new.batch = run[j].batch
        /\ new.phase = phase /\ new.today = date
    BY <2>2, <2>3 DEF RunType
  <2>9. run' = [run EXCEPT ![j] = new]
    BY <1>1, <2>1, NotifyingRun
  <2> HIDE DEF new
  <2>10. run'[j] = new /\ \A i \in Jobs \ {j} : run'[i].pc = "idle"
    BY <1>1, <2>5, <2>9
  <2> DEFINE told == Notice(phase, t, date)
  <2>11. told \in Notices /\ told[2] = t /\ (t \notin restamped => sent[told] = 0)
    <3>1. told \in Notices
      BY <2>2, <2>3, NoticeType
    <3>2. sent[told] \in Sent /\ (t \notin restamped => ~(sent[told] > 0))
      BY <1>1, <2>1, <2>6, <3>1 DEF Told
    <3>3. told[2] = t
      BY DEF Notice
    <3> QED
      BY <3>1, <3>2, <3>3 DEF Sent
  <2>12. /\ \A n \in Notices : n # told => sent'[n] = sent[n]
         /\ t \notin restamped => sent'[told] <= 1
    BY <1>1, <2>1, <2>2, <2>3, <2>11, DeliverType
  <2>13. ASSUME NEW f \in Phases, NEW u \in Tasks, NEW e \in Days, Notice(f, u, e) # told
         PROVE  Told(f, u, e)' <=> Told(f, u, e)
    BY <2>12, <2>13, NoticeType DEF Told
  <2> HIDE DEF told
  <2>14. Single'
    BY <2>4, <2>5, <2>11, <2>12 DEF Single
  <2>15. Ahead(j)'
    <3>1. ASSUME NEW u \in (run[j].batch \ {t}) \ restamped
          PROVE  ~Told(phase, u, date)'
      <4>1. u \in Tasks /\ Notice(phase, u, date) # told
        BY <2>2, <2>3, NoticesDiffer DEF RunType, told
      <4> QED
        BY <2>2, <2>6, <2>13, <3>1, <4>1
    <3>2. Later(j)' = run[j].batch \ {t} /\ run'[j].phase = phase /\ run'[j].today = date
      BY <2>8, <2>10 DEF Later
    <3> QED
      BY <2>4, <2>6, <3>1, <3>2 DEF Ahead, Told, Clean
  <2>16. ASSUME NEW u \in Clean, Told("overdue", u, 0)'
         PROVE  task'[u].overdueNotified \/ Stamping(j, "overdue", u)'
    <3>1. 0 \in Days /\ "overdue" \in Phases
      BY DeadlineAssumption DEF Days, Phases
    <3>2. CASE phase = "overdue" /\ u = t
      BY <2>8, <2>10, <3>2 DEF Stamping
    <3>3. CASE ~(phase = "overdue" /\ u = t)
      <4>1. Notice("overdue", u, 0) # told
        BY <2>2, <3>1, <3>3, NoticesDiffer DEF told
      <4> QED
        BY <2>4, <2>7, <2>13, <2>16, <3>1, <4>1 DEF Clean
    <3> QED
      BY <3>2, <3>3
  <2>17. ASSUME NEW u \in Clean, NEW e \in Days, Told("tomorrow", u, e)'
         PROVE  \/ task'[u].tomorrowNotifiedOn # Never /\ e <= task'[u].tomorrowNotifiedOn
                \/ Stamping(j, "tomorrow", u)' /\ run'[j].today = e
    <3>1. "tomorrow" \in Phases
      BY DEF Phases
    <3>2. CASE phase = "tomorrow" /\ u = t /\ e = date
      BY <2>8, <2>10, <3>2 DEF Stamping
    <3>3. CASE ~(phase = "tomorrow" /\ u = t /\ e = date)
      <4>1. Notice("tomorrow", u, e) # told
        BY <2>2, <3>1, <3>3, NoticesDiffer DEF told
      <4> QED
        BY <2>4, <2>7, <2>13, <2>17, <3>1, <4>1 DEF Clean
    <3> QED
      BY <3>2, <3>3
  <2>18. Behind(j)'
    BY <2>4, <2>16, <2>17 DEF Behind, Clean
  <2> QED
    BY <2>10, <2>14, <2>15, <2>18, OnceAfter
<1>5. ASSUME NEW j \in Jobs, Stamp(j)
      PROVE  OnceInv'
  <2>1. PICK t \in run[j].current :
          /\ task' = [task EXCEPT ![t] = Stamped(t, run[j].phase, run[j].today)]
          /\ Continue(j, run[j], run[j].batch \ {t})
    BY <1>5 DEF Stamp
  <2>2. PICK phase \in Phases, date \in Days : phase = run[j].phase /\ date = run[j].today
    BY <1>1 DEF RunType
  <2>3. /\ t \in Tasks /\ run[j] \in RunType /\ run[j].pc = "stamp" /\ run[j].current = {t}
        /\ run[j].batch \ {t} \in SUBSET Tasks
    BY <1>1, <1>5, <2>1 DEF RunType, RunSound, Stamp
  <2>4. UNCHANGED <<sent, restamped, overlapped, faults>> /\ Undisturbed /\ j \in Active
    BY <1>5, <2>3 DEF Stamp, Undisturbed, Active
  <2>5. /\ \A i \in Jobs \ {j} : run[i].pc = "idle"
        /\ Ahead(j) /\ Behind(j) /\ Single
    BY <2>4, OnceBefore
  <2>6. /\ \A u \in (run[j].batch \ {t}) \ restamped : ~Told(run[j].phase, u, run[j].today)
        /\ \A u \in Clean : task[u].tomorrowNotifiedOn \in (0..date) \cup {Never}
    BY <2>2, <2>3, <2>5 DEF Ahead, Later
  <2>7. /\ \A u \in Tasks \ {t} : task'[u] = task[u]
        /\ phase = "overdue" => task'[t].overdueNotified /\ task'[t].tomorrowNotifiedOn = task[t].tomorrowNotifiedOn
        /\ phase = "tomorrow" => /\ task'[t].overdueNotified = task[t].overdueNotified
                                 /\ task'[t].tomorrowNotifiedOn = date
    <3>1. task' = [task EXCEPT ![t] = Stamped(t, phase, date)]
      BY <2>1, <2>2
    <3>2. t \in Tasks
      BY <2>3
    <3> QED
      BY ZenonT(60), <1>1, <3>1, <3>2, StampedType
  <2>8. \A u \in Clean : task'[u].tomorrowNotifiedOn \in (0..date) \cup {Never}
    <3>1. date \in 0..date
      BY <1>1
    <3> QED
      BY <2>6, <2>7, <3>1 DEF Phases, Clean
  <2>9. ASSUME NEW u \in Clean, Told("overdue", u, 0)
        PROVE  task'[u].overdueNotified
    <3>1. task[u].overdueNotified \/ (phase = "overdue" /\ u = t)
      BY <2>2, <2>3, <2>5, <2>9 DEF Behind, Stamping
    <3> QED
      BY <2>7, <3>1 DEF Phases, Clean
  <2>10. ASSUME NEW u \in Clean, NEW e \in Days, Told("tomorrow", u, e)
         PROVE  task'[u].tomorrowNotifiedOn # Never /\ e <= task'[u].tomorrowNotifiedOn
    <3>1. e \in Nat /\ date \in Nat /\ Never \notin Nat
      BY <1>1, DeadlineAssumption
    <3>2. CASE task[u].tomorrowNotifiedOn # Never /\ e <= task[u].tomorrowNotifiedOn
      <4>1. task[u].tomorrowNotifiedOn \in 0..date
        BY <2>6, <3>2
      <4>2. CASE u = t /\ phase = "tomorrow"
        BY <2>7, <3>1, <3>2, <4>1, <4>2
      <4>3. CASE ~(u = t /\ phase = "tomorrow")
        BY <2>7, <3>2, <4>3 DEF Phases, Clean
      <4> QED
        BY <4>2, <4>3
    <3>3. CASE phase = "tomorrow" /\ u = t /\ date = e
      BY <2>7, <3>1, <3>3
    <3> QED
      BY <2>2, <2>3, <2>5, <2>10, <3>2, <3>3 DEF Behind, Stamping
  <2> QED
    BY <1>1, <2>1, <2>2, <2>3, <2>4, <2>5, <2>6, <2>8, <2>9, <2>10, Proceeds
<1>6. ASSUME NEW j \in Jobs, RunFails(j)
      PROVE  OnceInv'
  <2>1. faults' = faults + 1
    BY <1>6 DEF RunFails
  <2> QED
    BY <1>1, <2>1 DEF Undisturbed
<1>7. ASSUME NEW t \in Tasks, SetStatus(t) \/ Reschedule(t)
      PROVE  OnceInv'
  <2>1. UNCHANGED <<today, run, sent, restamped, overlapped, faults>>
    BY <1>7 DEF SetStatus, Reschedule
  <2>2. \A u \in Tasks : /\ task'[u].overdueNotified = task[u].overdueNotified
                         /\ task'[u].tomorrowNotifiedOn = task[u].tomorrowNotifiedOn
    BY <1>1, <1>7, EditKeepsStamps
  <2>3. Active' = Active /\ \A j \in Jobs : (Ahead(j) => Ahead(j)') /\ (Behind(j) => Behind(j)')
    BY <2>1, <2>2 DEF Active, Ahead, Later, Behind, Told, Stamping, Clean
  <2> QED
    BY <2>1, <2>3 DEF OnceInv, Undisturbed, Single
<1>8. CASE NextDay \/ UNCHANGED deadlineVars
  <2>1. UNCHANGED <<task, run, sent, restamped, overlapped, faults>>
    BY <1>8 DEF NextDay, deadlineVars
  <2> QED
    BY <2>1 DEF OnceInv, Undisturbed, Active, Ahead, Later, Behind, Told, Stamping, Clean, Single
<1>10. ASSUME NEW t \in Tasks, PutStamps(t)
       PROVE  OnceInv'
  <2>1. UNCHANGED <<today, run, sent, nobody, overlapped, faults>> /\ restamped' = restamped \cup {t}
    BY <1>10 DEF PutStamps
  <2>2. \A u \in Tasks \ {t} : task'[u] = task[u]
    BY <1>1, <1>10, PutStampsType
  <2>3. Clean' = Clean \ {t} /\ \A u \in Clean' : task'[u] = task[u]
    BY <2>1, <2>2 DEF Clean
  <2>4. \A j \in Jobs : Ahead(j) => Ahead(j)'
    BY <2>1, <2>3 DEF Ahead, Later, Told
  <2>5. \A j \in Jobs : Behind(j) => Behind(j)'
    BY <2>1, <2>3 DEF Behind, Told, Stamping
  <2>6. Active' = Active /\ (Single => Single')
    BY <2>1 DEF Active, Single
  <2> QED
    BY <2>1, <2>4, <2>5, <2>6 DEF OnceInv, Undisturbed
<1>9. CASE Crash
  <2>1. faults' = faults + 1
    BY <1>9 DEF Crash
  <2> QED
    BY <1>1, <2>1 DEF Undisturbed
<1> QED
  BY <1>2, <1>3, <1>4, <1>5, <1>6, <1>7, <1>8, <1>9, <1>10, DeadlineAssumption DEF DeadlineNext, Job

LEMMA OnceInitial == DeadlineInit => OnceInv
<1> SUFFICES ASSUME DeadlineInit
             PROVE  OnceInv
  OBVIOUS
<1>1. /\ \A j \in Jobs : run[j].pc = "idle"
      /\ \A n \in Notices : sent[n] = 0
  BY IdleType DEF DeadlineInit
<1>2. \A t \in Tasks, date \in Days : ~Told("overdue", t, 0) /\ ~Told("tomorrow", t, date)
  <2>1. 0 \in Days
    BY DeadlineAssumption DEF Days
  <2> QED
    BY <1>1, <2>1, NoticeType DEF Told, Phases
<1>3. 0 \in Days
  BY DeadlineAssumption DEF Days
<1> QED
  BY <1>1, <1>2, <1>3 DEF OnceInv, Active, Ahead, Behind, Clean, Single

(* No notice is lost: whatever runs overlap, break off or go on past       *)
(* midnight, the job stamps a task only after its assignee was notified,   *)
(* if the address belonged to a user. None is repeated, unless runs        *)
(* overlapped, one failed, or a client wrote the stamps.                   *)
THEOREM NoticesExactThm == DeadlineSpec => []NoticesExact
<1>1. ToldInv /\ OnceInv => NoticesExact
  BY DEF ToldInv, OnceInv, Undisturbed, NoticesExact, NotifiedOnce, Single
<1> QED
  BY <1>1, ToldInitial, ToldStep, OnceInitial, OnceStep, PTL DEF DeadlineSpec

-----------------------------------------------------------------------------
(* That the lines of orders, invoices and receipts follow their products,  *)
(* for any number of products, documents and updates.                      *)

Editing == [pc : {"idle", "update", "lines"}, of : Products \cup {Resting.of},
            previous : Shown \cup {Resting.previous}, next : Shown \cup {Resting.next},
            left : SUBSET Documents]
Copies == [of : Products, copy : Shown]

LinesTypeOK ==
  /\ product \in [Products -> Shown]
  /\ form \in [Documents -> Copies \cup {NoLine}]
  /\ line \in [Documents -> Copies \cup {NoLine}]
  /\ edit \in [Edits -> Editing]
  /\ outdated \subseteq Documents
  /\ disturbed \in BOOLEAN
  /\ \A e \in Busy : /\ edit[e].of \in Products /\ edit[e].previous \in Shown
                     /\ edit[e].pc = "lines" => edit[e].next \in Shown

(* Until it is disturbed, one update at most is at work, and no two        *)
(* products share a name or a SKU.                                         *)
OneAtATime ==
  ~disturbed =>
    /\ \A e, f \in Busy : e = f
    /\ \A p, q \in Products : p # q => product[p].sku # product[q].sku /\ product[p].name # product[q].name

Rewriting(p) == \E e \in Busy : edit[e].pc = "lines" /\ edit[e].of = p

(* Until then, lines that were not sent outdated show what their product   *)
(* is, but for the product whose lines are being rewritten: those not yet  *)
(* reached may show what it was, which is what no other product is.        *)
LinesFollow ==
  ~disturbed =>
    /\ \A d \in Documents \ outdated : line[d] # NoLine /\ ~Rewriting(line[d].of) =>
         line[d].copy = product[line[d].of]
    /\ \A e \in Busy : edit[e].pc = "update" => edit[e].previous = product[edit[e].of]
    /\ \A e \in Busy : edit[e].pc = "lines" =>
         /\ edit[e].next = product[edit[e].of]
         /\ \A q \in Products \ {edit[e].of} : /\ product[q].sku # edit[e].previous.sku
                                               /\ product[q].name # edit[e].previous.name
         /\ \A d \in Documents \ outdated : line[d] # NoLine /\ line[d].of = edit[e].of =>
              line[d].copy = edit[e].next \/ (d \in edit[e].left /\ line[d].copy = edit[e].previous)

LinesInv == LinesTypeOK /\ OneAtATime /\ LinesFollow

-----------------------------------------------------------------------------
LEMMA RestingType == Resting \in Editing /\ Resting.pc = "idle"
BY DEF Resting, Editing

LEMMA LinesInitial == LinesInit => LinesInv
<1> SUFFICES ASSUME LinesInit PROVE LinesInv
  OBVIOUS
<1> USE RestingType
<1> HIDE DEF Resting
<1>1. Busy = {}
  BY DEF LinesInit, Busy
<1>2. product \in [Products -> Shown]
      /\ \A p, q \in Products : p # q => product[p].sku # product[q].sku /\ product[p].name # product[q].name
  BY DEF LinesInit, Catalogs
<1>3. LinesTypeOK
  BY <1>1, <1>2 DEF LinesInit, LinesTypeOK
<1> QED
  BY <1>1, <1>2, <1>3 DEF LinesInit, LinesInv, OneAtATime, LinesFollow

(* An update that comes to rest, or was about to write and fails, leaves   *)
(* the others as they are.                                                 *)
LEMMA RestingStep ==
  ASSUME LinesTypeOK, NEW e \in Edits, edit' = [edit EXCEPT ![e] = Resting]
  PROVE  Busy' = Busy \ {e} /\ edit' \in [Edits -> Editing] /\ \A f \in Busy' : edit'[f] = edit[f]
BY RestingType DEF LinesTypeOK, Busy

LEMMA LinesStep == LinesInv /\ [LinesNext]_lineVars => LinesInv'
<1> SUFFICES ASSUME LinesInv, [LinesNext]_lineVars PROVE LinesInv'
  OBVIOUS
<1>1. LinesTypeOK /\ OneAtATime /\ LinesFollow
  BY DEF LinesInv
<1>2. \A e \in Busy : e \in Edits
  BY DEF Busy
<1> USE RestingType
<1> HIDE DEF Resting
<1>3. ASSUME NEW e \in Edits, NEW p \in Products, ReadPrevious(e, p) PROVE LinesInv'
  <2> DEFINE new == [Resting EXCEPT !.pc = "update", !.of = p, !.previous = product[p]]
  <2>1. new \in Editing /\ new.pc = "update" /\ new.of = p /\ new.previous = product[p] /\ new.left = Resting.left
    BY <1>1 DEF Editing, LinesTypeOK
  <2>2. Resting.left = {}
    BY DEF Resting
  <2>3. /\ e \notin Busy /\ edit' = [edit EXCEPT ![e] = new]
        /\ disturbed' = (disturbed \/ Busy # {}) /\ UNCHANGED <<product, form, line, outdated>>
    BY <1>3 DEF ReadPrevious
  <2> HIDE DEF new
  <2>4. Busy' = Busy \cup {e} /\ edit'[e] = new /\ \A f \in Busy : edit'[f] = edit[f]
    BY <1>1, <2>1, <2>3 DEF Busy, LinesTypeOK
  <2>5. LinesTypeOK'
    BY <1>1, <2>1, <2>2, <2>3, <2>4 DEF LinesTypeOK
  <2>6. OneAtATime'
    BY <1>1, <2>3, <2>4 DEF OneAtATime
  <2>7. LinesFollow'
    <3> SUFFICES ASSUME ~disturbed' PROVE LinesFollow'
      BY DEF LinesFollow
    <3>1. ~disturbed /\ Busy = {} /\ Busy' = {e}
      BY <2>3, <2>4
    <3>2. \A q : ~Rewriting(q)
      BY <3>1 DEF Rewriting
    <3> QED
      BY <1>1, <2>1, <2>3, <2>4, <3>1, <3>2 DEF LinesFollow, LinesTypeOK
  <2> QED
    BY <2>5, <2>6, <2>7 DEF LinesInv
<1>4. ASSUME NEW e \in Edits, NEW s \in Shown, UpdateProduct(e, s) PROVE LinesInv'
  <2> DEFINE p == edit[e].of
             new == [edit[e] EXCEPT !.pc = "lines", !.next = s, !.left = Documents]
  <2>1. /\ edit[e].pc = "update" /\ product' = [product EXCEPT ![p] = s]
        /\ \A q \in Products \ {p} : product[q].sku # s.sku
        /\ disturbed' = (disturbed \/ \E q \in Products \ {p} : product[q].name = s.name)
        /\ UNCHANGED <<form, line, outdated>>
    BY <1>4 DEF UpdateProduct
  <2>2. e \in Busy /\ p \in Products /\ edit[e].previous \in Shown
    BY <1>1, <2>1 DEF Busy, LinesTypeOK
  <2>3. edit[e] \in Editing
    BY <1>1 DEF LinesTypeOK
  <2>4. new \in Editing /\ new.pc = "lines" /\ new.of = p /\ new.next = s
        /\ new.left = Documents /\ new.previous = edit[e].previous
    BY <2>2, <2>3 DEF Editing
  <2>5. edit' = [edit EXCEPT ![e] = new]
    BY <1>1, <1>4 DEF UpdateProduct, LinesTypeOK
  <2> HIDE DEF new
  <2>8. Busy' = Busy /\ edit'[e] = new /\ \A f \in Busy \ {e} : edit'[f] = edit[f]
    BY <1>1, <2>1, <2>4, <2>5 DEF Busy, LinesTypeOK
  <2>9. LinesTypeOK'
    BY <1>1, <2>1, <2>2, <2>4, <2>5, <2>8 DEF LinesTypeOK
  <2>10. product'[p] = s /\ \A q \in Products \ {p} : product'[q] = product[q]
    BY <1>1, <2>1, <2>2 DEF LinesTypeOK
  <2>11. OneAtATime'
    <3> SUFFICES ASSUME ~disturbed' PROVE OneAtATime'
      BY DEF OneAtATime
    <3>1. \A f, g \in Busy' : f = g
      BY <1>1, <2>1, <2>8 DEF OneAtATime
    <3>2. \A q \in Products \ {p} : product'[q].sku # s.sku /\ product'[q].name # s.name
      BY <2>1, <2>10
    <3>3. \A q, r \in Products \ {p} : q # r =>
            product'[q].sku # product'[r].sku /\ product'[q].name # product'[r].name
      <4>1. ~disturbed
        BY <2>1
      <4> QED
        BY <1>1, <2>10, <4>1 DEF OneAtATime
    <3> HIDE DEF p
    <3> QED
      BY <2>2, <2>10, <3>1, <3>2, <3>3 DEF OneAtATime
  <2>12. LinesFollow'
    <3> SUFFICES ASSUME ~disturbed' PROVE LinesFollow'
      BY DEF LinesFollow
    <3>1. ~disturbed /\ Busy = {e} /\ Busy' = {e}
      BY <1>1, <2>1, <2>2, <2>8 DEF OneAtATime
    <3>2. \A q : ~Rewriting(q)
      BY <2>1, <3>1 DEF Rewriting
    <3>3. Rewriting(p)'
      BY <2>4, <2>8, <3>1 DEF Rewriting
    <3>4. \A d \in Documents \ outdated : line[d] # NoLine =>
            line[d].of \in Products /\ line[d].copy = product[line[d].of]
      BY <1>1, <3>1, <3>2 DEF LinesFollow, LinesTypeOK, Copies
    <3>5. edit[e].previous = product[p]
      BY <1>1, <2>1, <3>1 DEF LinesFollow
    <3>6. \A q \in Products \ {p} : /\ product'[q].sku # new.previous.sku
                                    /\ product'[q].name # new.previous.name
      BY <1>1, <2>2, <2>4, <2>10, <3>1, <3>5 DEF OneAtATime
    <3>7. \A d \in Documents \ outdated' : line'[d] # NoLine =>
            line'[d].copy = product'[line'[d].of] \/ line'[d].of = p
      BY <2>1, <2>10, <3>4
    <3>8. \A d \in Documents \ outdated' : line'[d] # NoLine /\ line'[d].of = p =>
            d \in new.left /\ line'[d].copy = new.previous
      BY <2>1, <2>4, <3>4, <3>5
    <3>9. new.next = product'[p]
      BY <2>4, <2>10
    <3> HIDE DEF p
    <3> QED
      BY <2>4, <2>8, <3>1, <3>6, <3>7, <3>8, <3>9 DEF LinesFollow, Rewriting
  <2> QED
    BY <2>9, <2>11, <2>12 DEF LinesInv
<1>5. ASSUME NEW e \in Edits, RewriteLine(e) PROVE LinesInv'
  <2>1. e \in Busy /\ edit[e].pc = "lines" /\ UNCHANGED <<product, form, disturbed>>
    BY <1>5 DEF RewriteLine, Busy
  <2>2. PICK d \in edit[e].left, found \in BOOLEAN :
          /\ found <=> line[d] # NoLine /\ Identified(e, line[d].copy)
          /\ line' = IF found THEN [line EXCEPT ![d].copy = edit[e].next] ELSE line
          /\ outdated' = IF found /\ line[d].of = edit[e].of THEN outdated \ {d} ELSE outdated
          /\ Rest(e, edit[e].left \ {d})
    BY <1>5 DEF RewriteLine
  <2> DEFINE p == edit[e].of
             left == edit[e].left \ {d}
  <2>3. /\ edit[e] \in Editing /\ p \in Products /\ edit[e].next \in Shown /\ edit[e].previous \in Shown
        /\ d \in Documents /\ (line[d] # NoLine => line[d] \in Copies)
    BY <1>1, <2>1 DEF LinesTypeOK, Editing
  <2>4. /\ line' \in [Documents -> Copies \cup {NoLine}]
        /\ outdated' \subseteq Documents /\ outdated \ {d} = outdated' \ {d}
        /\ \A x \in Documents \ {d} : line'[x] = line[x]
        /\ ~found => line' = line /\ outdated' = outdated
        /\ found => line[d] # NoLine /\ line'[d] \in Copies /\ line'[d].of = line[d].of /\ line'[d].copy = edit[e].next
    <3>1. CASE found
      <4> DEFINE w == [line[d] EXCEPT !.copy = edit[e].next]
      <4>1. line' = [line EXCEPT ![d] = w]
        BY <1>1, <2>2, <2>3, <3>1 DEF LinesTypeOK
      <4>2. w \in Copies /\ w.of = line[d].of /\ w.copy = edit[e].next
        BY <2>2, <2>3, <3>1 DEF Copies
      <4> HIDE DEF w
      <4> QED
        BY <1>1, <2>2, <2>3, <3>1, <4>1, <4>2 DEF LinesTypeOK
    <3>2. CASE ~found
      BY <1>1, <2>2, <2>3, <3>2 DEF LinesTypeOK
    <3> QED
      BY <3>1, <3>2
  <2>5. ~disturbed /\ line'[d] # NoLine /\ d \notin outdated' => line'[d].copy = product[line'[d].of]
    <3> SUFFICES ASSUME ~disturbed, line'[d] # NoLine, d \notin outdated' PROVE line'[d].copy = product[line'[d].of]
      OBVIOUS
    <3>1. \A q : Rewriting(q) => q = p
      BY <1>1, <2>1 DEF Rewriting, OneAtATime
    <3>2. edit[e].next = product[p]
      BY <1>1, <2>1 DEF LinesFollow
    <3>5. line[d] # NoLine /\ line[d] \in Copies
      BY <2>3, <2>4
    <3>3. CASE line[d].of = p
      <4>1. CASE found
        BY <2>4, <3>2, <3>3, <4>1
      <4>2. CASE ~found
        <5>1. line[d].copy = edit[e].next \/ line[d].copy = edit[e].previous
          BY <1>1, <2>1, <2>3, <2>4, <3>3, <3>5, <4>2 DEF LinesFollow
        <5>2. Identified(e, line[d].copy)
          BY <5>1 DEF Identified
        <5> QED
          BY <2>2, <3>5, <4>2, <5>2
      <4> QED
        BY <4>1, <4>2
    <3>4. CASE line[d].of # p
      <4> DEFINE q == line[d].of
      <4>1. q \in Products \ {p}
        BY <3>4, <3>5 DEF Copies
      <4>6. d \notin outdated
        BY <2>2, <3>4
      <4>2. line[d].copy = product[q]
        BY <1>1, <2>3, <3>1, <3>4, <3>5, <4>6 DEF LinesFollow
      <4>3. product[q].sku # edit[e].next.sku
        BY <1>1, <2>3, <3>2, <4>1 DEF OneAtATime
      <4>4. product[q].sku # edit[e].previous.sku /\ product[q].name # edit[e].previous.name
        BY <1>1, <2>1, <4>1 DEF LinesFollow
      <4>5. ~Identified(e, line[d].copy)
        BY <4>2, <4>3, <4>4 DEF Identified
      <4> QED
        BY <2>2, <2>4, <4>2, <4>5
    <3> QED
      BY <3>3, <3>4
  <2> HIDE DEF left
  <2>8. left \subseteq edit[e].left /\ left \subseteq Documents
    BY <2>3 DEF Editing, left
  \* Without disturbance, what the lines show once the document is done.
  <2>10. ASSUME ~disturbed
         PROVE  /\ \A f \in Busy : f = e
                /\ edit[e].next = product[p]
                /\ \A x \in Documents \ outdated' : line'[x] # NoLine =>
                     \/ line'[x].copy = product'[line'[x].of]
                     \/ x \in left /\ line'[x].of = p /\ line'[x].copy = edit[e].previous
    <3>1. \A f \in Busy : f = e
      BY <1>1, <2>1, <2>10 DEF OneAtATime
    <3>2. edit[e].next = product[p]
      BY <1>1, <2>1, <2>10 DEF LinesFollow
    <3>3. ASSUME NEW x \in Documents \ outdated', line'[x] # NoLine, x # d
          PROVE  \/ line'[x].copy = product'[line'[x].of]
                 \/ x \in left /\ line'[x].of = p /\ line'[x].copy = edit[e].previous
      <4>1. line'[x] = line[x] /\ product' = product /\ x \in Documents \ outdated
        BY <2>1, <2>4, <3>3
      <4>2. CASE line[x].of = p
        <5>1. line[x].copy = edit[e].next \/ (x \in edit[e].left /\ line[x].copy = edit[e].previous)
          BY <1>1, <2>1, <2>10, <3>3, <4>1, <4>2 DEF LinesFollow
        <5> QED
          BY <3>2, <3>3, <4>1, <4>2, <5>1 DEF left
      <4>3. CASE line[x].of # p
        <5>1. ~Rewriting(line[x].of)
          BY <3>1, <4>3 DEF Rewriting
        <5> QED
          BY <1>1, <2>10, <3>3, <4>1, <5>1 DEF LinesFollow
      <4> QED
        BY <4>2, <4>3
    <3> QED
      BY <2>1, <2>4, <2>5, <2>10, <3>1, <3>2, <3>3
  <2>11. CASE left = {}
    <3>1. edit' = [edit EXCEPT ![e] = Resting]
      BY <2>2, <2>11 DEF Rest, left
    <3>2. Busy' = Busy \ {e} /\ edit' \in [Edits -> Editing] /\ \A f \in Busy' : edit'[f] = edit[f]
      BY <1>1, <2>1, <1>2, <3>1, RestingStep
    <3>3. LinesTypeOK'
      BY <1>1, <2>1, <2>4, <3>2 DEF LinesTypeOK
    <3>4. OneAtATime'
      BY <1>1, <2>1, <3>2 DEF OneAtATime
    <3>5. LinesFollow'
      <4> SUFFICES ASSUME ~disturbed' PROVE LinesFollow'
        BY DEF LinesFollow
      <4>1. ~disturbed /\ Busy' = {}
        BY <2>1, <2>10, <3>2
      <4> QED
        BY <2>10, <2>11, <4>1 DEF LinesFollow
    <3> QED
      BY <3>3, <3>4, <3>5 DEF LinesInv
  <2>12. CASE left # {}
    <3> DEFINE new == [edit[e] EXCEPT !.left = left]
    <3>1. edit' = [edit EXCEPT ![e] = new]
      BY <1>1, <1>2, <2>1, <2>2, <2>12 DEF Rest, LinesTypeOK, left
    <3>2. /\ new \in Editing /\ new.pc = "lines" /\ new.of = p /\ new.left = left
          /\ new.next = edit[e].next /\ new.previous = edit[e].previous
      BY <2>1, <2>3, <2>8 DEF Editing
    <3> HIDE DEF new
    <3>3. Busy' = Busy /\ edit'[e] = new /\ \A f \in Busy \ {e} : edit'[f] = edit[f]
      BY <1>1, <1>2, <2>1, <3>1, <3>2 DEF Busy, LinesTypeOK
    <3>4. LinesTypeOK'
      <4>1. edit' \in [Edits -> Editing]
        BY <1>1, <3>1, <3>2 DEF LinesTypeOK
      <4>2. ASSUME NEW f \in Busy'
            PROVE  /\ edit'[f].of \in Products /\ edit'[f].previous \in Shown
                   /\ edit'[f].pc = "lines" => edit'[f].next \in Shown
        <5>1. CASE f = e
          BY <2>3, <3>2, <3>3, <5>1
        <5>2. CASE f # e
          BY <1>1, <3>3, <4>2, <5>2 DEF LinesTypeOK
        <5> QED
          BY <5>1, <5>2
      <4> QED
        BY <1>1, <2>1, <2>4, <4>1, <4>2 DEF LinesTypeOK
    <3>5. OneAtATime'
      BY <1>1, <2>1, <3>3 DEF OneAtATime
    <3>6. LinesFollow'
      <4> SUFFICES ASSUME ~disturbed' PROVE LinesFollow'
        BY DEF LinesFollow
      <4>1. ~disturbed /\ Busy' = {e}
        BY <2>1, <2>10, <3>3
      <4>2. product' = product
        BY <2>1
      <4>3. \A q \in Products \ {p} : /\ product[q].sku # edit[e].previous.sku
                                      /\ product[q].name # edit[e].previous.name
        BY <1>1, <2>1, <4>1 DEF LinesFollow
      <4>4. \A x \in Documents \ outdated' : line'[x] # NoLine =>
              line'[x].copy = product'[line'[x].of] \/ line'[x].of = p
        BY <2>10, <4>1
      <4>5. \A x \in Documents \ outdated' : line'[x] # NoLine /\ line'[x].of = p =>
              line'[x].copy = edit[e].next \/ (x \in left /\ line'[x].copy = edit[e].previous)
        BY <2>10, <4>1, <4>2
      <4>6. edit[e].next = product[p]
        BY <2>10, <4>1
      <4> HIDE DEF p
      <4> QED
        BY <3>2, <3>3, <4>1, <4>2, <4>3, <4>4, <4>5, <4>6 DEF LinesFollow, Rewriting
    <3> QED
      BY <3>4, <3>5, <3>6 DEF LinesInv
  <2> QED
    BY <2>11, <2>12
<1>6. ASSUME NEW e \in Edits, LinesEnd(e) PROVE LinesInv'
  <2>1. e \in Busy /\ edit[e].pc = "lines" /\ UNCHANGED <<product, form, line, outdated>>
    BY <1>6 DEF LinesEnd, Busy
  <2>2. PICK left \in SUBSET edit[e].left :
          /\ left = edit[e].left => left = {}
          /\ Rest(e, left)
          /\ disturbed' = (disturbed \/ left # edit[e].left)
    BY <1>6 DEF LinesEnd
  <2>3. edit[e] \in Editing /\ disturbed' \in BOOLEAN
    BY <1>1, <2>2 DEF LinesTypeOK
  <2>4. CASE left = {}
    <3>1. edit' = [edit EXCEPT ![e] = Resting]
      BY <2>2, <2>4 DEF Rest
    <3>2. Busy' = Busy \ {e} /\ edit' \in [Edits -> Editing] /\ \A f \in Busy' : edit'[f] = edit[f]
      BY <1>1, <3>1, RestingStep
    <3>3. LinesTypeOK'
      BY <1>1, <2>1, <2>3, <3>2 DEF LinesTypeOK
    <3>4. OneAtATime'
      BY <1>1, <2>1, <2>2, <3>2 DEF OneAtATime
    <3>5. LinesFollow'
      <4> SUFFICES ASSUME ~disturbed' PROVE LinesFollow'
        BY DEF LinesFollow
      <4>1. ~disturbed /\ edit[e].left = {} /\ Busy' = {}
        BY <1>1, <2>1, <2>2, <2>4, <3>2 DEF OneAtATime
      <4>2. ASSUME NEW x \in Documents \ outdated, line[x] # NoLine PROVE line[x].copy = product[line[x].of]
        <5>1. CASE Rewriting(line[x].of)
          <6>1. line[x].of = edit[e].of
            BY <1>1, <2>1, <4>1, <5>1 DEF Rewriting, OneAtATime
          <6> QED
            BY <1>1, <2>1, <4>1, <4>2, <6>1 DEF LinesFollow
        <5>2. CASE ~Rewriting(line[x].of)
          BY <1>1, <4>1, <4>2, <5>2 DEF LinesFollow
        <5> QED
          BY <5>1, <5>2
      <4> QED
        BY <2>1, <4>1, <4>2 DEF LinesFollow
    <3> QED
      BY <3>3, <3>4, <3>5 DEF LinesInv
  <2>5. CASE left # {}
    <3> DEFINE new == [edit[e] EXCEPT !.left = left]
    <3>1. edit' = [edit EXCEPT ![e] = new] /\ disturbed'
      BY <1>1, <2>2, <2>5 DEF Rest, LinesTypeOK
    <3>2. /\ new \in Editing /\ new.pc = "lines" /\ new.of = edit[e].of /\ new.left = left
          /\ new.next = edit[e].next /\ new.previous = edit[e].previous
      BY <2>1, <2>3 DEF Editing
    <3> HIDE DEF new
    <3>3. Busy' = Busy /\ edit'[e] = new /\ \A f \in Busy \ {e} : edit'[f] = edit[f]
      BY <1>1, <2>1, <3>1, <3>2 DEF Busy, LinesTypeOK
    <3>4. \A x \in left : x \in edit[e].left
      OBVIOUS
    <3>5. LinesTypeOK'
      BY <1>1, <2>1, <2>3, <3>1, <3>2, <3>3, <3>4 DEF LinesTypeOK
    <3> QED
      BY <3>1, <3>5 DEF LinesInv, OneAtATime, LinesFollow
  <2> QED
    BY <2>4, <2>5
<1>7. ASSUME NEW e \in Edits, UpdateFails(e) PROVE LinesInv'
  <2>1. /\ edit[e].pc = "update" /\ e \in Busy
        /\ edit' = [edit EXCEPT ![e] = Resting] /\ UNCHANGED <<product, form, line, outdated, disturbed>>
    BY <1>7 DEF UpdateFails, Busy
  <2>2. Busy' = Busy \ {e} /\ edit' \in [Edits -> Editing] /\ \A f \in Busy' : edit'[f] = edit[f]
    BY <1>1, <2>1, RestingStep
  <2>3. LinesTypeOK'
    BY <1>1, <2>1, <2>2 DEF LinesTypeOK
  <2>4. OneAtATime'
    BY <1>1, <2>1, <2>2 DEF OneAtATime
  <2>5. LinesFollow'
    <3> SUFFICES ASSUME ~disturbed' PROVE LinesFollow'
      BY DEF LinesFollow
    <3>1. ~disturbed /\ Busy = {e} /\ Busy' = {}
      BY <1>1, <2>1, <2>2 DEF OneAtATime
    <3>2. \A q : ~Rewriting(q)
      BY <2>1, <3>1 DEF Rewriting
    <3> QED
      BY <1>1, <2>1, <3>1, <3>2 DEF LinesFollow
  <2> QED
    BY <2>3, <2>4, <2>5 DEF LinesInv
<1>8. ASSUME NEW d \in Documents, Sell(d) PROVE LinesInv'
  <2>1. /\ form[d] # NoLine /\ line' = [line EXCEPT ![d] = form[d]] /\ form' = [form EXCEPT ![d] = NoLine]
        /\ outdated' = IF form[d].copy = product[form[d].of] THEN outdated \ {d} ELSE outdated \cup {d}
        /\ UNCHANGED <<product, edit, disturbed>>
    BY <1>8 DEF Sell
  <2>2. form[d] \in Copies
    BY <1>1, <2>1 DEF LinesTypeOK
  <2>3. /\ line'[d] = form[d] /\ \A x \in Documents \ {d} : line'[x] = line[x] /\ (x \in outdated' <=> x \in outdated)
        /\ d \notin outdated' => form[d].copy = product[form[d].of]
    BY <1>1, <2>1 DEF LinesTypeOK
  <2>4. Busy' = Busy
    BY <2>1 DEF Busy
  <2>5. LinesTypeOK'
    BY <1>1, <2>1, <2>2, <2>4 DEF LinesTypeOK
  <2>6. OneAtATime'
    BY <1>1, <2>1, <2>4 DEF OneAtATime
  <2>7. LinesFollow'
    <3> SUFFICES ASSUME ~disturbed PROVE LinesFollow'
      BY <2>1 DEF LinesFollow
    <3>1. \A x \in Documents \ outdated' : line'[x] # NoLine /\ ~Rewriting(line'[x].of) =>
            line'[x].copy = product[line'[x].of]
      BY <1>1, <2>3 DEF LinesFollow
    <3>2. ASSUME NEW e \in Busy, NEW x \in Documents \ outdated',
                 edit[e].pc = "lines", line'[x] # NoLine, line'[x].of = edit[e].of
          PROVE  line'[x].copy = edit[e].next \/ (x \in edit[e].left /\ line'[x].copy = edit[e].previous)
      <4>1. CASE x = d
        BY <1>1, <2>3, <3>2, <4>1 DEF LinesFollow
      <4>2. CASE x # d
        BY <1>1, <2>3, <3>2, <4>2 DEF LinesFollow
      <4> QED
        BY <4>1, <4>2
    <3> QED
      BY <1>1, <2>1, <2>4, <3>1, <3>2 DEF LinesFollow, Rewriting
  <2> QED
    BY <2>5, <2>6, <2>7 DEF LinesInv
<1>10. ASSUME NEW d \in Documents, FillForm(d) PROVE LinesInv'
  <2>1. form' \in [Documents -> Copies \cup {NoLine}] /\ UNCHANGED <<product, line, edit, outdated, disturbed>>
    BY <1>1, <1>10 DEF FillForm, LinesTypeOK, Copies
  <2> QED
    BY <1>1, <2>1 DEF LinesInv, LinesTypeOK, OneAtATime, LinesFollow, Rewriting, Busy
<1>9. CASE UNCHANGED lineVars
  BY <1>1, <1>9 DEF LinesInv, LinesTypeOK, OneAtATime, LinesFollow, Rewriting, Busy, lineVars
<1> QED
  BY <1>3, <1>4, <1>5, <1>6, <1>7, <1>8, <1>9, <1>10 DEF LinesNext

LEMMA FollowingIsOrderly == LinesInv => OrderlyLines
BY DEF LinesInv, LinesFollow, LinesTypeOK, OrderlyLines, Rewriting

-----------------------------------------------------------------------------
(* While updates of products neither overlap nor fail and no two products  *)
(* share a name, every line of syncProductLineSnapshots.ts shows what its  *)
(* product is as soon as no update is at work.                             *)
THEOREM OrderlyLinesThm == LinesSpec => []OrderlyLines
<1>1. LinesSpec => []LinesInv
  BY LinesInitial, LinesStep, PTL DEF LinesSpec
<1> QED
  BY <1>1, FollowingIsOrderly, PTL

-----------------------------------------------------------------------------
(* That the clock of an item is right, whatever updates do, and that the   *)
(* order of its list is one: for all quantities, days and ratios.          *)

-----------------------------------------------------------------------------
(* The order.                                                              *)

(* What overdue rows, the others, and those without a target come to: a    *)
(* class, and a place within it.                                           *)
Class(r) == IF r.ratio = NoTarget THEN 2 ELSE IF r.ratio < 0 THEN 0 ELSE 1
Within(r) ==
  IF r.ratio = NoTarget THEN 0 ELSE IF r.ratio < 0 THEN r.ratio ELSE 0 - r.ratio
Precedes(a, b) ==
  \/ Class(a) < Class(b)
  \/ Class(a) = Class(b) /\ Within(a) < Within(b)
  \/ Class(a) = Class(b) /\ Within(a) = Within(b) /\ a.name < b.name

(* compareByRemainingRatio puts a before b exactly if its class, its place *)
(* in the class, or its name comes first, in this order.                   *)
LEMMA CompareIsLexicographic ==
  ASSUME NEW a \in Listed, NEW b \in Listed
  PROVE  /\ Compare(a, b) \in {-1, 0, 1}
         /\ Compare(a, b) < 0 <=> Precedes(a, b)
         /\ Compare(a, b) > 0 <=> Precedes(b, a)
<1>1. /\ a.ratio \in Int \cup {NoTarget} /\ a.name \in Int
      /\ b.ratio \in Int \cup {NoTarget} /\ b.name \in Int
  BY DEF Listed
<1>2. NoTarget \notin Int
  BY DurationAssumption
<1>3. CASE a.ratio = NoTarget \/ b.ratio = NoTarget
  BY <1>1, <1>2, <1>3 DEF Compare, Before, Precedes, Class, Within
<1>4. CASE a.ratio \in Int /\ b.ratio \in Int
  BY <1>1, <1>2, <1>4 DEF Compare, Before, Precedes, Class, Within
<1> QED
  BY <1>1, <1>3, <1>4

(* The comparator that is given to sort is consistent: whatever the ratios,*)
(* missing and negative ones among them, it compares every row with itself *)
(* as equal, two rows the same way from both sides, and it is transitive,  *)
(* also where it calls rows equal.                                         *)
THEOREM CompareIsOrder ==
  ASSUME NEW a \in Listed, NEW b \in Listed, NEW c \in Listed
  PROVE  /\ Compare(a, a) = 0
         /\ Compare(a, b) = 0 - Compare(b, a)
         /\ Compare(a, b) <= 0 /\ Compare(b, c) <= 0 => Compare(a, c) <= 0
<1>1. \A r \in Listed : r.name \in Int /\ Class(r) \in Int /\ Within(r) \in Int
  BY DurationAssumption DEF Listed, Class, Within
<1>2. ~Precedes(a, a)
  BY <1>1 DEF Precedes
<1>3. ~(Precedes(a, b) /\ Precedes(b, a))
  BY <1>1 DEF Precedes
<1>4. ~Precedes(b, a) /\ ~Precedes(c, b) => ~Precedes(c, a)
  BY <1>1 DEF Precedes
<1>5. /\ Compare(a, a) \in {-1, 0, 1} /\ Compare(a, b) \in {-1, 0, 1}
      /\ Compare(b, a) \in {-1, 0, 1} /\ Compare(b, c) \in {-1, 0, 1}
      /\ Compare(a, c) \in {-1, 0, 1}
  BY CompareIsLexicographic
<1>6. /\ Compare(a, a) < 0 <=> Precedes(a, a)
      /\ Compare(a, a) > 0 <=> Precedes(a, a)
      /\ Compare(a, b) < 0 <=> Precedes(a, b)
      /\ Compare(a, b) > 0 <=> Precedes(b, a)
      /\ Compare(b, a) < 0 <=> Precedes(b, a)
      /\ Compare(b, a) > 0 <=> Precedes(a, b)
      /\ Compare(b, c) > 0 <=> Precedes(c, b)
      /\ Compare(a, c) > 0 <=> Precedes(c, a)
  BY CompareIsLexicographic
<1> HIDE DEF Compare, Precedes
<1>7. Compare(a, a) = 0
  BY <1>2, <1>5, <1>6
<1>8. Compare(a, b) = 0 - Compare(b, a)
  BY <1>3, <1>5, <1>6
<1>9. Compare(a, b) <= 0 /\ Compare(b, c) <= 0 => Compare(a, c) <= 0
  BY <1>4, <1>5, <1>6
<1> QED
  BY <1>7, <1>8, <1>9

-----------------------------------------------------------------------------
(* The clock.                                                              *)

Counts == 0..MaxQty
DurationTypeOK ==
  /\ qty \in Counts
  /\ startedAt \in Int /\ day \in Int /\ restocked \in Int
  /\ update \in [Updates -> [pc : {"idle", "update"}, before : Counts, after : Counts]]
  /\ regular \in BOOLEAN

(* While updates do not overlap, one at most is under way, and the quantity*)
(* it has read is the one that is there.                                   *)
ReadIsCurrent ==
  regular =>
    /\ \A u \in Updating : update[u].before = qty
    /\ \A u, v \in Updating : u = v

DurationInv == DurationTypeOK /\ ReadIsCurrent /\ DurationClock

LEMMA DurationInitial == DurationInit => DurationInv
<1> SUFFICES ASSUME DurationInit PROVE DurationInv
  OBVIOUS
<1>1. MaxQty \in Nat
  BY DurationAssumption
<1>2. DurationTypeOK
  BY <1>1 DEF DurationInit, DurationTypeOK, Waiting, Counts
<1>3. Updating = {}
  BY DEF DurationInit, Updating, Waiting
<1> QED
  BY <1>2, <1>3 DEF DurationInv, ReadIsCurrent, DurationClock, DurationInit

LEMMA DurationStep == DurationInv /\ [DurationNext]_durationVars => DurationInv'
<1> SUFFICES ASSUME DurationInv, [DurationNext]_durationVars PROVE DurationInv'
  OBVIOUS
<1>1. MaxQty \in Nat
  BY DurationAssumption
<1>2. DurationTypeOK /\ ReadIsCurrent /\ DurationClock
  BY DEF DurationInv
<1> USE DEF DurationTypeOK, Counts
<1>3. ASSUME NEW u \in Updates, NEW n \in 0..MaxQty, ReadItem(u, n) PROVE DurationInv'
  <2>1. DurationTypeOK'
    BY <1>2, <1>3 DEF ReadItem
  <2>2. ReadIsCurrent'
    BY <1>2, <1>3 DEF ReadItem, ReadIsCurrent, Updating
  <2>3. DurationClock'
    BY <1>2, <1>3 DEF ReadItem, DurationClock
  <2> QED
    BY <2>1, <2>2, <2>3 DEF DurationInv
<1>4. ASSUME NEW u \in Updates, UpdateItem(u) PROVE DurationInv'
  <2>1. u \in Updating
    BY <1>4 DEF UpdateItem, Updating
  <2>2. update[u].before \in Counts /\ update[u].after \in Counts
    BY <1>2
  <2>3. DurationTypeOK'
    BY <1>1, <1>2, <1>4, <2>2 DEF UpdateItem, StampOnUpdate, Rises, Waiting
  <2>4. regular => Updating' = {}
    BY <1>2, <1>4, <2>1 DEF UpdateItem, Updating, Waiting, ReadIsCurrent
  <2>5. ReadIsCurrent'
    BY <1>4, <2>4 DEF UpdateItem, ReadIsCurrent
  <2>6. regular => update[u].before = qty
    BY <1>2, <2>1 DEF ReadIsCurrent
  <2>7. DurationClock'
    BY <1>2, <1>4, <2>6 DEF UpdateItem, StampOnUpdate, Rises, DurationClock
  <2> QED
    BY <2>3, <2>5, <2>7 DEF DurationInv
<1>5. ASSUME NEW u \in Updates, UpdateLost(u) PROVE DurationInv'
  <2>1. DurationTypeOK'
    BY <1>1, <1>2, <1>5 DEF UpdateLost, Waiting
  <2>2. Updating' \subseteq Updating /\ \A v \in Updating' : update'[v] = update[v]
    BY <1>2, <1>5 DEF UpdateLost, Updating, Waiting
  <2>3. ReadIsCurrent'
    BY <1>2, <1>5, <2>2 DEF UpdateLost, ReadIsCurrent
  <2>4. DurationClock'
    BY <1>2, <1>5 DEF UpdateLost, DurationClock
  <2> QED
    BY <2>1, <2>3, <2>4 DEF DurationInv
<1>6. ASSUME NEW n \in 0..MaxQty, StockMoves(n) PROVE DurationInv'
  BY <1>2, <1>6 DEF StockMoves, Rises, DurationInv, ReadIsCurrent, DurationClock
<1>7. CASE DayPasses
  <2>1. DurationTypeOK'
    BY <1>2, <1>7 DEF DayPasses
  <2>2. Updating' = Updating
    BY <1>7 DEF DayPasses, Updating
  <2> QED
    BY <1>2, <1>7, <2>1, <2>2 DEF DayPasses, DurationInv, ReadIsCurrent, DurationClock
<1>8. CASE UNCHANGED durationVars
  <2>1. DurationTypeOK'
    BY <1>2, <1>8 DEF durationVars
  <2>2. Updating' = Updating
    BY <1>8 DEF durationVars, Updating
  <2> QED
    BY <1>2, <1>8, <2>1, <2>2 DEF durationVars, DurationInv, ReadIsCurrent, DurationClock
<1> QED
  BY <1>3, <1>4, <1>5, <1>6, <1>7, <1>8 DEF DurationNext

(* "Reset the duration clock only when on-hand quantity increases": for    *)
(* any number of updates and any quantities, the clock of an item that is  *)
(* only changed by updates that do not overlap runs from its last restock. *)
THEOREM DurationClockThm == DurationSpec => []DurationClock
<1>1. DurationInv => DurationClock
  BY DEF DurationInv
<1> QED
  BY DurationInitial, DurationStep, <1>1, PTL DEF DurationSpec
=============================================================================
