------------------------------- MODULE Checks -------------------------------
(***************************************************************************)
(* The investigations of a check cycle (_maybe_check_anomalies and         *)
(* _propose_actions of app/simulation.py, app/a2a.py).  One engine thread  *)
(* works through what the agents found; every commit of a task is a step.  *)
(* At each the server may die or a statement fail, and what that costs     *)
(* depends on which: the subject in hand, or the rest of the cycle.        *)
(***************************************************************************)
EXTENDS Integers, Sequences, FiniteSets

CONSTANTS
  Tools,           \* the equipment
  ProcessSteps,    \* the steps lots may be held at
  Suppress,        \* ANOMALY_LOG_SUPPRESS_SECONDS, in clock units
  Null,            \* SQL NULL
  MaxTime,         \* bound: the clock
  MaxTasks,        \* bound: investigation tasks
  MaxHits          \* bound: subjects struck by a failure

ASSUME ChecksAssumption ==
  /\ Suppress \in Nat /\ MaxTime \in Nat /\ MaxTasks \in Nat /\ MaxHits \in Nat
  /\ Null \notin Nat

VARIABLES
  clock,       \* utcnow()
  log,         \* the anomaly_log table
  task,        \* the investigation_task table
  check,       \* what the running cycle holds
  found,       \* history: what the agent whose turn it is found
  hit          \* history: the subjects in hand when something failed

histories == <<found, hit>>
vars == <<clock, log, task, check, histories>>

Agents == {"quality", "equipment", "production"}
Final == {"COMPLETED", "FAILED"}
TaskState == {"SUBMITTED", "WORKING"} \cup Final

NoCheck == [pc |-> "idle"]

Init ==
  /\ clock = 0
  /\ log = <<>>
  /\ task = <<>>
  /\ check = NoCheck
  /\ found = {}
  /\ hit = {}

\* Mutant: a task that did not complete does not count.
RecentCompleted(agent, subject, now) ==
  {n \in DOMAIN task : /\ task[n].agent = agent /\ task[n].subject = subject
                       /\ task[n].at >= now - Suppress /\ task[n].state = "COMPLETED"}

\* Mutant: a task that has not ended is reused however old it is.
RecentOrUnfinished(agent, subject, now) ==
  {n \in DOMAIN task : /\ task[n].agent = agent /\ task[n].subject = subject
                       /\ task[n].at >= now - Suppress \/ task[n].state \notin Final}

\* Whatever became of it, a recent task is reused.
RecentTasks(agent, subject, now) ==
  {n \in DOMAIN task : /\ task[n].agent = agent /\ task[n].subject = subject
                       /\ task[n].at >= now - Suppress}
RecentLogs(t, now) == {n \in DOMAIN log : log[n].tool = t /\ log[n].at >= now - Suppress}

-----------------------------------------------------------------------------
(* The cycle: each agent's findings in turn.                               *)

Visits(agent, now, todo) ==
  check' = [pc |-> "visit", agent |-> agent, now |-> now, todo |-> todo]

\* What the rules find - anomalies, tools that go down again and again, steps
\* whose lots are held - is whatever the shop floor shows them.
StartCheck(anomalies) ==
  /\ check = NoCheck
  /\ Visits("quality", clock, anomalies)
  /\ found' = anomalies
  /\ UNCHANGED <<clock, log, task, hit>>

Visiting(agent, subject) ==
  /\ check.pc = "visit"
  /\ check.agent = agent
  /\ subject \in check.todo

Submits(subject, row) ==
  check' = [pc |-> "submit", agent |-> check.agent, now |-> check.now,
            todo |-> check.todo \ {subject}, subject |-> subject,
            log |-> row]

\* A standing anomaly is logged, and investigated, once in a while.
VisitAnomaly(t) ==
  /\ Visiting("quality", t)
  /\ IF RecentLogs(t, check.now) # {}
       THEN /\ Visits("quality", check.now, check.todo \ {t})
            /\ UNCHANGED log
       ELSE /\ log' = Append(log, [tool |-> t, at |-> check.now])
            /\ Submits(t, Len(log) + 1)
  /\ UNCHANGED <<clock, task, histories>>

VisitProposal(agent, subject) ==
  /\ Visiting(agent, subject)
  /\ IF RecentTasks(agent, subject, check.now) # {}
       THEN Visits(agent, check.now, check.todo \ {subject})
       ELSE Submits(subject, Null)
  /\ UNCHANGED <<clock, log, task, histories>>

NextAgent ==
  /\ check.pc = "visit"
  /\ check.todo = {}
  /\ \/ /\ check.agent = "quality"
        /\ \E down \in SUBSET Tools :
             Visits("equipment", check.now, down) /\ found' = down
     \/ /\ check.agent = "equipment"
        /\ \E held \in SUBSET ProcessSteps :
             Visits("production", check.now, held) /\ found' = held
     \/ /\ check.agent = "production"
        /\ check' = NoCheck
        /\ found' = {}
  /\ UNCHANGED <<clock, log, task, hit>>

-----------------------------------------------------------------------------
(* The three investigations differ in their evidence only.                 *)

Works(pc, id) ==
  check' = [pc |-> pc, agent |-> check.agent, now |-> check.now, todo |-> check.todo,
            id |-> id]

\* Mutant: the id is read before the row is inserted.
IdBeforeInsert == Len(task)

NewTaskId == Len(task) + 1

Submit ==
  /\ check.pc = "submit"
  /\ Len(task) < MaxTasks
  /\ task' = Append(task, [agent |-> check.agent, subject |-> check.subject,
                           log |-> check.log, at |-> check.now, state |-> "SUBMITTED"])
  /\ Works("start", NewTaskId)
  /\ UNCHANGED <<clock, log, histories>>

StartWork ==
  /\ check.pc = "start"
  /\ task' = [task EXCEPT ![check.id].state = "WORKING"]
  /\ Works("finish", check.id)
  /\ UNCHANGED <<clock, log, histories>>

\* Mutant: an error while the evidence is gathered leaves the task as it was.
OnlySuccessEnds(ok) == IF ok THEN "COMPLETED" ELSE "WORKING"

\* An error while the evidence is gathered ends the task too.
Outcome(ok) == IF ok THEN "COMPLETED" ELSE "FAILED"

Finish(ok) ==
  /\ check.pc = "finish"
  /\ task' = [task EXCEPT ![check.id].state = Outcome(ok)]
  /\ Visits(check.agent, check.now, check.todo)
  /\ UNCHANGED <<clock, log, histories>>

-----------------------------------------------------------------------------
(* Failures.                                                               *)

\* The subject a cycle has in hand.
InHand == IF check.pc = "submit" THEN check.subject ELSE task[check.id].subject

Strikes(subject) ==
  /\ hit' = hit \cup {[agent |-> check.agent, subject |-> subject, at |-> check.now]}
  /\ Cardinality(hit') <= MaxHits

\* A read fails in an investigation - the refresh after the insert, or, in
\* the handler of failed evidence, that of the task's id.  The exception is
\* caught, the task stays as it is and the next subject has its turn.
GiveUp ==
  /\ check.pc \in {"start", "finish"}
  /\ Visits(check.agent, check.now, check.todo)
  /\ Strikes(InHand)
  /\ UNCHANGED <<clock, log, task, found>>

\* The search for a recent task fails: caught too, and the subject goes
\* without.  The quality agent's search is not guarded so.
LookFails(agent, subject) ==
  /\ Visiting(agent, subject)
  /\ Visits(agent, check.now, check.todo \ {subject})
  /\ Strikes(subject)
  /\ UNCHANGED <<clock, log, task, found>>

\* The server dies; or an exception is caught by nobody, like those of the
\* quality agent's own statements; or a commit fails, which is caught but not
\* rolled back, so that the session refuses the next statement.  The cycle
\* ends there without a proposal.
CutShort ==
  /\ check # NoCheck
  /\ check' = NoCheck
  /\ IF check.pc \in {"submit", "start", "finish"} THEN Strikes(InHand) ELSE UNCHANGED hit
  /\ found' = {}
  /\ UNCHANGED <<clock, log, task>>

-----------------------------------------------------------------------------

Tick ==
  /\ clock < MaxTime
  /\ clock' = clock + 1
  /\ UNCHANGED <<log, task, check, histories>>

CheckStep ==
  \/ \E t \in Tools : VisitAnomaly(t) \/ VisitProposal("equipment", t)
  \/ \E s \in ProcessSteps : VisitProposal("production", s)
  \/ NextAgent
  \/ Submit
  \/ StartWork
  \/ \E ok \in BOOLEAN : Finish(ok)

Failure ==
  \/ GiveUp
  \/ \E t \in Tools : LookFails("equipment", t)
  \/ \E s \in ProcessSteps : LookFails("production", s)
  \/ CutShort

Next ==
  \/ \E anomalies \in SUBSET Tools : StartCheck(anomalies)
  \/ CheckStep
  \/ Failure
  \/ Tick

Spec == Init /\ [][Next]_vars

-----------------------------------------------------------------------------

Subjects == Tools \cup ProcessSteps

LogRow == [tool : Tools, at : Nat]
TaskRow ==
  [agent : Agents, subject : Subjects, log : Nat \cup {Null}, at : Nat,
   state : TaskState]

Check ==
       [pc : {"idle"}]
  \cup [pc : {"visit"}, agent : Agents, now : Nat, todo : SUBSET Subjects]
  \cup [pc : {"submit"}, agent : Agents, now : Nat, todo : SUBSET Subjects,
        subject : Subjects, log : Nat \cup {Null}]
  \cup [pc : {"start", "finish"}, agent : Agents, now : Nat, todo : SUBSET Subjects,
        id : Nat]

\* Every row has its type, and a cycle at work on a task has one that exists.
TypeOK ==
  /\ clock \in Nat
  /\ log \in Seq(LogRow)
  /\ task \in Seq(TaskRow)
  /\ found \subseteq Subjects
  /\ hit \subseteq [agent : Agents, subject : Subjects, at : Nat]
  /\ check \in Check
  /\ check.pc \in {"start", "finish"} => check.id \in DOMAIN task

\* A condition that stands is investigated once per suppression window, also
\* when the investigation failed or its cycle died; so an anomaly log row has
\* at most one task (a2a.py:432).
OneInvestigationPerWindow ==
  \A m, n \in DOMAIN task :
    m < n /\ task[m].agent = task[n].agent /\ task[m].subject = task[n].subject
      => task[n].at > task[m].at + Suppress

\* What an agent found and passed by is at work, or was investigated to an end
\* within the window, or was itself struck by a failure within it.  Each
\* investigation's exception is caught on its own (simulation.py:332, 400, 435),
\* so that it costs no other subject its investigation; and a task it leaves
\* SUBMITTED or WORKING keeps its own subject waiting for one window, no longer.
Working(subject) ==
  check.pc \in {"submit", "start", "finish"} /\ InHand = subject
Investigated(agent, subject, now) ==
  \E n \in DOMAIN task :
    /\ task[n].agent = agent /\ task[n].subject = subject
    /\ task[n].at >= now - Suppress /\ task[n].state \in Final
Struck(agent, subject, now) ==
  \E h \in hit : h.agent = agent /\ h.subject = subject /\ h.at >= now - Suppress

FoundIsInvestigated ==
  check # NoCheck =>
    \A subject \in found \ check.todo :
      \/ Working(subject)
      \/ Investigated(check.agent, subject, check.now)
      \/ Struck(check.agent, subject, check.now)
=============================================================================
