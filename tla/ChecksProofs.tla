---------------------------- MODULE ChecksProofs ----------------------------
(***************************************************************************)
(* Proofs about the investigations of the check cycle, for any tools,      *)
(* steps and suppression window, any failures and any crashes.             *)
(***************************************************************************)
EXTENDS Checks, TLAPS

USE ChecksAssumption DEF histories

-----------------------------------------------------------------------------
(* Types.                                                                  *)

\* The fields of a cycle are those of its pc.
LEMMA CheckFields ==
  ASSUME TypeOK
  PROVE  /\ check.pc \in {"visit", "submit", "start", "finish"} =>
              check.agent \in Agents /\ check.now \in Nat /\ check.todo \subseteq Subjects
         /\ check.pc = "submit" => check.subject \in Subjects /\ check.log \in Nat \cup {Null}
         /\ check.pc \in {"start", "finish"} => check.id \in DOMAIN task
BY DEF TypeOK, Check

LEMMA TypeInit == Init => TypeOK
BY DEF Init, TypeOK, NoCheck, Check

\* One row more: the old rows stay where they are.
LEMMA Appended ==
  ASSUME NEW S, NEW s \in Seq(S), NEW e \in S
  PROVE  /\ Append(s, e) \in Seq(S)
         /\ Len(s) \in Nat /\ DOMAIN s = 1 .. Len(s)
         /\ DOMAIN Append(s, e) = 1 .. Len(s) + 1
         /\ \A i \in DOMAIN s : Append(s, e)[i] = s[i]
         /\ Append(s, e)[Len(s) + 1] = e
OBVIOUS

\* The cycles the actions build.
LEMMA Built ==
  ASSUME NEW agent \in Agents, NEW now \in Nat, NEW todo \in SUBSET Subjects
  PROVE  /\ [pc |-> "visit", agent |-> agent, now |-> now, todo |-> todo] \in Check
         /\ \A s \in Subjects, l \in Nat \cup {Null} :
              [pc |-> "submit", agent |-> agent, now |-> now, todo |-> todo,
               subject |-> s, log |-> l] \in Check
         /\ \A pc \in {"start", "finish"}, id \in Nat :
              [pc |-> pc, agent |-> agent, now |-> now, todo |-> todo, id |-> id] \in Check
BY DEF Check

LEMMA VisitAnomalyTyped ==
  ASSUME TypeOK, NEW t \in Tools, VisitAnomaly(t)
  PROVE  TypeOK'
<1>1. /\ check.pc = "visit" /\ check.agent = "quality" /\ check.now \in Nat
      /\ check.todo \ {t} \in SUBSET Subjects /\ t \in Subjects /\ "quality" \in Agents
  BY CheckFields DEF VisitAnomaly, Visiting, Subjects, Agents
<1>2. CASE RecentLogs(t, check.now) # {}
  <2>1. check' = [pc |-> "visit", agent |-> "quality", now |-> check.now,
                  todo |-> check.todo \ {t}]
    BY <1>2 DEF VisitAnomaly, Visits
  <2>2. check' \in Check  BY <1>1, <2>1, Built
  <2>3. QED  BY <1>2, <2>1, <2>2 DEF TypeOK, VisitAnomaly
<1>3. CASE RecentLogs(t, check.now) = {}
  <2> DEFINE row == [tool |-> t, at |-> check.now]
  <2>1. row \in LogRow  BY <1>1 DEF LogRow
  <2>2. log' = Append(log, row) /\ log \in Seq(LogRow)
    BY <1>3 DEF VisitAnomaly, TypeOK
  <2>3. log' \in Seq(LogRow) /\ Len(log) + 1 \in Nat
    BY <2>1, <2>2
  <2>4. check' = [pc |-> "submit", agent |-> "quality", now |-> check.now,
                  todo |-> check.todo \ {t}, subject |-> t, log |-> Len(log) + 1]
    BY <1>1, <1>3 DEF VisitAnomaly, Submits
  <2>5. check' \in Check /\ check'.pc = "submit"  BY <1>1, <2>3, <2>4, Built
  <2>6. QED  BY <2>3, <2>5 DEF VisitAnomaly, TypeOK
<1>4. QED  BY <1>2, <1>3

LEMMA VisitProposalTyped ==
  ASSUME TypeOK, NEW agent \in Agents, NEW subject \in Subjects, VisitProposal(agent, subject)
  PROVE  TypeOK'
<1>1. /\ check.pc = "visit" /\ check.agent = agent /\ check.now \in Nat
      /\ check.todo \ {subject} \in SUBSET Subjects
  BY CheckFields DEF VisitProposal, Visiting
<1>2. \/ check' = [pc |-> "visit", agent |-> agent, now |-> check.now,
                   todo |-> check.todo \ {subject}]
      \/ check' = [pc |-> "submit", agent |-> agent, now |-> check.now,
                   todo |-> check.todo \ {subject}, subject |-> subject, log |-> Null]
  BY <1>1 DEF VisitProposal, Visits, Submits
<1>3. check' \in Check /\ check'.pc \in {"visit", "submit"}
  <2>1. Null \in Nat \cup {Null}  OBVIOUS
  <2>2. CASE check'.pc = "visit"  BY <1>1, <1>2, <2>2, Built
  <2>3. CASE check'.pc = "submit"
    <3>1. check' = [pc |-> "submit", agent |-> agent, now |-> check.now,
                    todo |-> check.todo \ {subject}, subject |-> subject, log |-> Null]
      BY <1>2, <2>3
    <3>2. [pc |-> "submit", agent |-> agent, now |-> check.now,
           todo |-> check.todo \ {subject}, subject |-> subject, log |-> Null] \in Check
      BY <1>1, <2>1 DEF Check
    <3>3. QED  BY <2>3, <3>1, <3>2
  <2>4. QED  BY <1>2, <2>2, <2>3
<1>4. QED  BY <1>3 DEF VisitProposal, TypeOK

LEMMA NextAgentTyped ==
  ASSUME TypeOK, NextAgent
  PROVE  TypeOK'
<1>1. check.now \in Nat  BY CheckFields DEF NextAgent
<1>2. \/ check' = NoCheck
      \/ \E agent \in Agents, todo \in SUBSET Subjects : Visits(agent, check.now, todo)
  BY DEF NextAgent, Subjects, Agents
<1>3. check' \in Check /\ check'.pc \in {"idle", "visit"}
  <2>1. CASE check' = NoCheck  BY <2>1 DEF NoCheck, Check
  <2>2. ASSUME NEW agent \in Agents, NEW todo \in SUBSET Subjects,
               Visits(agent, check.now, todo)
        PROVE  check' \in Check /\ check'.pc = "visit"
    BY <1>1, <2>2, Built DEF Visits
  <2>3. QED  BY <1>2, <2>1, <2>2
<1>4. found' \subseteq Subjects  BY DEF NextAgent, Subjects
<1>5. QED  BY <1>3, <1>4 DEF NextAgent, TypeOK

LEMMA SubmitTyped ==
  ASSUME TypeOK, Submit
  PROVE  TypeOK'
<1> DEFINE row == [agent |-> check.agent, subject |-> check.subject, log |-> check.log,
                   at |-> check.now, state |-> "SUBMITTED"]
<1>1. /\ check.agent \in Agents /\ check.now \in Nat /\ check.todo \in SUBSET Subjects
      /\ check.subject \in Subjects /\ check.log \in Nat \cup {Null}
  BY CheckFields DEF Submit
<1>2. row \in TaskRow  BY <1>1 DEF TaskRow, TaskState
<1>3. task' = Append(task, row) /\ task \in Seq(TaskRow)  BY DEF Submit, TypeOK
<1>4. /\ task' \in Seq(TaskRow) /\ Len(task) \in Nat
      /\ DOMAIN task = 1 .. Len(task) /\ DOMAIN task' = 1 .. Len(task) + 1
  BY <1>2, <1>3, Appended
<1>5. check' = [pc |-> "start", agent |-> check.agent, now |-> check.now,
                todo |-> check.todo, id |-> Len(task) + 1]
  BY DEF Submit, Works, NewTaskId
<1>6. check' \in Check /\ check'.id \in DOMAIN task'
  <2>1. Len(task) + 1 \in Nat /\ Len(task) + 1 \in DOMAIN task'  BY <1>4
  <2>2. QED  BY <1>1, <1>5, <2>1, Built
<1>7. QED  BY <1>4, <1>6 DEF Submit, TypeOK

LEMMA TimesTyped == ASSUME TypeOK PROVE \A n \in DOMAIN task : task[n].at \in Nat
<1>1. \A n \in DOMAIN task : task[n] \in TaskRow  BY DEF TypeOK
<1>2. QED  BY <1>1 DEF TaskRow

\* A change of one task's state keeps the table's type and everything else.
LEMMA StateChange ==
  ASSUME TypeOK, NEW id \in DOMAIN task, NEW state \in TaskState,
         task' = [task EXCEPT ![id].state = state]
  PROVE  /\ task' \in Seq(TaskRow) /\ DOMAIN task' = DOMAIN task
         /\ \A n \in DOMAIN task : /\ task'[n].agent = task[n].agent
                                   /\ task'[n].subject = task[n].subject
                                   /\ task'[n].log = task[n].log
                                   /\ task'[n].at = task[n].at
<1>1. task \in Seq(TaskRow) /\ \A n \in DOMAIN task : task[n] \in TaskRow  BY DEF TypeOK
<1>2. [task[id] EXCEPT !.state = state] \in TaskRow  BY <1>1 DEF TaskRow
<1>3. task' \in Seq(TaskRow) /\ DOMAIN task' = DOMAIN task
  BY <1>1, <1>2
<1>4. ASSUME NEW n \in DOMAIN task
      PROVE  task'[n] = task[n] \/ task'[n] = [task[n] EXCEPT !.state = state]
  BY <1>1
<1>5. QED  BY <1>1, <1>3, <1>4 DEF TaskRow

LEMMA StartTyped ==
  ASSUME TypeOK, StartWork
  PROVE  TypeOK'
<1>1. /\ check.agent \in Agents /\ check.now \in Nat /\ check.todo \in SUBSET Subjects
      /\ check.id \in DOMAIN task /\ check.id \in Nat
  BY CheckFields DEF StartWork, TypeOK
<1>2. task' \in Seq(TaskRow) /\ DOMAIN task' = DOMAIN task
  BY <1>1, StateChange DEF StartWork, TaskState
<1>3. check' = [pc |-> "finish", agent |-> check.agent, now |-> check.now,
                todo |-> check.todo, id |-> check.id]
  BY DEF StartWork, Works
<1>4. check' \in Check /\ check'.id = check.id  BY <1>1, <1>3, Built
<1>5. QED  BY <1>1, <1>2, <1>4 DEF StartWork, TypeOK

LEMMA FinishTyped ==
  ASSUME TypeOK, NEW ok \in BOOLEAN, Finish(ok)
  PROVE  TypeOK'
<1>1. /\ check.agent \in Agents /\ check.now \in Nat /\ check.todo \in SUBSET Subjects
      /\ check.id \in DOMAIN task
  BY CheckFields DEF Finish
<1>2. Outcome(ok) \in TaskState  BY DEF Outcome, TaskState, Final
<1>3. task' \in Seq(TaskRow) /\ DOMAIN task' = DOMAIN task
  BY <1>1, <1>2, StateChange DEF Finish
<1>4. check' \in Check /\ check'.pc = "visit"  BY <1>1, Built DEF Finish, Visits
<1>5. QED  BY <1>3, <1>4 DEF Finish, TypeOK

\* What is in hand is a subject, so what is struck is recorded with its type.
LEMMA InHandTyped ==
  ASSUME TypeOK, check.pc \in {"submit", "start", "finish"}
  PROVE  InHand \in Subjects
<1>1. CASE check.pc = "submit"  BY <1>1, CheckFields DEF InHand
<1>2. CASE check.pc # "submit"
  <2>1. task[check.id] \in TaskRow  BY <1>2, CheckFields DEF TypeOK
  <2>2. QED  BY <1>2, <2>1 DEF InHand, TaskRow
<1>3. QED  BY <1>1, <1>2

LEMMA StrikesTyped ==
  ASSUME TypeOK, check.pc \in {"visit", "submit", "start", "finish"},
         NEW subject \in Subjects, Strikes(subject)
  PROVE  hit' \subseteq [agent : Agents, subject : Subjects, at : Nat]
BY CheckFields DEF Strikes, TypeOK

LEMMA GiveUpTyped ==
  ASSUME TypeOK, GiveUp
  PROVE  TypeOK'
<1>1. /\ check.agent \in Agents /\ check.now \in Nat /\ check.todo \in SUBSET Subjects
      /\ check.pc \in {"start", "finish"}
  BY CheckFields DEF GiveUp
<1>2. check' \in Check /\ check'.pc = "visit"  BY <1>1, Built DEF GiveUp, Visits
<1>3. hit' \subseteq [agent : Agents, subject : Subjects, at : Nat]
  BY <1>1, InHandTyped, StrikesTyped DEF GiveUp
<1>4. QED  BY <1>2, <1>3 DEF GiveUp, TypeOK

LEMMA LookFailsTyped ==
  ASSUME TypeOK, NEW agent \in Agents, NEW subject \in Subjects, LookFails(agent, subject)
  PROVE  TypeOK'
<1>1. /\ check.pc = "visit" /\ check.now \in Nat
      /\ check.todo \ {subject} \in SUBSET Subjects
  BY CheckFields DEF LookFails, Visiting
<1>2. check' \in Check /\ check'.pc = "visit"  BY <1>1, Built DEF LookFails, Visits
<1>3. hit' \subseteq [agent : Agents, subject : Subjects, at : Nat]
  BY <1>1, StrikesTyped DEF LookFails
<1>4. QED  BY <1>2, <1>3 DEF LookFails, TypeOK

LEMMA CutShortTyped ==
  ASSUME TypeOK, CutShort
  PROVE  TypeOK'
<1>1. check' \in Check /\ check'.pc = "idle"  BY DEF CutShort, NoCheck, Check
<1>2. hit' \subseteq [agent : Agents, subject : Subjects, at : Nat]
  <2>1. CASE check.pc \in {"submit", "start", "finish"}
    BY <2>1, InHandTyped, StrikesTyped DEF CutShort
  <2>2. CASE check.pc \notin {"submit", "start", "finish"}
    BY <2>2 DEF CutShort, TypeOK
  <2>3. QED  BY <2>1, <2>2
<1>3. QED  BY <1>1, <1>2 DEF CutShort, TypeOK

LEMMA TypeStep == TypeOK /\ [Next]_vars => TypeOK'
<1> SUFFICES ASSUME TypeOK, [Next]_vars PROVE TypeOK'
  OBVIOUS
<1>1. ASSUME NEW anomalies \in SUBSET Tools, StartCheck(anomalies) PROVE TypeOK'
  <2>1. clock \in Nat /\ anomalies \in SUBSET Subjects /\ "quality" \in Agents
    BY DEF TypeOK, Subjects, Agents
  <2>2. check' \in Check /\ check'.pc = "visit"  BY <1>1, <2>1, Built DEF StartCheck, Visits
  <2>3. QED  BY <1>1, <2>1, <2>2 DEF StartCheck, TypeOK
<1>2. CASE CheckStep
  <2>1. {"equipment", "production"} \subseteq Agents
        /\ Tools \subseteq Subjects /\ ProcessSteps \subseteq Subjects
    BY DEF Agents, Subjects
  <2>2. QED
    BY <1>2, <2>1, VisitAnomalyTyped, VisitProposalTyped, NextAgentTyped, SubmitTyped,
       StartTyped, FinishTyped
       DEF CheckStep
<1>3. CASE Failure
  <2>1. {"equipment", "production"} \subseteq Agents
        /\ Tools \subseteq Subjects /\ ProcessSteps \subseteq Subjects
    BY DEF Agents, Subjects
  <2>2. QED  BY <1>3, <2>1, GiveUpTyped, LookFailsTyped, CutShortTyped DEF Failure
<1>4. CASE Tick
  BY <1>4 DEF Tick, TypeOK
<1>5. CASE UNCHANGED vars
  BY <1>5 DEF vars, TypeOK
<1>6. QED  BY <1>1, <1>2, <1>3, <1>4, <1>5 DEF Next

\* The tables and the running cycle keep their types.
THEOREM ChecksTypeCorrect == Spec => []TypeOK
BY TypeInit, TypeStep, PTL DEF Spec

-----------------------------------------------------------------------------
(* One investigation per window.  The quality agent looks for a recent log *)
(* row, the others for a recent task; so what carries the argument is that *)
(* every task of the quality agent has its log row, of the same tool and   *)
(* time.                                                                   *)

LogOf(row) ==
  /\ row.log \in DOMAIN log
  /\ log[row.log].tool = row.subject
  /\ log[row.log].at = row.at

TasksLogged == \A n \in DOMAIN task : task[n].agent = "quality" => LogOf(task[n])

\* The task about to be submitted.
Planned == [agent |-> check.agent, subject |-> check.subject, log |-> check.log,
            at |-> check.now, state |-> "SUBMITTED"]

\* It has its log row, and follows every task of its subject by the window.
PlannedIsDue ==
  check.pc = "submit" =>
    /\ Planned.agent = "quality" => LogOf(Planned)
    /\ \A n \in DOMAIN task :
         task[n].agent = Planned.agent /\ task[n].subject = Planned.subject
           => Planned.at > task[n].at + Suppress

WindowInv == TypeOK /\ OneInvestigationPerWindow /\ TasksLogged /\ PlannedIsDue

LEMMA WindowInit == Init => WindowInv
BY TypeInit DEF Init, WindowInv, OneInvestigationPerWindow, TasksLogged, PlannedIsDue, NoCheck

\* Steps that leave the tables alone and plan nothing.
LEMMA QuietStep ==
  ASSUME WindowInv, TypeOK', UNCHANGED <<log, task>>,
         check'.pc # "submit" \/ UNCHANGED check
  PROVE  WindowInv'
BY DEF WindowInv, OneInvestigationPerWindow, TasksLogged, PlannedIsDue, Planned, LogOf

\* Steps that only change a task's state.
LEMMA StateStep ==
  ASSUME WindowInv, TypeOK', NEW id \in DOMAIN task, NEW state \in TaskState,
         task' = [task EXCEPT ![id].state = state], UNCHANGED log, check'.pc # "submit"
  PROVE  WindowInv'
<1>1. TypeOK  BY DEF WindowInv
<1>2. /\ DOMAIN task' = DOMAIN task
      /\ \A n \in DOMAIN task : /\ task'[n].agent = task[n].agent
                                /\ task'[n].subject = task[n].subject
                                /\ task'[n].log = task[n].log
                                /\ task'[n].at = task[n].at
  BY <1>1, StateChange
<1>3. OneInvestigationPerWindow'
  BY <1>2 DEF WindowInv, OneInvestigationPerWindow
<1>4. TasksLogged'
  BY <1>2 DEF WindowInv, TasksLogged, LogOf
<1>5. PlannedIsDue'
  BY DEF PlannedIsDue
<1>6. QED  BY <1>3, <1>4, <1>5 DEF WindowInv

LEMMA VisitAnomalyWindow ==
  ASSUME WindowInv, TypeOK', NEW t \in Tools, VisitAnomaly(t)
  PROVE  WindowInv'
<1>1. /\ TypeOK /\ check.pc = "visit" /\ check.agent = "quality" /\ check.now \in Nat
  BY CheckFields DEF VisitAnomaly, Visiting, WindowInv
<1>2. CASE RecentLogs(t, check.now) # {}
  BY <1>2, QuietStep DEF VisitAnomaly, Visits
<1>3. CASE RecentLogs(t, check.now) = {}
  <2> DEFINE row == [tool |-> t, at |-> check.now]
  <2>1. row \in LogRow /\ log \in Seq(LogRow) /\ log' = Append(log, row)
    BY <1>1, <1>3 DEF LogRow, VisitAnomaly, TypeOK
  <2>2. /\ \A k \in DOMAIN log : k \in DOMAIN log' /\ log'[k] = log[k]
        /\ Len(log) + 1 \in DOMAIN log' /\ log'[Len(log) + 1] = row
    BY <2>1, Appended
  <2>3. UNCHANGED task  BY DEF VisitAnomaly
  <2>4. check' = [pc |-> "submit", agent |-> "quality", now |-> check.now,
                  todo |-> check.todo \ {t}, subject |-> t, log |-> Len(log) + 1]
    BY <1>1, <1>3 DEF VisitAnomaly, Submits
  <2>5. TasksLogged'
    BY <2>2, <2>3 DEF WindowInv, TasksLogged, LogOf
  <2>6. OneInvestigationPerWindow'
    BY <2>3 DEF WindowInv, OneInvestigationPerWindow
  <2>7. ASSUME NEW n \in DOMAIN task, task[n].agent = "quality", task[n].subject = t
        PROVE  check.now > task[n].at + Suppress
    <3>1. task[n].log \in DOMAIN log /\ log[task[n].log].tool = t
          /\ log[task[n].log].at = task[n].at
      BY <2>7 DEF WindowInv, TasksLogged, LogOf
    <3>2. ~ (task[n].at >= check.now - Suppress)
      BY <1>3, <3>1 DEF RecentLogs
    <3>3. task[n].at \in Nat  BY <1>1, TimesTyped
    <3>4. QED  BY <1>1, <3>2, <3>3
  <2>8. LogOf(Planned)'
    BY <2>2, <2>4 DEF LogOf, Planned
  <2>9. PlannedIsDue'
    BY <2>3, <2>4, <2>7, <2>8 DEF PlannedIsDue, Planned
  <2>10. QED  BY <2>5, <2>6, <2>9 DEF WindowInv
<1>4. QED  BY <1>2, <1>3

LEMMA VisitProposalWindow ==
  ASSUME WindowInv, TypeOK', NEW agent \in {"equipment", "production"}, NEW subject,
         VisitProposal(agent, subject)
  PROVE  WindowInv'
<1>1. /\ TypeOK /\ check.pc = "visit" /\ check.agent = agent /\ check.now \in Nat
      /\ UNCHANGED <<log, task>>
  BY CheckFields DEF VisitProposal, Visiting, WindowInv
<1>2. CASE RecentTasks(agent, subject, check.now) # {}
  BY <1>1, <1>2, QuietStep DEF VisitProposal, Visits
<1>3. CASE RecentTasks(agent, subject, check.now) = {}
  <2>1. check' = [pc |-> "submit", agent |-> agent, now |-> check.now,
                  todo |-> check.todo \ {subject}, subject |-> subject, log |-> Null]
    BY <1>1, <1>3 DEF VisitProposal, Submits
  <2>2. ASSUME NEW n \in DOMAIN task, task[n].agent = agent, task[n].subject = subject
        PROVE  check.now > task[n].at + Suppress
    <3>1. ~ (task[n].at >= check.now - Suppress)
      BY <1>3, <2>2 DEF RecentTasks
    <3>2. task[n].at \in Nat  BY <1>1, TimesTyped
    <3>3. QED  BY <1>1, <3>1, <3>2
  <2>3. PlannedIsDue'
    BY <1>1, <2>1, <2>2 DEF PlannedIsDue, Planned
  <2>4. QED
    BY <1>1, <2>3 DEF WindowInv, OneInvestigationPerWindow, TasksLogged, LogOf
<1>4. QED  BY <1>2, <1>3

LEMMA SubmitWindow ==
  ASSUME WindowInv, TypeOK', Submit
  PROVE  WindowInv'
<1>1. TypeOK /\ check.pc = "submit" /\ PlannedIsDue /\ UNCHANGED log
  BY DEF WindowInv, Submit
<1>2. Planned \in TaskRow /\ task \in Seq(TaskRow) /\ task' = Append(task, Planned)
  BY <1>1, CheckFields DEF Planned, TaskRow, TaskState, Submit, TypeOK
<1>3. /\ Len(task) \in Nat /\ DOMAIN task = 1 .. Len(task)
      /\ DOMAIN task' = 1 .. Len(task) + 1
      /\ \A n \in DOMAIN task : task'[n] = task[n]
      /\ task'[Len(task) + 1] = Planned
  BY <1>2, Appended
<1>4. OneInvestigationPerWindow'
  <2>1. SUFFICES ASSUME NEW m \in DOMAIN task', NEW n \in DOMAIN task', m < n,
                        task'[m].agent = task'[n].agent, task'[m].subject = task'[n].subject
                 PROVE  task'[n].at > task'[m].at + Suppress
    BY DEF OneInvestigationPerWindow
  <2>2. m \in DOMAIN task /\ task'[m] = task[m]  BY <1>3, <2>1
  <2>3. CASE n \in DOMAIN task
    BY <1>3, <2>1, <2>2, <2>3 DEF WindowInv, OneInvestigationPerWindow
  <2>4. CASE n = Len(task) + 1
    BY <1>1, <1>3, <2>1, <2>2, <2>4 DEF PlannedIsDue
  <2>5. QED  BY <1>3, <2>3, <2>4
<1>5. TasksLogged'
  <2>1. SUFFICES ASSUME NEW n \in DOMAIN task', task'[n].agent = "quality"
                 PROVE  LogOf(task'[n])
    BY <1>1 DEF TasksLogged, LogOf
  <2>2. CASE n \in DOMAIN task
    BY <1>3, <2>1, <2>2 DEF WindowInv, TasksLogged
  <2>3. CASE n = Len(task) + 1
    BY <1>1, <1>3, <2>1, <2>3 DEF PlannedIsDue
  <2>4. QED  BY <1>3, <2>2, <2>3
<1>6. PlannedIsDue'
  BY DEF Submit, Works, PlannedIsDue
<1>7. QED  BY <1>4, <1>5, <1>6 DEF WindowInv

LEMMA WindowStep == WindowInv /\ [Next]_vars => WindowInv'
<1> SUFFICES ASSUME WindowInv, [Next]_vars PROVE WindowInv'
  OBVIOUS
<1>1. TypeOK /\ TypeOK'  BY TypeStep DEF WindowInv
<1>2. ASSUME NEW anomalies \in SUBSET Tools, StartCheck(anomalies) PROVE WindowInv'
  BY <1>1, <1>2, QuietStep DEF StartCheck, Visits
<1>3. CASE NextAgent
  BY <1>1, <1>3, QuietStep DEF NextAgent, Visits, NoCheck
<1>4. CASE StartWork
  <2>1. check.id \in DOMAIN task /\ "WORKING" \in TaskState
    BY <1>1, <1>4, CheckFields DEF StartWork, TaskState
  <2>2. check'.pc # "submit"  BY <1>4 DEF StartWork, Works
  <2>3. QED  BY <1>1, <1>4, <2>1, <2>2, StateStep DEF StartWork
<1>5. ASSUME NEW ok \in BOOLEAN, Finish(ok) PROVE WindowInv'
  <2>1. check.id \in DOMAIN task /\ Outcome(ok) \in TaskState
    BY <1>1, <1>5, CheckFields DEF Finish, Outcome, TaskState, Final
  <2>2. check'.pc # "submit"  BY <1>5 DEF Finish, Visits
  <2>3. QED  BY <1>1, <1>5, <2>1, <2>2, StateStep DEF Finish
<1>6. CASE CheckStep
  BY <1>1, <1>3, <1>4, <1>5, <1>6, VisitAnomalyWindow, VisitProposalWindow, SubmitWindow
     DEF CheckStep
<1>7. CASE Failure
  BY <1>1, <1>7, QuietStep DEF Failure, GiveUp, LookFails, CutShort, Visits, NoCheck
<1>8. CASE Tick \/ UNCHANGED vars
  BY <1>1, <1>8, QuietStep DEF Tick, vars
<1>9. QED  BY <1>2, <1>6, <1>7, <1>8 DEF Next

\* A condition that stands is investigated at most once in a suppression window,
\* whichever investigations fail and wherever cycles die.
THEOREM InvestigatedOnce == Spec => []OneInvestigationPerWindow
<1>1. WindowInv => OneInvestigationPerWindow  BY DEF WindowInv
<1>2. QED  BY <1>1, WindowInit, WindowStep, PTL DEF Spec
-----------------------------------------------------------------------------
(* Failures stay with the subject they struck.  A subject is passed over   *)
(* because of a recent task or log row; so what carries the argument is    *)
(* that a task which has not ended is at work or was struck when it was    *)
(* made, and that a log row has its task, or is about to, or was struck.   *)

HitAt(agent, subject, at) ==
  [agent |-> agent, subject |-> subject, at |-> at] \in hit

AtWork(n) == check.pc \in {"start", "finish"} /\ check.id = n

TasksAccounted ==
  \A n \in DOMAIN task :
    \/ task[n].state \in Final
    \/ AtWork(n)
    \/ HitAt(task[n].agent, task[n].subject, task[n].at)

Followed(row) ==
  \/ \E n \in DOMAIN task : /\ task[n].agent = "quality" /\ task[n].subject = row.tool
                            /\ task[n].at = row.at
  \/ HitAt("quality", row.tool, row.at)

LogsAccounted ==
  \A k \in DOMAIN log :
    \/ Followed(log[k])
    \/ /\ check.pc = "submit" /\ check.agent = "quality"
       /\ check.subject = log[k].tool /\ check.now = log[k].at

\* The task in hand is one of this cycle, and has not ended.
TaskInHand ==
  check.pc \in {"start", "finish"} =>
    /\ task[check.id].agent = check.agent /\ task[check.id].at = check.now
    /\ task[check.id].state \notin Final

Accounted == TasksAccounted /\ LogsAccounted /\ TaskInHand

IsolationInv == TypeOK /\ Accounted /\ FoundIsInvestigated

Answered(subject) ==
  \/ Investigated(check.agent, subject, check.now)
  \/ Struck(check.agent, subject, check.now)

LEMMA IsolationInit == Init => IsolationInv
BY TypeInit
   DEF Init, IsolationInv, Accounted, TasksAccounted, LogsAccounted, TaskInHand,
       FoundIsInvestigated, NoCheck

LEMMA HitTimes ==
  ASSUME TypeOK, NEW h \in hit
  PROVE  h.at \in Nat /\ h = [agent |-> h.agent, subject |-> h.subject, at |-> h.at]
BY DEF TypeOK

\* A subject whose recent task is reused, or whose recent log row is, was
\* investigated or struck.
LEMMA ReusedIsAnswered ==
  ASSUME IsolationInv, check.pc = "visit", NEW subject,
         NEW n \in RecentTasks(check.agent, subject, check.now)
  PROVE  Answered(subject)
<1>1. n \in DOMAIN task /\ task[n].agent = check.agent /\ task[n].subject = subject
      /\ task[n].at >= check.now - Suppress
  BY DEF RecentTasks
<1>2. CASE task[n].state \in Final  BY <1>1, <1>2 DEF Answered, Investigated
<1>3. CASE HitAt(task[n].agent, task[n].subject, task[n].at)
  BY <1>1, <1>3 DEF HitAt, Answered, Struck
<1>4. QED
  BY <1>1, <1>2, <1>3 DEF IsolationInv, Accounted, TasksAccounted, AtWork

LEMMA LoggedIsAnswered ==
  ASSUME IsolationInv, check.pc = "visit", check.agent = "quality",
         NEW t, NEW k \in RecentLogs(t, check.now)
  PROVE  Answered(t)
<1>1. k \in DOMAIN log /\ log[k].tool = t /\ log[k].at >= check.now - Suppress
  BY DEF RecentLogs
<1>2. Followed(log[k])
  BY <1>1 DEF IsolationInv, Accounted, LogsAccounted
<1>3. ASSUME NEW n \in DOMAIN task, task[n].agent = "quality", task[n].subject = log[k].tool,
             task[n].at = log[k].at
      PROVE  Answered(t)
  <2>1. n \in RecentTasks(check.agent, t, check.now)
    BY <1>1, <1>3 DEF RecentTasks
  <2>2. QED  BY <2>1, ReusedIsAnswered
<1>4. CASE HitAt("quality", log[k].tool, log[k].at)
  BY <1>1, <1>4 DEF HitAt, Answered, Struck
<1>5. QED  BY <1>2, <1>3, <1>4 DEF Followed

\* No row is lost or changed but for the state of a task that has not ended,
\* and no failure is forgotten.
RowsStay ==
  /\ hit \subseteq hit'
  /\ \A n \in DOMAIN task :
       /\ n \in DOMAIN task'
       /\ task'[n].agent = task[n].agent /\ task'[n].subject = task[n].subject
       /\ task'[n].at = task[n].at
       /\ task[n].state \in Final => task'[n].state \in Final

SameTurn == check'.agent = check.agent /\ check'.now = check.now

LEMMA AnswersStay ==
  ASSUME RowsStay, SameTurn, NEW subject, Answered(subject)
  PROVE  Answered(subject)'
BY DEF RowsStay, SameTurn, Answered, Investigated, Struck

LEMMA FollowedStays ==
  ASSUME RowsStay, NEW row, Followed(row)
  PROVE  Followed(row)'
BY DEF RowsStay, Followed, HitAt

\* A turn goes on: what was passed by stays accounted for, and what is passed
\* by now, or leaves the hands of the cycle, has its answer.
LEMMA TurnGoesOn ==
  ASSUME IsolationInv, check.pc # "idle", RowsStay, SameTurn, found' = found,
         \A subject \in found \ check'.todo :
           \/ subject \in found \ check.todo /\ ~ Working(subject)
           \/ Working(subject)' \/ Answered(subject)'
  PROVE  FoundIsInvestigated'
<1>1. check # NoCheck  BY DEF NoCheck
<1>2. \A subject \in found \ check.todo : Working(subject) \/ Answered(subject)
  BY <1>1 DEF IsolationInv, FoundIsInvestigated, Answered
<1>3. \A subject \in found \ check'.todo : Working(subject)' \/ Answered(subject)'
  BY <1>2, AnswersStay
<1>4. QED  BY <1>3 DEF FoundIsInvestigated, Answered

LEMMA VisitAnomalyIsolated ==
  ASSUME IsolationInv, TypeOK', NEW t \in Tools, VisitAnomaly(t)
  PROVE  IsolationInv'
<1>1. /\ TypeOK /\ check.pc = "visit" /\ check.agent = "quality"
      /\ UNCHANGED <<task, found, hit>>
  BY DEF IsolationInv, VisitAnomaly, Visiting
<1>2. RowsStay  BY <1>1 DEF RowsStay
<1>3. CASE RecentLogs(t, check.now) # {}
  <2>1. /\ UNCHANGED log
        /\ check' = [pc |-> "visit", agent |-> "quality", now |-> check.now,
                     todo |-> check.todo \ {t}]
    BY <1>3 DEF VisitAnomaly, Visits
  <2>2. SameTurn  BY <1>1, <2>1 DEF SameTurn
  <2>3. Answered(t)  BY <1>1, <1>3, LoggedIsAnswered
  <2>4. \A subject : ~ Working(subject)  BY <1>1 DEF Working
  <2>5. Answered(t)'  BY <1>2, <2>2, <2>3, AnswersStay
  <2>6. FoundIsInvestigated'
    BY <1>1, <1>2, <2>1, <2>2, <2>4, <2>5, TurnGoesOn
  <2>7. Accounted'
    BY <1>1, <2>1 DEF IsolationInv, Accounted, TasksAccounted, LogsAccounted, Followed,
                      TaskInHand, AtWork, HitAt
  <2>8. QED  BY <2>6, <2>7 DEF IsolationInv
<1>4. CASE RecentLogs(t, check.now) = {}
  <2> DEFINE row == [tool |-> t, at |-> check.now]
  <2>1. /\ check' = [pc |-> "submit", agent |-> "quality", now |-> check.now,
                     todo |-> check.todo \ {t}, subject |-> t, log |-> Len(log) + 1]
        /\ log' = Append(log, row)
    BY <1>1, <1>4 DEF VisitAnomaly, Submits
  <2>2. row \in LogRow /\ log \in Seq(LogRow)
    BY <1>1, CheckFields DEF LogRow, TypeOK
  <2>3. /\ DOMAIN log' = DOMAIN log \cup {Len(log) + 1}
        /\ \A k \in DOMAIN log : log'[k] = log[k]
        /\ log'[Len(log) + 1] = row
    BY <2>1, <2>2, Appended
  <2>4. SameTurn  BY <1>1, <2>1 DEF SameTurn
  <2>5. Working(t)'  BY <2>1 DEF Working, InHand
  <2>6. \A subject : ~ Working(subject)  BY <1>1 DEF Working
  <2>7. FoundIsInvestigated'
    BY <1>1, <1>2, <2>1, <2>4, <2>5, <2>6, TurnGoesOn
  <2>8. LogsAccounted'
    <3>1. \A k \in DOMAIN log : Followed(log[k])
      BY <1>1 DEF IsolationInv, Accounted, LogsAccounted
    <3>2. \A k \in DOMAIN log : Followed(log[k])'
      BY <1>1, <2>3, <3>1 DEF Followed, HitAt
    <3>3. QED  BY <2>1, <2>3, <3>2 DEF LogsAccounted
  <2>9. TasksAccounted' /\ TaskInHand'
    BY <1>1, <2>1 DEF IsolationInv, Accounted, TasksAccounted, TaskInHand, AtWork, HitAt
  <2>10. QED  BY <2>7, <2>8, <2>9 DEF IsolationInv, Accounted
<1>5. QED  BY <1>3, <1>4

LEMMA VisitProposalIsolated ==
  ASSUME IsolationInv, TypeOK', NEW agent, NEW subject, VisitProposal(agent, subject)
  PROVE  IsolationInv'
<1>1. /\ TypeOK /\ check.pc = "visit" /\ check.agent = agent
      /\ UNCHANGED <<log, task, found, hit>>
  BY DEF IsolationInv, VisitProposal, Visiting
<1>2. RowsStay  BY <1>1 DEF RowsStay
<1>3. /\ check'.agent = check.agent /\ check'.now = check.now
      /\ check'.todo = check.todo \ {subject}
      /\ check'.pc \in {"visit", "submit"}
      /\ check'.pc = "submit" => check'.subject = subject
      /\ check'.pc = "visit" => RecentTasks(agent, subject, check.now) # {}
  BY <1>1 DEF VisitProposal, Visits, Submits
<1>4. SameTurn  BY <1>3 DEF SameTurn
<1>5. Working(subject)' \/ Answered(subject)'
  <2>1. CASE check'.pc = "submit"  BY <1>3, <2>1 DEF Working, InHand
  <2>2. CASE check'.pc = "visit"
    <3>1. Answered(subject)  BY <1>1, <1>3, <2>2, ReusedIsAnswered
    <3>2. QED  BY <1>2, <1>4, <3>1, AnswersStay
  <2>3. QED  BY <1>3, <2>1, <2>2
<1>6. \A s : ~ Working(s)  BY <1>1 DEF Working
<1>7. FoundIsInvestigated'
  BY <1>1, <1>2, <1>3, <1>4, <1>5, <1>6, TurnGoesOn
<1>8. Accounted'
  BY <1>1, <1>3 DEF IsolationInv, Accounted, TasksAccounted, LogsAccounted, Followed,
                    TaskInHand, AtWork, HitAt
<1>9. QED  BY <1>7, <1>8 DEF IsolationInv

LEMMA SubmitIsolated ==
  ASSUME IsolationInv, TypeOK', Submit
  PROVE  IsolationInv'
<1>1. TypeOK /\ check.pc = "submit" /\ UNCHANGED <<log, found, hit>>
  BY DEF IsolationInv, Submit
<1>2. Planned \in TaskRow /\ task \in Seq(TaskRow) /\ task' = Append(task, Planned)
  BY <1>1, CheckFields DEF Planned, TaskRow, TaskState, Submit, TypeOK
<1> DEFINE id == Len(task) + 1
<1>3. /\ DOMAIN task' = DOMAIN task \cup {id}
      /\ \A n \in DOMAIN task : task'[n] = task[n]
      /\ task'[id] = Planned /\ id \in DOMAIN task'
  BY <1>2, Appended
<1>4. check' = [pc |-> "start", agent |-> check.agent, now |-> check.now,
                todo |-> check.todo, id |-> id]
  BY DEF Submit, Works, NewTaskId
<1> HIDE DEF id
<1>5. RowsStay  BY <1>1, <1>3 DEF RowsStay
<1>6. SameTurn  BY <1>4 DEF SameTurn
<1>7. PICK subject : subject = check.subject  OBVIOUS
<1>8. /\ Working(subject)'
      /\ \A s : Working(s) => s = subject
  BY <1>1, <1>3, <1>4, <1>7 DEF Working, InHand, Planned
<1>9. FoundIsInvestigated'
  BY <1>1, <1>4, <1>5, <1>6, <1>8, TurnGoesOn
<1>10. TasksAccounted'
  BY <1>1, <1>3, <1>4 DEF IsolationInv, Accounted, TasksAccounted, AtWork, HitAt
<1>11. LogsAccounted'
  <2>1. ASSUME NEW k \in DOMAIN log PROVE Followed(log[k])'
    <3>1. CASE Followed(log[k])
      BY <1>1, <1>3, <3>1 DEF Followed, HitAt
    <3>2. CASE ~ Followed(log[k])
      <4>1. check.agent = "quality" /\ check.subject = log[k].tool /\ check.now = log[k].at
        BY <1>1, <3>2 DEF IsolationInv, Accounted, LogsAccounted
      <4>2. QED  BY <1>1, <1>3, <4>1 DEF Followed, Planned
    <3>3. QED  BY <3>1, <3>2
  <2>2. QED  BY <1>1, <2>1 DEF LogsAccounted
<1>12. TaskInHand'
  BY <1>3, <1>4 DEF TaskInHand, Planned, Final
<1>13. QED  BY <1>9, <1>10, <1>11, <1>12 DEF IsolationInv, Accounted

\* The two steps that change the state of the task in hand.
LEMMA WorkIsolated ==
  ASSUME IsolationInv, TypeOK', check.pc \in {"start", "finish"}, NEW state \in TaskState,
         task' = [task EXCEPT ![check.id].state = state],
         UNCHANGED <<log, found, hit>>, SameTurn, check'.todo = check.todo,
         \/ check'.pc = "finish" /\ check'.id = check.id /\ state = "WORKING"
         \/ check'.pc = "visit" /\ state \in Final
  PROVE  IsolationInv'
<1>1. TypeOK /\ check.id \in DOMAIN task /\ check.now \in Nat
  BY CheckFields DEF IsolationInv
<1>id. PICK id \in DOMAIN task : id = check.id  BY <1>1
<1>subject. PICK subject : subject = task[id].subject  OBVIOUS
<1>2. /\ DOMAIN task' = DOMAIN task
      /\ \A n \in DOMAIN task : /\ task'[n].agent = task[n].agent
                                /\ task'[n].subject = task[n].subject
                                /\ task'[n].at = task[n].at
  BY <1>1, StateChange
<1>3. task'[id].state = state
      /\ \A n \in DOMAIN task : n # id => task'[n].state = task[n].state
  <2>1. \A n \in DOMAIN task : task[n] \in TaskRow  BY <1>1 DEF TypeOK
  <2>2. QED  BY <1>1, <1>id, <2>1 DEF TaskRow
<1>4. task[id].agent = check.agent /\ task[id].at = check.now /\ task[id].state \notin Final
  BY <1>id DEF IsolationInv, Accounted, TaskInHand
<1>5. RowsStay  BY <1>2, <1>3, <1>4 DEF RowsStay
<1>6. \A s : Working(s) => s = subject  BY <1>id, <1>subject DEF Working, InHand
<1>7. Working(subject)' \/ Answered(subject)'
  <2>1. CASE check'.pc = "finish"
    BY <1>2, <1>id, <1>subject, <2>1 DEF Working, InHand
  <2>2. CASE check'.pc = "visit"
    <3>1. task'[id].at >= check'.now - Suppress
      <4>1. task'[id].at = check.now /\ check'.now = check.now
        BY <1>2, <1>id, <1>4 DEF SameTurn
      <4>2. Suppress \in Nat  BY ChecksAssumption DEF ChecksAssumption
      <4>3. QED  BY <1>1, <4>1, <4>2
    <3>2. QED  BY <1>2, <1>3, <1>4, <1>subject, <2>2, <3>1 DEF Answered, Investigated, SameTurn
  <2>3. QED  BY <2>1, <2>2
<1>8. FoundIsInvestigated'
  BY <1>5, <1>6, <1>7, TurnGoesOn
<1>9. TasksAccounted'
  BY <1>1, <1>2, <1>3, <1>id DEF IsolationInv, Accounted, TasksAccounted, AtWork, HitAt
<1>10. LogsAccounted'
  <2>1. \A k \in DOMAIN log : Followed(log[k])
    BY DEF IsolationInv, Accounted, LogsAccounted
  <2>2. QED  BY <1>2, <2>1 DEF LogsAccounted, Followed, HitAt
<1>11. TaskInHand'
  BY <1>1, <1>2, <1>3, <1>4, <1>id DEF TaskInHand, SameTurn, Final
<1>12. QED  BY <1>8, <1>9, <1>10, <1>11 DEF IsolationInv, Accounted

\* A failure is recorded for the subject in hand, or for the one looked up, and
\* nothing else changes.
LEMMA StrikeIsolated ==
  ASSUME IsolationInv, TypeOK', UNCHANGED <<log, task, found>>, NEW subject,
         check.pc # "idle",
         Strikes(subject), SameTurn, check'.pc = "visit",
         \/ check.pc \in {"start", "finish"} /\ subject = InHand /\ check'.todo = check.todo
         \/ check.pc = "visit" /\ check'.todo = check.todo \ {subject}
  PROVE  IsolationInv'
<1> DEFINE h == [agent |-> check.agent, subject |-> subject, at |-> check.now]
<1>1. TypeOK /\ check.now \in Nat
  BY CheckFields DEF IsolationInv
<1>2. hit' = hit \cup {h}  BY DEF Strikes
<1>3. RowsStay  BY <1>2 DEF RowsStay
<1>4. Answered(subject)'
  <2>1. h.at >= check'.now - Suppress  BY <1>1 DEF SameTurn
  <2>2. QED  BY <1>2, <2>1 DEF Answered, Struck, SameTurn
<1>5. \A s : Working(s) => s = subject  BY DEF Working, InHand
<1>6. FoundIsInvestigated'
  BY <1>3, <1>4, <1>5, TurnGoesOn
<1>7. TasksAccounted'
  <2>1. ASSUME NEW n \in DOMAIN task, AtWork(n)
        PROVE  h = [agent |-> task[n].agent, subject |-> task[n].subject, at |-> task[n].at]
    BY <2>1 DEF AtWork, IsolationInv, Accounted, TaskInHand, InHand
  <2>2. ASSUME NEW n \in DOMAIN task PROVE task[n].state \in Final
                 \/ HitAt(task[n].agent, task[n].subject, task[n].at)'
    BY <1>2, <2>1 DEF IsolationInv, Accounted, TasksAccounted, HitAt
  <2>3. QED  BY <2>2 DEF TasksAccounted, HitAt
<1>8. LogsAccounted'
  <2>1. \A k \in DOMAIN log : Followed(log[k])
    BY DEF IsolationInv, Accounted, LogsAccounted
  <2>2. QED  BY <1>2, <2>1 DEF LogsAccounted, Followed, HitAt
<1>9. QED  BY <1>6, <1>7, <1>8 DEF IsolationInv, Accounted, TaskInHand

LEMMA CutShortIsolated ==
  ASSUME IsolationInv, TypeOK', CutShort
  PROVE  IsolationInv'
<1>1. /\ check' = NoCheck /\ UNCHANGED <<log, task>>
      /\ check.pc \in {"submit", "start", "finish"} => Strikes(InHand)
      /\ check.pc \notin {"submit", "start", "finish"} => UNCHANGED hit
  BY DEF CutShort
<1> DEFINE h == [agent |-> check.agent, subject |-> InHand, at |-> check.now]
<1>2. hit \subseteq hit' /\ (check.pc \in {"submit", "start", "finish"} => h \in hit')
  BY <1>1 DEF Strikes
<1>3. ASSUME NEW n \in DOMAIN task
      PROVE  task[n].state \in Final \/ HitAt(task[n].agent, task[n].subject, task[n].at)'
  <2>1. CASE AtWork(n)
    <3>1. h = [agent |-> task[n].agent, subject |-> task[n].subject, at |-> task[n].at]
          /\ check.pc \in {"start", "finish"}
      BY <2>1 DEF AtWork, IsolationInv, Accounted, TaskInHand, InHand
    <3>2. QED  BY <1>1, <1>2, <3>1 DEF HitAt
  <2>2. CASE ~ AtWork(n)
    BY <1>1, <1>2, <2>2 DEF IsolationInv, Accounted, TasksAccounted, HitAt
  <2>3. QED  BY <2>1, <2>2
<1>4. TasksAccounted'  BY <1>1, <1>3 DEF TasksAccounted, HitAt
<1>5. ASSUME NEW k \in DOMAIN log PROVE Followed(log[k])'
  <2>1. CASE Followed(log[k])  BY <1>1, <1>2, <2>1 DEF Followed, HitAt
  <2>2. CASE ~ Followed(log[k])
    <3>1. h = [agent |-> "quality", subject |-> log[k].tool, at |-> log[k].at]
          /\ check.pc = "submit"
      BY <2>2 DEF IsolationInv, Accounted, LogsAccounted, InHand
    <3>2. QED  BY <1>1, <1>2, <3>1 DEF Followed, HitAt
  <2>3. QED  BY <2>1, <2>2
<1>6. LogsAccounted'  BY <1>1, <1>5 DEF LogsAccounted, Followed, HitAt
<1>7. QED
  BY <1>1, <1>4, <1>6 DEF IsolationInv, Accounted, TaskInHand, FoundIsInvestigated, NoCheck

\* A turn begins with nothing passed by, and nothing in hand.
LEMMA TurnBegins ==
  ASSUME IsolationInv, TypeOK', UNCHANGED <<log, task, hit>>, check.pc \in {"idle", "visit"},
         check' = NoCheck \/ (check'.pc = "visit" /\ found' = check'.todo)
  PROVE  IsolationInv'
<1>1. check'.pc \in {"idle", "visit"}  BY DEF NoCheck
<1>2. FoundIsInvestigated'  BY DEF FoundIsInvestigated
<1>3. TasksAccounted' /\ TaskInHand'
  BY <1>1 DEF IsolationInv, Accounted, TasksAccounted, TaskInHand, AtWork, HitAt
<1>4. LogsAccounted'
  <2>1. \A k \in DOMAIN log : Followed(log[k])
    BY DEF IsolationInv, Accounted, LogsAccounted
  <2>2. QED  BY <2>1 DEF LogsAccounted, Followed, HitAt
<1>5. QED  BY <1>2, <1>3, <1>4 DEF IsolationInv, Accounted

LEMMA IsolationStep == IsolationInv /\ [Next]_vars => IsolationInv'
<1> SUFFICES ASSUME IsolationInv, [Next]_vars PROVE IsolationInv'
  OBVIOUS
<1>1. TypeOK /\ TypeOK'  BY TypeStep DEF IsolationInv
<1>2. ASSUME NEW anomalies \in SUBSET Tools, StartCheck(anomalies) PROVE IsolationInv'
  BY <1>1, <1>2, TurnBegins DEF StartCheck, Visits, NoCheck
<1>3. CASE NextAgent
  BY <1>1, <1>3, TurnBegins DEF NextAgent, Visits
<1>4. CASE StartWork
  <2>1. "WORKING" \in TaskState  BY DEF TaskState
  <2>2. SameTurn /\ check'.todo = check.todo /\ check'.pc = "finish" /\ check'.id = check.id
    BY <1>4 DEF StartWork, Works, SameTurn
  <2>3. QED  BY <1>1, <1>4, <2>1, <2>2, WorkIsolated DEF StartWork
<1>5. ASSUME NEW ok \in BOOLEAN, Finish(ok) PROVE IsolationInv'
  <2>1. Outcome(ok) \in Final /\ Outcome(ok) \in TaskState
    BY DEF Outcome, Final, TaskState
  <2>2. SameTurn /\ check'.todo = check.todo /\ check'.pc = "visit"
    BY <1>5 DEF Finish, Visits, SameTurn
  <2>3. QED  BY <1>1, <1>5, <2>1, <2>2, WorkIsolated DEF Finish
<1>6. CASE CheckStep
  BY <1>1, <1>3, <1>4, <1>5, <1>6, VisitAnomalyIsolated, VisitProposalIsolated, SubmitIsolated
     DEF CheckStep
<1>7. CASE GiveUp
  BY <1>1, <1>7, StrikeIsolated DEF GiveUp, Visits, SameTurn
<1>8. ASSUME NEW agent, NEW subject, LookFails(agent, subject) PROVE IsolationInv'
  BY <1>1, <1>8, StrikeIsolated DEF LookFails, Visiting, Visits, SameTurn
<1>9. CASE Failure
  BY <1>1, <1>7, <1>8, <1>9, CutShortIsolated DEF Failure
<1>10. CASE UNCHANGED <<log, task, check, found, hit>>
  BY <1>1, <1>10
     DEF IsolationInv, Accounted, TasksAccounted, LogsAccounted, Followed, TaskInHand, AtWork,
         HitAt, FoundIsInvestigated, Working, InHand, Investigated, Struck
<1>11. QED  BY <1>2, <1>6, <1>9, <1>10 DEF Next, Tick, vars

\* Whatever fails, and wherever cycles die, what an agent found and passed by
\* was investigated within the window unless a failure struck it there itself.
THEOREM FailuresStayPut == Spec => []FoundIsInvestigated
<1>1. IsolationInv => FoundIsInvestigated  BY DEF IsolationInv
<1>2. QED  BY <1>1, IsolationInit, IsolationStep, PTL DEF Spec
=============================================================================
