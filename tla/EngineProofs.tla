---------------------------- MODULE EngineProofs ----------------------------
(***************************************************************************)
(* The simulation engine, for any number of loops, lots and tools.         *)
(*                                                                         *)
(* No loop drops a timer another one needs.  The strengthening says, of    *)
(* every call in flight, which part of the tick made it and what it saw: a *)
(* recovery is only ever asked for a tool that was down, so its write takes*)
(* effect.  And the engine is a client of the floor: what is proved of the *)
(* lots and the tools survives its failures, crashes and restarts.         *)
(***************************************************************************)
EXTENDS Engine, ShopFloorLots, ShopFloorCounters

Places == {"off", "sleep", "recover", "trip", "create", "list", "lots"}

\* The rows a loop has listed in each part of its tick.
LoopFits(p) ==
  /\ p.pc \in Places
  /\ p.todo \subseteq IF p.pc = "lots" THEN Lots
                      ELSE IF p.pc \in {"recover", "trip"} THEN Tools
                      ELSE {}

LoopsFit ==
  /\ loop \in [Clients -> [pc : Places, todo : SUBSET (Lots \cup Tools)]]
  /\ \A c \in Clients : LoopFits(loop[c])

\* The call a loop has in flight in each part of its tick.
CallFits(p, r) ==
  r # Idle =>
    \/ p.pc = "lots" /\ r.pc \in LotCalls /\ lot[r.lot].status # Absent
    \/ /\ p.pc = "recover" /\ r.pc \in {"outage", "status"}
       /\ r.status = "IDLE" /\ r.toolSeen.status = "DOWN"
    \/ p.pc = "trip" /\ r.pc = "status" /\ r.status = "DOWN"

CallsFit == \A c \in Clients : CallFits(loop[c], req[c])

TimersFit ==
  /\ running \in BOOLEAN
  /\ sched \subseteq Created /\ recov \subseteq Tools
  /\ lost \subseteq Lots \cup Tools

LoopInv == LoopsFit /\ CallsFit /\ TimersFit /\ OnlyAFailureForgets

Downs == {t \in Tools : tool[t].status = "DOWN"}

LEMMA InvTyped ==
  ASSUME Typed, LoopInv
  PROVE  EngineTypeOK
BY DEF Typed, EngineTypeOK, LoopInv, LoopsFit, LoopFits, CallsFit, CallFits, TimersFit, Places

-----------------------------------------------------------------------------
(* The tables keep their types.                                            *)

LEMMA CrashTyped ==
  ASSUME Typed, Crash
  PROVE  Typed'
<1>1. req' \in [Clients -> Request]  BY IdleFits DEF Crash
<1>2. SnapshotsFit'  BY DEF Crash, SnapshotsFit, SnapshotFits, Idle
<1>3. StepMatchesStatus'
  BY DEF Typed, StepMatchesStatus, Created, Crash, lotTables
<1>4. QED
  BY <1>1, <1>2, <1>3 DEF Typed, TypeOK, Crash, lotTables, toolTables, orderTables

LEMMA RepairTyped ==
  ASSUME Typed, NEW t \in Tools, Repair(t)
  PROVE  Typed'
<1>1. tool[t] \in ToolRow /\ outages[t] \in Seq(BOOLEAN)  BY DEF Typed, TypeOK
<1>2. [tool[t] EXCEPT !.status = "IDLE"] \in ToolRow
  BY <1>1 DEF ToolRow, EquipmentStatus
<1>3. tool' = [tool EXCEPT ![t] = [tool[t] EXCEPT !.status = "IDLE"]]
  BY DEF Repair, Typed, TypeOK
<1>4. tool' \in [Tools -> ToolRow]  BY <1>2, <1>3 DEF Typed, TypeOK
<1>5. \A row : [outages[t] EXCEPT ![row] = FALSE] \in Seq(BOOLEAN)
  BY <1>1, ClosedIsSeq
<1>6. outages' \in [Tools -> Seq(BOOLEAN)]
  <2>1. CASE UNCHANGED outages  BY <2>1 DEF Typed, TypeOK
  <2>2. ASSUME NEW row, outages' = [outages EXCEPT ![t][row] = FALSE]
        PROVE  outages' \in [Tools -> Seq(BOOLEAN)]
    <3>1. outages' = [outages EXCEPT ![t] = [outages[t] EXCEPT ![row] = FALSE]]
      BY <2>2 DEF Typed, TypeOK
    <3>2. QED  BY <1>5, <3>1 DEF Typed, TypeOK
  <2>3. QED  BY <2>1, <2>2 DEF Repair
<1>7. StepMatchesStatus' /\ SnapshotsFit'
  BY DEF Typed, StepMatchesStatus, SnapshotsFit, SnapshotFits, Created, Repair, lotTables
<1>8. QED
  BY <1>4, <1>6, <1>7 DEF Typed, TypeOK, Repair, lotTables, orderTables

LEMMA IdleTyped ==
  ASSUME Typed, UNCHANGED vars
  PROVE  Typed'
BY NextTyped

LEMMA HandlerTyped ==
  ASSUME Typed, NEW c \in Clients, HandlerStep(c)
  PROVE  Typed'
<1>1. LotStep(c) \/ EquipmentStep(c)  BY DEF HandlerStep, LotStep, EquipmentStep
<1>2. QED  BY <1>1, LotStepType, EquipmentStepType

LEMMA AbandonTyped ==
  ASSUME Typed, NEW c \in Clients, Abandon(c)
  PROVE  Typed'
BY RefusalType DEF Abandon

LEMMA LoopTyped ==
  ASSUME Typed, NEW c \in Clients, LoopStep(c)
  PROVE  Typed'
<1>1. CASE \/ LoopExits(c) \/ (\E due \in SUBSET recov : BeginTick(c, due))
           \/ ListTools(c) \/ CountWip(c) \/ NoLotLeft(c)
           \/ (\E due \in SUBSET sched : ListLots(c, due)) \/ EndTick(c)
  BY <1>1, IdleTyped
  DEF LoopExits, BeginTick, ListTools, CountWip, NoLotLeft, ListLots, EndTick
<1>2. ASSUME NEW t \in Tools, Recover(c, t) \/ Trip(c, t)
      PROVE  Typed'
  <2>1. "IDLE" \in EquipmentStatus /\ "DOWN" \in EquipmentStatus  BY DEF EquipmentStatus
  <2>2. UNCHANGED vars \/ ReceiveStatus(c, t, "IDLE") \/ ReceiveStatus(c, t, "DOWN")
    BY <1>2 DEF Recover, Trip
  <2>3. QED  BY <2>1, <2>2, IdleTyped, ReceiveStatusType
<1>3. ASSUME NEW l \in Lots, NEW q \in Quantities, Spawn(c, l, q)
      PROVE  Typed'
  <2>1. WorkOrderStep(c)  BY <1>3 DEF Spawn, WorkOrderStep
  <2>2. QED  BY <2>1, WorkOrderStepType
<1>4. ASSUME NEW l \in Lots, Act(c, l)
      PROVE  Typed'
  <2>1. CASE UNCHANGED vars  BY <2>1, IdleTyped
  <2>2. CASE CallsHandler(c, l)
    <3>1. Verdict(l) \in Dispositions /\ ReworkStep \in Steps
      BY EngineAssumption DEF Verdict, Dispositions
    <3>2. QED  BY <2>2, <3>1, ReceiveLotType DEF CallsHandler
  <2>3. QED  BY <1>4, <2>1, <2>2 DEF Act
<1>5. CASE Handles(c)  BY <1>5, HandlerTyped DEF Handles
<1>6. CASE Refused(c)  BY <1>6, AbandonTyped DEF Refused
<1>7. QED  BY <1>1, <1>2, <1>3, <1>4, <1>5, <1>6 DEF LoopStep

LEMMA EngineTyped ==
  ASSUME Typed, [EngineNext]_allVars
  PROVE  Typed'
<1>1. CASE Stop \/ UNCHANGED allVars  BY <1>1, IdleTyped DEF Stop, allVars
<1>2. ASSUME NEW c \in Clients, Start(c) \/ Fails(c) \/ FailsAfterFault(c)
      PROVE  Typed'
  <2>1. CASE Start(c)  BY <2>1, IdleTyped DEF Start
  <2>2. CASE Fails(c)  BY <2>2, AbandonTyped DEF Fails
  <2>3. CASE FailsAfterFault(c)
    <3>1. EquipmentStep(c)  BY <2>3 DEF FailsAfterFault, EquipmentStep
    <3>2. QED  BY <3>1, EquipmentStepType
  <2>4. QED  BY <1>2, <2>1, <2>2, <2>3
<1>3. ASSUME NEW c \in Clients, NEW l \in Lots, NEW q \in Quantities,
             FailsAfterArrival(c, l, q)
      PROVE  Typed'
  <2>1. WorkOrderStep(c)  BY <1>3 DEF FailsAfterArrival, WorkOrderStep
  <2>2. QED  BY <2>1, WorkOrderStepType
<1>4. QED  BY <1>1, <1>2, <1>3, CrashTyped, RepairTyped, LoopTyped DEF EngineNext

-----------------------------------------------------------------------------
(* What the calls do to the rows the timers are about.                     *)

\* A handler's read goes on with the same row, or answers;
LEMMA ReadCall ==
  ASSUME Typed, NEW c \in Clients, req[c].pc \in LotCalls,
         \/ PickTool(c) \/ ReadPending(c) \/ ReadLastProcess(c) \/ ReadAttempts(c)
         \/ ReadFailure(c) \/ CountReworks(c)
  PROVE  /\ UNCHANGED <<lotTables, toolTables, orderTables>>
         /\ \A d \in Clients \ {c} : req'[d] = req[d]
         /\ \/ req'[c] = Idle
            \/ req'[c].pc \in LotCalls /\ req'[c].lot = req[c].lot
<1> DEFINE r == req[c]
<1>1. UNCHANGED <<lotTables, toolTables, orderTables>>
  BY DEF PickTool, ReadPending, ReadLastProcess, ReadAttempts, ReadFailure, CountReworks
<1>2. ASSUME NEW s, Becomes(c, s), s = Idle \/ (s.pc \in LotCalls /\ s.lot = r.lot)
      PROVE  /\ \A d \in Clients \ {c} : req'[d] = req[d]
             /\ req'[c] = Idle \/ (req'[c].pc \in LotCalls /\ req'[c].lot = r.lot)
  BY <1>2 DEF Typed, TypeOK, Becomes
<1>3. \E s : Becomes(c, s) /\ (s = Idle \/ (s.pc \in LotCalls /\ s.lot = r.lot))
  <2>1. CASE Answers(c)  BY <2>1 DEF Answers
  <2>2. CASE PickTool(c) /\ ~ Answers(c)
    <3>1. CASE Becomes(c, [pc |-> "hold", lot |-> r.lot, seen |-> r.seen])
      BY <3>1 DEF LotCalls
    <3>2. ASSUME NEW t, Becomes(c, [pc |-> "dispatch", lot |-> r.lot, seen |-> r.seen,
                                    tool |-> t, toolSeen |-> tool[t]])
          PROVE  \E s : Becomes(c, s) /\ (s = Idle \/ (s.pc \in LotCalls /\ s.lot = r.lot))
      BY <3>2 DEF LotCalls
    <3>3. QED  BY <2>2, <3>1, <3>2 DEF PickTool, ChooseTool, NoToolFree
  <2>3. CASE ReadPending(c) /\ ~ Answers(c)  BY <2>3 DEF ReadPending, LotCalls
  <2>4. CASE ReadLastProcess(c)  BY <2>4 DEF ReadLastProcess, LotCalls
  <2>5. CASE ReadAttempts(c)  BY <2>5 DEF ReadAttempts, LotCalls
  <2>6. CASE ReadFailure(c) /\ ~ Answers(c)
    <3> DEFINE s == [pc |-> IF r.disposition = "REWORK" THEN "cycles" ELSE "dispose",
                     lot |-> r.lot, seen |-> r.seen, disposition |-> r.disposition,
                     row |-> Max(PendingFailures(r.lot))]
    <3>1. Becomes(c, s)  BY <2>6 DEF ReadFailure
    <3>2. s.pc \in LotCalls /\ s.lot = r.lot  BY DEF LotCalls
    <3> HIDE DEF s
    <3>3. QED  BY <3>1, <3>2
  <2>7. CASE CountReworks(c) /\ ~ Answers(c)
    <3> DEFINE s == [r EXCEPT !.pc = "dispose"]
    <3>1. r \in Request /\ r.pc = "cycles"  BY <2>7 DEF Typed, TypeOK, CountReworks
    <3>2. s.pc \in LotCalls /\ s.lot = r.lot  BY <3>1 DEF LotCalls, Request
    <3>3. Becomes(c, s)  BY <2>7 DEF CountReworks
    <3> HIDE DEF s
    <3>4. QED  BY <3>2, <3>3
  <2>8. QED  BY <2>1, <2>2, <2>3, <2>4, <2>5, <2>6, <2>7
<1>4. QED  BY <1>1, <1>2, <1>3

LEMMA SameRows ==
  ASSUME UNCHANGED <<lot, tool>>
  PROVE  Created' = Created /\ Active' = Active /\ Downs' = Downs
BY DEF Created, Active, Downs

\* its commit creates no lot, reopens none and takes no tool down.
LEMMA CommitCall ==
  ASSUME Typed, NEW c \in Clients, LotCommit(c)
  PROVE  /\ req[c].pc \in LotCalls /\ req[c].lot \in Lots
         /\ \A d \in Clients \ {c} : req'[d] = req[d]
         /\ req'[c] = Idle
         /\ Created' = Created /\ Active' \subseteq Active /\ Downs' \subseteq Downs
         /\ \A m \in Lots \ {req[c].lot} : lot'[m] = lot[m]
<1> DEFINE r == req[c]
<1>1. /\ r \in Request /\ r.pc \in LotCalls /\ r.lot \in Lots /\ r.seen \in LotRow
      /\ lot[r.lot].status = r.seen.status /\ SnapshotFits(r) /\ Answers(c)
  BY CommitOnSeen
<1>2. (\A d \in Clients \ {c} : req'[d] = req[d]) /\ req'[c] = Idle
  BY <1>1 DEF Typed, TypeOK, Answers, Becomes
<1>3. lot[r.lot].status \notin Terminal \cup {Absent}
  BY <1>1
  DEF LotCommit, CommitHold, CommitDispatch, CommitInspection, CommitDisposition,
      CommitReworkRelease, SnapshotFits, Advanceable, Absent, Terminal
<1>4. \E s \in LotStatus : \E k : SetLot(r.lot, s, k)
  <2>1. CASE CommitHold(c)  BY <2>1 DEF CommitHold, LotStatus
  <2>2. CASE CommitDispatch(c)
    <3>1. StatusAfterStep(r.seen.step) \in LotStatus  BY DEF StatusAfterStep, LotStatus
    <3>2. QED  BY <2>2, <3>1 DEF CommitDispatch
  <2>3. CASE CommitInspection(c)
    <3>1. (IF r.result = "PASS" THEN "DONE" ELSE "QUALITY_HOLD") \in LotStatus
      BY DEF LotStatus
    <3>2. QED  BY <2>3, <3>1 DEF CommitInspection
  <2>4. CASE CommitDisposition(c)
    <3>1. StatusAfter(r.disposition) \in LotStatus  BY DEF StatusAfter, LotStatus
    <3>2. QED  BY <2>4, <3>1 DEF CommitDisposition
  <2>5. CASE CommitReworkRelease(c)  BY <2>5 DEF CommitReworkRelease, LotStatus
  <2>6. QED  BY <2>1, <2>2, <2>3, <2>4, <2>5 DEF LotCommit
<1>5. PICK l \in Lots : l = r.lot  BY <1>1
<1>6. lot'[l].status # Absent /\ \A m \in Lots \ {l} : lot'[m] = lot[m]
  BY <1>4, <1>5, RowWritten DEF LotStatus, Absent
<1>7. Created' = Created /\ Active' \subseteq Active
  BY <1>3, <1>5, <1>6 DEF Created, Active
<1>8. Downs' \subseteq Downs
  <2>1. CASE UNCHANGED tool  BY <2>1 DEF Downs
  <2>2. CASE CommitDispatch(c)
    <3>1. tool' = [tool EXCEPT ![r.tool] = ToolDispatched(r.tool, r.toolSeen)]
      BY <2>2 DEF CommitDispatch
    <3>2. \A t : ToolDispatched(t, r.toolSeen).status \in {tool[t].status, "RUN"}
      BY DEF ToolDispatched
    <3>3. QED  BY <3>1, <3>2 DEF Downs, Typed, TypeOK
  <2>3. QED
    BY <2>1, <2>2
    DEF LotCommit, CommitHold, CommitInspection, CommitDisposition, CommitReworkRelease,
        toolTables
<1>9. QED  BY <1>1, <1>2, <1>5, <1>6, <1>7, <1>8

\* The plant's commit takes down the tool it reports, or brings it back.
LEMMA ReportCall ==
  ASSUME Typed, NEW c \in Clients, CommitStatus(c)
  PROVE  /\ req[c].pc = "status" /\ req[c].tool \in Tools
         /\ \A d \in Clients \ {c} : req'[d] = req[d]
         /\ req'[c] = Idle
         /\ Created' = Created /\ Active' = Active
         /\ req[c].status = "DOWN" => Downs' \subseteq Downs \cup {req[c].tool}
         /\ req[c].status = "IDLE" /\ req[c].toolSeen.status = "DOWN" =>
              Downs' = Downs \ {req[c].tool}
<1> DEFINE r == req[c]
<1>1. r \in Request /\ r.pc = "status"  BY DEF Typed, TypeOK, CommitStatus
<1>2. PICK t \in Tools : t = r.tool  BY <1>1, RequestFields
<1>3. tool[t] \in ToolRow /\ tool \in [Tools -> ToolRow]  BY DEF Typed, TypeOK
<1>4. tool' = [tool EXCEPT ![t] =
                 [tool[t] EXCEPT !.status = StatusWritten(t, r.toolSeen, r.status)]]
  BY <1>2, <1>3 DEF CommitStatus
<1>5. /\ tool'[t].status = StatusWritten(t, r.toolSeen, r.status)
      /\ \A u \in Tools \ {t} : tool'[u] = tool[u]
  BY <1>3, <1>4 DEF ToolRow
<1>6. UNCHANGED lot  BY DEF CommitStatus, lotTables
<1>7. Created' = Created /\ Active' = Active  BY <1>6 DEF Created, Active
<1>8. (\A d \in Clients \ {c} : req'[d] = req[d]) /\ req'[c] = Idle
  BY DEF Typed, TypeOK, CommitStatus, Answers, Becomes
<1>9. Downs' \subseteq Downs \cup {t}  BY <1>5 DEF Downs
<1>10. r.status = "IDLE" /\ r.toolSeen.status = "DOWN" => Downs' = Downs \ {t}
  BY <1>5 DEF Downs, StatusWritten
<1>11. QED  BY <1>1, <1>2, <1>7, <1>8, <1>9, <1>10

-----------------------------------------------------------------------------
(* The parts of a tick.                                                    *)

LEMMA LoopsKept ==
  ASSUME LoopInv, NEW c \in Clients, NEW p, LoopFits(p), loop' = [loop EXCEPT ![c] = p],
         p \in [pc : Places, todo : SUBSET (Lots \cup Tools)]
  PROVE  LoopsFit' /\ loop'[c] = p /\ \A d \in Clients \ {c} : loop'[d] = loop[d]
BY DEF LoopInv, LoopsFit, LoopFits

LEMMA CallsKept ==
  ASSUME Typed, LoopInv, NEW c \in Clients,
         \A d \in Clients \ {c} : req'[d] = req[d] /\ loop'[d] = loop[d],
         Created \subseteq Created', CallFits(loop[c], req[c])'
  PROVE  CallsFit'
<1> SUFFICES ASSUME NEW d \in Clients \ {c} PROVE CallFits(loop[d], req[d])'
  BY DEF CallsFit
<1>1. CallFits(loop[d], req[d]) /\ req[d] \in Request
  BY DEF LoopInv, CallsFit, Typed, TypeOK
<1>2. req[d].pc \in LotCalls => req[d].lot \in Lots  BY <1>1, LotCallFields
<1>3. \A l \in Lots : lot[l].status # Absent => lot'[l].status # Absent  BY DEF Created
<1>4. QED  BY <1>1, <1>2, <1>3 DEF CallFits

LEMMA AtPlace ==
  ASSUME NEW pc \in Places, NEW todo,
         todo \subseteq IF pc = "lots" THEN Lots
                        ELSE IF pc \in {"recover", "trip"} THEN Tools ELSE {}
  PROVE  /\ LoopFits(At(pc, todo)) /\ At(pc, todo).pc = pc
         /\ At(pc, todo) \in [pc : Places, todo : SUBSET (Lots \cup Tools)]
BY DEF At, LoopFits

\* A loop without a call in flight goes on, and may send one: no lot or tool
\* that still needs its timer loses it, but for a recovery now under way.
LEMMA LoopGoes ==
  ASSUME Typed, LoopInv, NEW c \in Clients, NEW pc \in Places, NEW todo,
         todo \subseteq IF pc = "lots" THEN Lots
                        ELSE IF pc \in {"recover", "trip"} THEN Tools ELSE {},
         loop' = [loop EXCEPT ![c] = At(pc, todo)],
         req[c] = Idle, \A d \in Clients \ {c} : req'[d] = req[d],
         CallFits(At(pc, todo), req'[c]),
         UNCHANGED <<lot, tool, lost>>, running' \in BOOLEAN,
         sched' \subseteq sched, (sched \ sched') \cap Active = {},
         recov' \subseteq recov,
         \A t \in (recov \ recov') \cap Downs : Recovering(c, t)'
  PROVE  LoopInv'
<1>1. /\ LoopsFit' /\ loop'[c] = At(pc, todo)
      /\ \A d \in Clients \ {c} : loop'[d] = loop[d]
  BY AtPlace, LoopsKept
<1>2. Created' = Created /\ Active' = Active /\ Downs' = Downs  BY SameRows
<1>3. CallsFit'
  <2>1. CallFits(loop[c], req[c])'  BY <1>1 DEF CallFits
  <2>2. QED  BY <1>1, <1>2, <2>1, CallsKept
<1>4. TimersFit'  BY <1>2 DEF LoopInv, TimersFit
<1>5. OnlyAFailureForgets'
  <2>1. Active' \subseteq sched' \cup lost'
    BY <1>2 DEF LoopInv, OnlyAFailureForgets
  <2>2. ASSUME NEW t \in Tools, tool'[t].status = "DOWN"
        PROVE  t \in recov' \cup lost' \/ \E d \in Clients : Recovering(d, t)'
    <3>1. t \in Downs  BY <2>2 DEF Downs
    <3>2. CASE t \in recov \cup lost  BY <3>1, <3>2
    <3>3. CASE \E d \in Clients : Recovering(d, t)
      <4>1. PICK d \in Clients : Recovering(d, t)  BY <3>3
      <4>2. d # c  BY <4>1 DEF Recovering, Idle
      <4>3. QED  BY <4>1, <4>2 DEF Recovering
    <3>4. QED  BY <3>1, <3>2, <3>3 DEF LoopInv, OnlyAFailureForgets, Downs
  <2>3. QED  BY <2>1, <2>2 DEF OnlyAFailureForgets
<1>6. QED  BY <1>1, <1>3, <1>4, <1>5 DEF LoopInv

\* Between the parts of a tick that make calls, none is in flight.
LEMMA QuietLoop ==
  ASSUME LoopInv, NEW c \in Clients, loop[c].pc \notin {"recover", "trip", "lots"}
  PROVE  req[c] = Idle
BY DEF LoopInv, CallsFit, CallFits

LEMMA IdleCall ==
  ASSUME NEW p
  PROVE  CallFits(p, Idle)
BY DEF CallFits

LEMMA TickMoves ==
  ASSUME Typed, LoopInv, NEW c \in Clients,
         \/ Start(c) \/ LoopExits(c) \/ (\E due \in SUBSET recov : BeginTick(c, due))
         \/ ListTools(c) \/ CountWip(c) \/ NoLotLeft(c)
         \/ (\E due \in SUBSET sched : ListLots(c, due)) \/ EndTick(c)
  PROVE  LoopInv'
<1>1. UNCHANGED <<lot, tool, lost, sched, recov, req>> /\ running' \in BOOLEAN
  BY DEF Start, LoopExits, BeginTick, ListTools, CountWip, NoLotLeft, ListLots, EndTick,
         vars, lotTables, toolTables, timers, history, LoopInv, TimersFit
<1>2. req[c] = Idle
  BY QuietLoop
  DEF Start, LoopExits, BeginTick, ListTools, CountWip, NoLotLeft, ListLots, EndTick,
      In, Off, Sleeping, At
<1>3. Created \subseteq Lots /\ sched \subseteq Lots /\ recov \subseteq Tools /\ Faulty \subseteq Tools
  BY EngineAssumption DEF Created, LoopInv, TimersFit
<1>4. PICK pc \in Places, todo \in SUBSET (Lots \cup Tools) :
        /\ loop' = [loop EXCEPT ![c] = At(pc, todo)]
        /\ todo \subseteq IF pc = "lots" THEN Lots
                          ELSE IF pc \in {"recover", "trip"} THEN Tools ELSE {}
  <2>1. CASE Start(c) \/ EndTick(c)  BY <2>1 DEF Start, EndTick, Sleeping, Places
  <2>2. CASE LoopExits(c)
    <3>1. loop' = [loop EXCEPT ![c] = At("off", {})]  BY <2>2 DEF LoopExits, Off
    <3>2. "off" \in Places /\ {} \in SUBSET (Lots \cup Tools)  BY DEF Places
    <3>3. QED  BY <3>1, <3>2
  <2>3. CASE \E due \in SUBSET recov : BeginTick(c, due)
    BY <1>3, <2>3 DEF BeginTick, Goes, Places
  <2>4. CASE ListTools(c)
    <3> DEFINE todo == {t \in Faulty : tool[t].status # "DOWN"}
    <3>1. loop' = [loop EXCEPT ![c] = At("trip", todo)] /\ todo \subseteq Tools
      BY <1>3, <2>4 DEF ListTools, Goes
    <3> HIDE DEF todo
    <3>2. QED  BY <3>1 DEF Places
  <2>5. CASE CountWip(c) \/ NoLotLeft(c)  BY <2>5 DEF CountWip, NoLotLeft, Goes, Places
  <2>6. CASE \E due \in SUBSET sched : ListLots(c, due)
    BY <1>3, <2>6 DEF ListLots, Goes, Places
  <2>7. QED  BY <2>1, <2>2, <2>3, <2>4, <2>5, <2>6
<1>5. CallFits(At(pc, todo), req'[c])  BY <1>1, <1>2, IdleCall
<1>6. QED  BY <1>1, <1>2, <1>4, <1>5, LoopGoes

LEMMA TodoTyped ==
  ASSUME LoopInv, NEW c \in Clients
  PROVE  /\ loop[c].pc = "lots" => loop[c].todo \subseteq Lots
         /\ loop[c].pc \in {"recover", "trip"} => loop[c].todo \subseteq Tools
BY DEF LoopInv, LoopsFit, LoopFits

\* The timer of a tool goes, because it is up again or is about to be.
LEMMA RecoverMoves ==
  ASSUME Typed, LoopInv, NEW c \in Clients, NEW t \in Tools, Recover(c, t)
  PROVE  LoopInv'
<1> DEFINE todo == loop[c].todo \ {t}
           a == [pc |-> "outage", tool |-> t, toolSeen |-> tool[t], status |-> "IDLE"]
<1>1. /\ loop' = [loop EXCEPT ![c] = At("recover", todo)] /\ req[c] = Idle
      /\ recov' = recov \ {t} /\ UNCHANGED <<running, sched, lost>>
      /\ todo \subseteq Tools
  BY TodoTyped DEF Recover, Goes, In, history
<1> HIDE DEF todo
<1>2. running' \in BOOLEAN /\ "recover" \in Places
  BY <1>1 DEF LoopInv, TimersFit, Places
<1>3. CASE tool[t].status = "DOWN"
  <2>1. ReceiveStatus(c, t, "IDLE")  BY <1>3 DEF Recover
  <2>2. Becomes(c, a) /\ UNCHANGED <<lot, tool>>
    BY <1>3, <2>1 DEF ReceiveStatus, LeavesDown, lotTables, toolTables
  <2>3. req'[c] = a /\ \A d \in Clients \ {c} : req'[d] = req[d]
    BY <2>2 DEF Typed, TypeOK, Becomes
  <2>4. CallFits(At("recover", todo), req'[c]) /\ Recovering(c, t)'
    BY <1>3, <2>3 DEF CallFits, At, Recovering
  <2>5. \A u \in (recov \ recov') \cap Downs : Recovering(c, u)'
    BY <1>1, <2>4
  <2>6. QED  BY <1>1, <1>2, <2>2, <2>3, <2>4, <2>5, LoopGoes
<1>4. CASE tool[t].status # "DOWN"
  <2>1. UNCHANGED <<lot, tool, req>>
    BY <1>4 DEF Recover, vars, lotTables, toolTables
  <2>2. t \notin Downs  BY <1>4 DEF Downs
  <2>3. CallFits(At("recover", todo), req'[c])  BY <1>1, <2>1, IdleCall
  <2>4. QED  BY <1>1, <1>2, <2>1, <2>2, <2>3, LoopGoes
<1>5. QED  BY <1>3, <1>4

LEMMA TripMoves ==
  ASSUME Typed, LoopInv, NEW c \in Clients, NEW t \in Tools, Trip(c, t)
  PROVE  LoopInv'
<1> DEFINE todo == loop[c].todo \ {t}
           b == [pc |-> "status", tool |-> t, toolSeen |-> tool[t], status |-> "DOWN",
                 row |-> 0]
<1>1. /\ loop' = [loop EXCEPT ![c] = At("trip", todo)] /\ req[c] = Idle
      /\ UNCHANGED <<running, sched, recov, lost>>
      /\ todo \subseteq Tools
  BY TodoTyped DEF Trip, Goes, In, history, timers
<1> HIDE DEF todo
<1>2. running' \in BOOLEAN /\ "trip" \in Places
  BY <1>1 DEF LoopInv, TimersFit, Places
<1>3. Becomes(c, b) /\ UNCHANGED <<lot, tool>>
  BY DEF Trip, ReceiveStatus, LeavesDown, lotTables, toolTables
<1>4. req'[c] = b /\ \A d \in Clients \ {c} : req'[d] = req[d]
  BY <1>3 DEF Typed, TypeOK, Becomes
<1>5. CallFits(At("trip", todo), req'[c])  BY <1>4 DEF CallFits, At
<1>6. QED  BY <1>1, <1>2, <1>3, <1>4, <1>5, LoopGoes

\* A lot's timer goes only when the lot is finished.
LEMMA ActMoves ==
  ASSUME Typed, LoopInv, NEW c \in Clients, NEW l \in Lots, Act(c, l)
  PROVE  LoopInv'
<1> DEFINE todo == loop[c].todo \ {l}
<1>1. /\ loop' = [loop EXCEPT ![c] = At("lots", todo)] /\ req[c] = Idle
      /\ UNCHANGED <<running, recov, lost>>
      /\ todo \subseteq Lots
  BY TodoTyped DEF Act, Goes, In, history
<1> HIDE DEF todo
<1>2. running' \in BOOLEAN /\ "lots" \in Places
  BY <1>1 DEF LoopInv, TimersFit, Places
<1>3. CASE lot[l].status \in Terminal
  <2>1. UNCHANGED <<lot, tool, req>> /\ sched' = sched \ {l}
    BY <1>3 DEF Act, vars, lotTables, toolTables
  <2>2. l \notin Active  BY <1>3 DEF Active
  <2>3. CallFits(At("lots", todo), req'[c])  BY <1>1, <2>1, IdleCall
  <2>4. QED  BY <1>1, <1>2, <2>1, <2>2, <2>3, LoopGoes
<1>4. CASE lot[l].status \notin Terminal
  <2>1. CallsHandler(c, l) /\ UNCHANGED sched  BY <1>4 DEF Act
  <2>2. PICK r : /\ Becomes(c, r) /\ r.pc \in LotCalls /\ r.lot = l
                 /\ lot[l].status # Absent /\ UNCHANGED <<lot, tool>>
    BY <2>1
    DEF CallsHandler, ReceiveAdvance, ReceiveInspection, ReceiveDisposition,
        ReceiveReworkRelease, LotCalls, lotTables, toolTables, Advanceable, Absent
  <2>3. req'[c] = r /\ \A d \in Clients \ {c} : req'[d] = req[d]
    BY <2>2 DEF Typed, TypeOK, Becomes
  <2>4. CallFits(At("lots", todo), req'[c])  BY <2>2, <2>3 DEF CallFits, At
  <2>5. QED  BY <1>1, <1>2, <2>1, <2>2, <2>3, <2>4, LoopGoes
<1>5. QED  BY <1>3, <1>4

\* A new lot gets its timer in the step that creates it.
LEMMA SpawnMoves ==
  ASSUME Typed, LoopInv, NEW c \in Clients, NEW l \in Lots, NEW q \in Quantities,
         Spawn(c, l, q)
  PROVE  LoopInv'
<1>1. /\ InsertLot(l) /\ UNCHANGED <<tool, req, running, recov, lost>>
      /\ sched' = sched \cup {l} /\ loop' = [loop EXCEPT ![c] = At("list", {})]
      /\ req[c] = Idle
  BY DEF Spawn, CreateLot, Goes, In, toolTables, history
<1>2. /\ lot'[l].status = "WAITING" /\ \A m \in Lots \ {l} : lot'[m] = lot[m]
  BY <1>1, RowWritten DEF InsertLot
<1>3. /\ Created' = Created \cup {l} /\ Active' \subseteq Active \cup {l}
      /\ Downs' = Downs
  BY <1>1, <1>2 DEF Created, Active, Absent, Downs
<1>4. LoopsFit' /\ \A d \in Clients \ {c} : loop'[d] = loop[d]
  <2>1. "list" \in Places  BY DEF Places
  <2>2. QED  BY <1>1, <2>1, AtPlace, LoopsKept
<1>5. CallsFit'
  <2>1. CallFits(loop[c], req[c])'  BY <1>1 DEF CallFits
  <2>2. QED  BY <1>1, <1>3, <1>4, <2>1, CallsKept
<1>6. TimersFit'  BY <1>1, <1>3 DEF LoopInv, TimersFit
<1>7. OnlyAFailureForgets'
  BY <1>1, <1>3 DEF LoopInv, OnlyAFailureForgets, Recovering
<1>8. QED  BY <1>4, <1>5, <1>6, <1>7 DEF LoopInv

-----------------------------------------------------------------------------
(* The calls come back.                                                    *)

LEMMA CallOf ==
  ASSUME Typed, LoopInv, NEW c \in Clients, req[c] # Idle
  PROVE  \/ /\ loop[c].pc = "lots" /\ req[c].pc \in LotCalls /\ req[c].lot \in Created
            /\ \A t : ~ Recovering(c, t)
         \/ /\ loop[c].pc \in {"recover", "trip"} /\ req[c].pc \in {"outage", "status"}
            /\ req[c].tool \in Tools
            /\ \/ /\ loop[c].pc = "recover"
                  /\ req[c].status = "IDLE" /\ req[c].toolSeen.status = "DOWN"
               \/ loop[c].pc = "trip" /\ req[c].pc = "status" /\ req[c].status = "DOWN"
<1>1. CallFits(loop[c], req[c]) /\ req[c] \in Request
  BY DEF LoopInv, CallsFit, Typed, TypeOK
<1>2. req[c].pc \in LotCalls => req[c].lot \in Lots  BY <1>1, LotCallFields
<1>3. req[c].pc \in {"outage", "status"} => req[c].tool \in Tools  BY <1>1, RequestFields
<1>4. QED  BY <1>1, <1>2, <1>3 DEF CallFits, Created, Recovering, LotCalls

\* A lot whose call has come back keeps its timer, unless the call finished it.
LEMMA LotCallEnds ==
  ASSUME Typed, LoopInv, NEW c \in Clients, req[c] # Idle, loop[c].pc = "lots",
         req'[c] = Idle, \A d \in Clients \ {c} : req'[d] = req[d] /\ loop'[d] = loop[d],
         LoopsFit', Created' = Created, Active' \subseteq Active, Downs' \subseteq Downs,
         sched' = TimerAfter(req[c].lot), UNCHANGED <<running, recov, lost>>
  PROVE  LoopInv'
<1>1. req[c].pc \in LotCalls /\ req[c].lot \in Created /\ \A t : ~ Recovering(c, t)
  BY CallOf
<1>2. PICK l \in Created : l = req[c].lot  BY <1>1
<1>3. sched' \subseteq sched \cup {l} /\ (sched \cup {l}) \ sched' \subseteq Lots \ Active'
  BY <1>2 DEF TimerAfter, Active, Created
<1>4. CallsFit'
  <2>1. CallFits(loop[c], req[c])'  BY DEF CallFits
  <2>2. QED  BY <2>1, CallsKept
<1>5. TimersFit'  BY <1>3 DEF LoopInv, TimersFit
<1>6. OnlyAFailureForgets'
  <2>1. Active' \subseteq sched' \cup lost'
    BY <1>3 DEF LoopInv, OnlyAFailureForgets
  <2>2. ASSUME NEW t \in Tools, tool'[t].status = "DOWN"
        PROVE  t \in recov' \cup lost' \/ \E d \in Clients : Recovering(d, t)'
    <3>1. tool[t].status = "DOWN"  BY <2>2 DEF Downs
    <3>2. CASE t \in recov \cup lost  BY <3>2
    <3>3. ASSUME NEW d \in Clients, Recovering(d, t)
          PROVE  Recovering(d, t)'
      BY <1>1, <3>3 DEF Recovering
    <3>4. QED  BY <3>1, <3>2, <3>3 DEF LoopInv, OnlyAFailureForgets
  <2>3. QED  BY <2>1, <2>2 DEF OnlyAFailureForgets
<1>7. QED  BY <1>4, <1>5, <1>6 DEF LoopInv

\* A call about a tool goes on, or comes back: the tool it took down has a
\* recovery planned, the one it brought back needs none.
LEMMA ToolCallGoes ==
  ASSUME Typed, LoopInv, NEW c \in Clients, req[c] # Idle, loop[c].pc # "lots",
         \A d \in Clients \ {c} : req'[d] = req[d] /\ loop'[d] = loop[d],
         LoopsFit', CallFits(loop[c], req[c])', UNCHANGED <<lot, sched>>,
         running' \in BOOLEAN,
         recov' \subseteq Tools, lost' \subseteq Lots \cup Tools,
         recov \cup lost \subseteq recov' \cup lost',
         Downs' \subseteq Downs \cup recov' \cup lost',
         \A t \in Downs' : Recovering(c, t) => Recovering(c, t)' \/ t \in recov' \cup lost'
  PROVE  LoopInv'
<1>1. Created' = Created /\ Active' = Active  BY DEF Created, Active
<1>2. CallsFit'  BY <1>1, CallsKept
<1>3. TimersFit'  BY <1>1 DEF LoopInv, TimersFit
<1>4. Active' \subseteq sched' \cup lost'
  <2>1. Active \cap (recov \cup recov') = {}
    BY EngineAssumption DEF LoopInv, TimersFit, Active, Created
  <2>2. Active \subseteq sched \cup lost  BY DEF LoopInv, OnlyAFailureForgets
  <2>3. QED  BY <1>1, <2>1, <2>2
<1>5. ASSUME NEW t \in Tools, tool'[t].status = "DOWN"
      PROVE  t \in recov' \cup lost' \/ \E d \in Clients : Recovering(d, t)'
  <2>1. t \in Downs' /\ (t \in Downs \/ t \in recov' \cup lost')  BY <1>5 DEF Downs
  <2>2. CASE t \in Downs
    <3>1. t \in recov \cup lost \/ \E d \in Clients : Recovering(d, t)
      BY <2>2 DEF LoopInv, OnlyAFailureForgets, Downs
    <3>2. ASSUME NEW d \in Clients, Recovering(d, t)
          PROVE  t \in recov' \cup lost' \/ Recovering(d, t)'
      <4>1. CASE d = c  BY <2>1, <3>2, <4>1
      <4>2. CASE d # c  BY <3>2, <4>2 DEF Recovering
      <4>3. QED  BY <4>1, <4>2
    <3>3. QED  BY <3>1, <3>2
  <2>3. QED  BY <2>1, <2>2
<1>6. QED  BY <1>2, <1>3, <1>4, <1>5 DEF LoopInv, OnlyAFailureForgets

LEMMA SameLoops ==
  ASSUME LoopInv, UNCHANGED loop
  PROVE  LoopsFit'
BY DEF LoopInv, LoopsFit, LoopFits

LEMMA HandlesMoves ==
  ASSUME Typed, LoopInv, NEW c \in Clients, Handles(c)
  PROVE  LoopInv'
<1> DEFINE r == req[c]
<1>1. r # Idle
  BY DEF Handles, HandlerStep, PickTool, CommitHold, CommitDispatch, ReadPending,
         ReadLastProcess, ReadAttempts, CommitInspection, ReadFailure, CountReworks,
         CommitDisposition, CommitReworkRelease, FindOutage, CommitStatus, Idle
<1>2. LoopsFit' /\ UNCHANGED <<running, loop>>  BY SameLoops DEF Handles
<1>3. CASE \/ PickTool(c) \/ ReadPending(c) \/ ReadLastProcess(c) \/ ReadAttempts(c)
           \/ ReadFailure(c) \/ CountReworks(c)
  <2>1. r.pc \in LotCalls
    BY <1>3
    DEF PickTool, ReadPending, ReadLastProcess, ReadAttempts, ReadFailure, CountReworks, LotCalls
  <2>2. loop[c].pc = "lots" /\ r.lot \in Created /\ \A t : ~ Recovering(c, t)
    BY <1>1, <2>1, CallOf DEF LotCalls
  <2>3. /\ UNCHANGED <<lot, tool>> /\ \A d \in Clients \ {c} : req'[d] = req[d]
        /\ req'[c] = Idle \/ (req'[c].pc \in LotCalls /\ req'[c].lot = r.lot)
    BY <1>3, <2>1, ReadCall DEF lotTables, toolTables
  <2>4. Created' = Created /\ Active' = Active /\ Downs' = Downs  BY <2>3, SameRows
  <2>5. CASE req'[c] = Idle
    <3>1. sched' = TimerAfter(r.lot) /\ UNCHANGED <<recov, lost>>
      BY <2>2, <2>5 DEF Handles
    <3>2. QED  BY <1>1, <1>2, <2>2, <2>3, <2>4, <2>5, <3>1, LotCallEnds
  <2>6. CASE req'[c] # Idle
    <3>1. UNCHANGED <<sched, recov, lost>>  BY <2>6 DEF Handles, timers
    <3>2. CallFits(loop[c], req[c])'
      BY <1>2, <2>2, <2>3, <2>6 DEF CallFits, Created
    <3>3. CallsFit'  BY <1>2, <2>3, <2>4, <3>2, CallsKept
    <3>4. \A d \in Clients : \A t : Recovering(d, t) => Recovering(d, t)'
      BY <2>2, <2>3 DEF Recovering
    <3>5. TimersFit' /\ OnlyAFailureForgets'
      BY <1>2, <2>3, <2>4, <3>1, <3>4 DEF LoopInv, TimersFit, OnlyAFailureForgets
    <3>6. QED  BY <1>2, <3>3, <3>5 DEF LoopInv
  <2>7. QED  BY <2>5, <2>6
<1>4. CASE LotCommit(c)
  <2>1. /\ r.pc \in LotCalls /\ req'[c] = Idle
        /\ \A d \in Clients \ {c} : req'[d] = req[d]
        /\ Created' = Created /\ Active' \subseteq Active /\ Downs' \subseteq Downs
    BY <1>4, CommitCall
  <2>2. loop[c].pc = "lots"  BY <1>1, <2>1, CallOf DEF LotCalls
  <2>3. sched' = TimerAfter(r.lot) /\ UNCHANGED <<recov, lost>>
    BY <2>1, <2>2 DEF Handles
  <2>4. QED  BY <1>1, <1>2, <2>1, <2>2, <2>3, LotCallEnds
<1>5. CASE FindOutage(c)
  <2>1. PICK row : /\ Becomes(c, [pc |-> "status", tool |-> r.tool, toolSeen |-> r.toolSeen,
                                  status |-> r.status, row |-> row])
                   /\ r.pc = "outage" /\ UNCHANGED <<lot, tool>>
    BY <1>5 DEF FindOutage, lotTables, toolTables
  <2>2. req'[c] = [pc |-> "status", tool |-> r.tool, toolSeen |-> r.toolSeen,
                   status |-> r.status, row |-> row]
        /\ \A d \in Clients \ {c} : req'[d] = req[d]
    BY <2>1 DEF Typed, TypeOK, Becomes
  <2>3. loop[c].pc = "recover" /\ r.status = "IDLE" /\ r.toolSeen.status = "DOWN"
    BY <1>1, <2>1, CallOf DEF LotCalls, LoopInv, CallsFit, CallFits
  <2>4. UNCHANGED <<sched, recov, lost>>
    BY <2>2 DEF Handles, Idle, timers
  <2>5. CallFits(loop[c], req[c])'  BY <1>2, <2>2, <2>3 DEF CallFits
  <2>6. \A t : Recovering(c, t) => Recovering(c, t)'  BY <2>2 DEF Recovering
  <2>7. Downs' = Downs  BY <2>1, SameRows
  <2>8. QED
    BY <1>1, <1>2, <2>1, <2>2, <2>3, <2>4, <2>5, <2>6, <2>7, ToolCallGoes DEF LoopInv, TimersFit
<1>6. CASE CommitStatus(c)
  <2>1. /\ r.pc = "status" /\ r.tool \in Tools /\ req'[c] = Idle
        /\ \A d \in Clients \ {c} : req'[d] = req[d]
        /\ r.status = "DOWN" => Downs' \subseteq Downs \cup {r.tool}
        /\ r.status = "IDLE" /\ r.toolSeen.status = "DOWN" => Downs' = Downs \ {r.tool}
    BY <1>6, ReportCall
  <2>2. /\ loop[c].pc # "lots"
        /\ (r.status = "IDLE" /\ r.toolSeen.status = "DOWN") \/ r.status = "DOWN"
    BY <1>1, <2>1, CallOf DEF LotCalls
  <2>3. recov' = RecoveryAfter(r) /\ lost' = lost \ recov' /\ UNCHANGED <<lot, sched>>
    BY <1>6, <2>1, <2>2 DEF Handles, CommitStatus, lotTables
  <2>4. recov' = IF r.status = "DOWN" THEN recov \cup {r.tool} ELSE recov
    BY <2>3 DEF RecoveryAfter
  <2>5. CallFits(loop[c], req[c])'  BY <2>1 DEF CallFits
  <2>6. \A t \in Downs' : Recovering(c, t) => t \in recov' \cup lost'
    BY <2>1, <2>2, <2>4 DEF Recovering
  <2>7. QED
    BY <1>1, <1>2, <2>1, <2>2, <2>3, <2>4, <2>5, <2>6, ToolCallGoes DEF LoopInv, TimersFit
<1>7. QED
  BY <1>3, <1>4, <1>5, <1>6 DEF Handles, HandlerStep, LotCommit

-----------------------------------------------------------------------------
(* Refusals and failures.                                                  *)

LEMMA AbandonCall ==
  ASSUME Typed, NEW c \in Clients, Abandon(c)
  PROVE  /\ req[c] # Idle /\ req'[c] = Idle /\ UNCHANGED <<lot, tool>>
         /\ \A d \in Clients \ {c} : req'[d] = req[d]
         /\ Created' = Created /\ Active' = Active /\ Downs' = Downs
<1>1. /\ req[c] # Idle /\ req'[c] = Idle /\ UNCHANGED <<lot, tool>>
      /\ \A d \in Clients \ {c} : req'[d] = req[d]
  BY DEF Typed, TypeOK, Abandon, Answers, Becomes, lotTables, toolTables
<1>2. QED  BY <1>1, SameRows

\* Only a fault is refused for want of room, never a recovery.
LEMMA RefusedMoves ==
  ASSUME Typed, LoopInv, NEW c \in Clients, Refused(c)
  PROVE  LoopInv'
<1> DEFINE r == req[c]
<1>1. /\ r # Idle /\ req'[c] = Idle /\ UNCHANGED <<lot, tool>>
      /\ \A d \in Clients \ {c} : req'[d] = req[d]
      /\ Created' = Created /\ Active' = Active /\ Downs' = Downs
  BY AbandonCall DEF Refused
<1>2. LoopsFit' /\ UNCHANGED <<loop, running, recov, lost>>
  BY SameLoops DEF Refused, history
<1>3. CASE loop[c].pc = "lots"
  <2>1. sched' = TimerAfter(r.lot)  BY <1>3 DEF Refused
  <2>2. QED  BY <1>1, <1>2, <1>3, <2>1, LotCallEnds
<1>4. CASE loop[c].pc # "lots"
  <2>1. UNCHANGED sched  BY <1>4 DEF Refused
  <2>2. r.pc = "status" /\ EntersDown(r.toolSeen, r.status)
    BY <1>1, <1>4, CallOf DEF Refused, WriteRefused
  <2>3. \A t : ~ Recovering(c, t)  BY <2>2 DEF EntersDown, Recovering
  <2>4. CallFits(loop[c], req[c])'  BY <1>1 DEF CallFits
  <2>5. QED
    BY <1>1, <1>2, <1>4, <2>1, <2>3, <2>4, ToolCallGoes DEF LoopInv, TimersFit
<1>5. QED  BY <1>3, <1>4

LEMMA LoopSleeps ==
  ASSUME LoopInv, NEW c \in Clients, loop' = [loop EXCEPT ![c] = Sleeping]
  PROVE  LoopsFit' /\ \A d \in Clients \ {c} : loop'[d] = loop[d]
<1>1. "sleep" \in Places  BY DEF Places
<1>2. QED  BY <1>1, AtPlace, LoopsKept DEF Sleeping

\* A call that fails takes at most the timer of the recovery it was.
LEMMA FailsMoves ==
  ASSUME Typed, LoopInv, NEW c \in Clients, Fails(c)
  PROVE  LoopInv'
<1> DEFINE r == req[c]
<1>1. /\ r # Idle /\ req'[c] = Idle /\ UNCHANGED <<lot, tool>>
      /\ \A d \in Clients \ {c} : req'[d] = req[d]
      /\ Created' = Created /\ Active' = Active /\ Downs' = Downs
  BY AbandonCall DEF Fails
<1>2. UNCHANGED <<running, recov>>  BY DEF Fails
<1>3. CASE loop[c].pc = "lots"
  <2>1. sched' = TimerAfter(r.lot) /\ UNCHANGED lost  BY <1>3 DEF Fails
  <2>2. LoopsFit' /\ \A d \in Clients \ {c} : loop'[d] = loop[d]
    <3>1. CASE UNCHANGED loop  BY <3>1, SameLoops
    <3>2. CASE loop' = [loop EXCEPT ![c].todo = {}]
      <4>1. loop[c] \in [pc : Places, todo : SUBSET (Lots \cup Tools)]
        BY DEF LoopInv, LoopsFit
      <4>2. [loop[c] EXCEPT !.todo = {}] = At("lots", {})
        BY <1>3, <4>1 DEF At
      <4>3. loop' = [loop EXCEPT ![c] = [loop[c] EXCEPT !.todo = {}]]
        BY <3>2 DEF LoopInv, LoopsFit
      <4>4. loop' = [loop EXCEPT ![c] = At("lots", {})]  BY <4>2, <4>3
      <4>5. "lots" \in Places  BY DEF Places
      <4>6. QED  BY <4>4, <4>5, AtPlace, LoopsKept
    <3>3. QED  BY <1>3, <3>1, <3>2 DEF Fails
  <2>3. QED  BY <1>1, <1>2, <1>3, <2>1, <2>2, LotCallEnds
<1>4. CASE loop[c].pc # "lots"
  <2>1. /\ loop' = [loop EXCEPT ![c] = Sleeping] /\ UNCHANGED sched
        /\ lost' = IF r.status = "IDLE" /\ r.tool \notin recov THEN lost \cup {r.tool} ELSE lost
    BY <1>4 DEF Fails
  <2>2. LoopsFit' /\ \A d \in Clients \ {c} : loop'[d] = loop[d]  BY <2>1, LoopSleeps
  <2>3. r.tool \in Tools  BY <1>1, <1>4, CallOf
  <2>4. \A t : Recovering(c, t) => t \in recov' \cup lost'
    BY <1>2, <2>1 DEF Recovering
  <2>5. CallFits(loop[c], req[c])'  BY <1>1 DEF CallFits
  <2>6. QED
    BY <1>1, <1>2, <1>4, <2>1, <2>2, <2>3, <2>4, <2>5, ToolCallGoes DEF LoopInv, TimersFit
<1>5. QED  BY <1>3, <1>4

LEMMA FaultMoves ==
  ASSUME Typed, LoopInv, NEW c \in Clients, FailsAfterFault(c)
  PROVE  LoopInv'
<1> DEFINE r == req[c]
<1>1. /\ r.pc = "status" /\ r.tool \in Tools /\ req'[c] = Idle
      /\ \A d \in Clients \ {c} : req'[d] = req[d]
      /\ r.status = "DOWN" => Downs' \subseteq Downs \cup {r.tool}
      /\ UNCHANGED lot
  BY ReportCall DEF FailsAfterFault, CommitStatus, lotTables
<1>2. /\ loop[c].pc = "trip" /\ loop' = [loop EXCEPT ![c] = Sleeping]
      /\ lost' = lost \cup ({r.tool} \ recov) /\ UNCHANGED <<running, sched, recov>>
  BY DEF FailsAfterFault, timers
<1>3. r # Idle  BY <1>1 DEF Idle
<1>4. r.status = "DOWN"  BY <1>2, <1>3, CallOf
<1>5. LoopsFit' /\ \A d \in Clients \ {c} : loop'[d] = loop[d]  BY <1>2, LoopSleeps
<1>6. CallFits(loop[c], req[c])'  BY <1>1 DEF CallFits
<1>7. \A t : ~ Recovering(c, t)  BY <1>4 DEF Recovering
<1>8. QED
  BY <1>1, <1>2, <1>3, <1>4, <1>5, <1>6, <1>7, ToolCallGoes DEF LoopInv, TimersFit

LEMMA ArrivalMoves ==
  ASSUME Typed, LoopInv, NEW c \in Clients, NEW l \in Lots, NEW q \in Quantities,
         FailsAfterArrival(c, l, q)
  PROVE  LoopInv'
<1>1. /\ InsertLot(l) /\ UNCHANGED <<tool, req, running, sched, recov>>
      /\ lost' = lost \cup {l} /\ loop' = [loop EXCEPT ![c] = Sleeping]
      /\ req[c] = Idle
  BY DEF FailsAfterArrival, CreateLot, In, toolTables, timers
<1>2. /\ lot'[l].status = "WAITING" /\ \A m \in Lots \ {l} : lot'[m] = lot[m]
  BY <1>1, RowWritten DEF InsertLot
<1>3. /\ Created' = Created \cup {l} /\ Active' \subseteq Active \cup {l}
      /\ Downs' = Downs
  BY <1>1, <1>2 DEF Created, Active, Absent, Downs
<1>4. LoopsFit' /\ \A d \in Clients \ {c} : loop'[d] = loop[d]  BY <1>1, LoopSleeps
<1>5. CallsFit'
  <2>1. CallFits(loop[c], req[c])'  BY <1>1 DEF CallFits
  <2>2. QED  BY <1>1, <1>3, <1>4, <2>1, CallsKept
<1>6. TimersFit'  BY <1>1, <1>3 DEF LoopInv, TimersFit
<1>7. OnlyAFailureForgets'
  BY <1>1, <1>3 DEF LoopInv, OnlyAFailureForgets, Recovering
<1>8. QED  BY <1>4, <1>5, <1>6, <1>7 DEF LoopInv

LEMMA CrashMoves ==
  ASSUME Typed, LoopInv, Crash
  PROVE  LoopInv'
<1>1. Created' = Created /\ Active' = Active /\ UNCHANGED tool
  BY DEF Crash, lotTables, toolTables, Created, Active
<1>2. /\ loop' = [c \in Clients |-> Off] /\ req' = [c \in Clients |-> Idle]
      /\ running' = FALSE /\ sched' = {} /\ recov' = {}
      /\ lost' = Active \cup {t \in Tools : tool[t].status = "DOWN"}
  BY DEF Crash
<1>3. LoopsFit'
  <2>1. LoopFits(Off) /\ Off \in [pc : Places, todo : SUBSET (Lots \cup Tools)]
    BY DEF Off, At, LoopFits, Places
  <2> HIDE DEF Off
  <2>2. QED  BY <1>2, <2>1 DEF LoopsFit, LoopFits
<1>4. CallsFit'  BY <1>2 DEF CallsFit, CallFits
<1>5. TimersFit'  BY <1>2 DEF TimersFit, Active, Created
<1>6. OnlyAFailureForgets'  BY <1>1, <1>2 DEF OnlyAFailureForgets
<1>7. QED  BY <1>3, <1>4, <1>5, <1>6 DEF LoopInv

LEMMA RepairMoves ==
  ASSUME Typed, LoopInv, NEW t \in Tools, Repair(t)
  PROVE  LoopInv'
<1>1. UNCHANGED <<lot, req, running, loop, sched, recov, lost>>
  BY DEF Repair, lotTables, engineVars, timers, history
<1>2. \A u \in Tools : tool'[u].status = "DOWN" => tool[u].status = "DOWN"
  <2>1. tool' = [tool EXCEPT ![t] = [tool[t] EXCEPT !.status = "IDLE"]]
    BY DEF Repair, Typed, TypeOK
  <2>2. tool[t] \in ToolRow /\ tool \in [Tools -> ToolRow]  BY DEF Typed, TypeOK
  <2>3. QED  BY <2>1, <2>2 DEF ToolRow
<1>3. Created' = Created /\ Active' = Active  BY <1>1 DEF Created, Active
<1>4. LoopsFit'  BY <1>1, SameLoops
<1>5. CallsFit'  BY <1>1 DEF LoopInv, CallsFit, CallFits
<1>6. TimersFit'  BY <1>1, <1>3 DEF LoopInv, TimersFit
<1>7. OnlyAFailureForgets'
  BY <1>1, <1>2, <1>3 DEF LoopInv, OnlyAFailureForgets, Recovering
<1>8. QED  BY <1>4, <1>5, <1>6, <1>7 DEF LoopInv

LEMMA StopMoves ==
  ASSUME LoopInv, Stop \/ UNCHANGED allVars
  PROVE  LoopInv'
<1>1. /\ UNCHANGED <<lot, tool, req, loop, sched, recov, lost>>
      /\ running' \in BOOLEAN
  BY DEF Stop, allVars, vars, lotTables, toolTables, engineVars, timers, history, LoopInv,
         TimersFit
<1>2. LoopsFit' /\ Created' = Created /\ Active' = Active
  BY <1>1, SameLoops DEF Created, Active
<1>3. QED
  BY <1>1, <1>2
  DEF LoopInv, CallsFit, CallFits, TimersFit, OnlyAFailureForgets, Recovering

LEMMA EngineMoves ==
  ASSUME Typed, LoopInv, [EngineNext]_allVars
  PROVE  LoopInv'
<1>1. ASSUME NEW c \in Clients, LoopStep(c)
      PROVE  LoopInv'
  BY <1>1, TickMoves, RecoverMoves, TripMoves, SpawnMoves, ActMoves, HandlesMoves,
     RefusedMoves
  DEF LoopStep
<1>2. ASSUME NEW c \in Clients, Start(c) \/ Fails(c) \/ FailsAfterFault(c)
      PROVE  LoopInv'
  BY <1>2, TickMoves, FailsMoves, FaultMoves
<1>3. QED  BY <1>1, <1>2, ArrivalMoves, StopMoves, CrashMoves, RepairMoves DEF EngineNext

LEMMA EngineStart == EngineInit => Typed /\ LoopInv
<1> SUFFICES ASSUME EngineInit PROVE Typed /\ LoopInv
  OBVIOUS
<1>1. Typed /\ \A c \in Clients : req[c] = Idle
  BY InitTyped DEF EngineInit, Init
<1>2. Created = {} /\ \A t \in Tools : tool[t].status = "IDLE"
  BY DEF EngineInit, Init, Created
<1>3. LoopsFit
  <2>1. LoopFits(Off) /\ Off \in [pc : Places, todo : SUBSET (Lots \cup Tools)]
    BY DEF Off, At, LoopFits, Places
  <2>2. loop = [c \in Clients |-> Off]  BY DEF EngineInit
  <2> HIDE DEF Off
  <2>3. QED  BY <2>1, <2>2 DEF LoopsFit
<1>4. CallsFit  BY <1>1 DEF CallsFit, CallFits
<1>5. TimersFit  BY DEF EngineInit, TimersFit
<1>6. OnlyAFailureForgets  BY <1>2 DEF OnlyAFailureForgets, Active
<1>7. QED  BY <1>1, <1>3, <1>4, <1>5, <1>6 DEF LoopInv

-----------------------------------------------------------------------------

\* Driven by any number of loops that start, stop, fail and die, with people
\* repairing the tools meanwhile, the tables keep their types, the timers are
\* of rows that exist, and a loop has a call in flight only where its tick
\* makes one.
THEOREM EngineTyping == EngineSpec => []EngineTypeOK
<1>1. Typed /\ LoopInv => EngineTypeOK  BY InvTyped
<1>2. Typed /\ LoopInv /\ [EngineNext]_allVars => Typed' /\ LoopInv'
  BY EngineTyped, EngineMoves
<1>3. QED  BY <1>1, <1>2, EngineStart, PTL DEF EngineSpec

\* No interleaving of the loops that stop() and start() leave running loses a
\* lot or a tool: only a crash or a failed call takes a timer that is needed.
THEOREM OnlyFailuresForget == EngineSpec => []OnlyAFailureForgets
<1>1. LoopInv => OnlyAFailureForgets  BY DEF LoopInv
<1>2. Typed /\ LoopInv /\ [EngineNext]_allVars => Typed' /\ LoopInv'
  BY EngineTyped, EngineMoves
<1>3. QED  BY <1>1, <1>2, EngineStart, PTL DEF EngineSpec

\* The engine never runs a lot off its route either.
THEOREM EngineKeepsRoute == EngineSpec => []StepMatchesStatus
<1>1. Typed => StepMatchesStatus  BY DEF Typed
<1>2. Typed /\ [EngineNext]_allVars => Typed'  BY EngineTyped
<1>3. EngineInit => Typed  BY EngineStart
<1>4. QED  BY <1>1, <1>2, <1>3, PTL DEF EngineSpec

-----------------------------------------------------------------------------
(***************************************************************************)
(* The engine is a client of the floor.  A step of it is a step of         *)
(* ShopFloor, or leaves the lots and their journals alone: a status report *)
(* of its own, the repair of a tool, or a crash, which ends every request  *)
(* wherever it was.  What ShopFloorLots proves of the lots holds in the    *)
(* engine too, and a crash between two steps of a handler breaks none of   *)
(* it.                                                                     *)
(***************************************************************************)

Elsewhere ==
  /\ UNCHANGED <<lotTables, orderTables>>
  /\ \A c \in Clients : req'[c] = req[c] \/ req'[c].pc \notin LotCalls

LEMMA ReportElsewhere ==
  ASSUME Typed, NEW c \in Clients, NEW t, NEW status, ReceiveStatus(c, t, status)
  PROVE  Elsewhere
<1>1. PICK r : r.pc \in {"outage", "status"} /\ Becomes(c, r)  BY DEF ReceiveStatus
<1>2. \A d \in Clients : req'[d] = req[d] \/ req'[d].pc \notin LotCalls
  BY <1>1 DEF Typed, TypeOK, Becomes, LotCalls
<1>3. QED  BY <1>2 DEF Elsewhere, ReceiveStatus

LEMMA LoopIsClient ==
  ASSUME Typed, NEW c \in Clients, LoopStep(c)
  PROVE  [Next]_vars \/ \E t \in Tools : Recover(c, t) \/ Trip(c, t)
<1>1. CASE \/ LoopExits(c) \/ (\E due \in SUBSET recov : BeginTick(c, due))
           \/ ListTools(c) \/ CountWip(c) \/ NoLotLeft(c)
           \/ (\E due \in SUBSET sched : ListLots(c, due)) \/ EndTick(c)
  BY <1>1 DEF LoopExits, BeginTick, ListTools, CountWip, NoLotLeft, ListLots, EndTick
<1>3. ASSUME NEW l \in Lots, NEW q \in Quantities, Spawn(c, l, q)
      PROVE  Next
  BY <1>3 DEF Spawn, WorkOrderStep, Next
<1>4. ASSUME NEW l \in Lots, Act(c, l)
      PROVE  Next \/ UNCHANGED vars
  <2>1. CASE CallsHandler(c, l)
    <3>1. Verdict(l) \in Dispositions /\ ReworkStep \in Steps
      BY EngineAssumption DEF Verdict, Dispositions
    <3>2. LotStep(c)  BY <2>1, <3>1 DEF CallsHandler, LotStep
    <3>3. QED  BY <3>2 DEF Next
  <2>2. QED  BY <1>4, <2>1 DEF Act
<1>5. CASE Handles(c)
  <2>1. LotStep(c) \/ EquipmentStep(c)
    BY <1>5 DEF Handles, HandlerStep, LotStep, EquipmentStep
  <2>2. QED  BY <2>1 DEF Next
<1>6. CASE Refused(c)  BY <1>6 DEF Refused, Next
<1>7. QED  BY <1>1, <1>3, <1>4, <1>5, <1>6 DEF LoopStep

LEMMA ToolsElsewhere ==
  ASSUME Typed, [EngineNext]_allVars
  PROVE  \/ [Next]_vars \/ Crash \/ (\E t \in Tools : Repair(t))
         \/ \E c \in Clients, t \in Tools : Recover(c, t) \/ Trip(c, t)
<1>1. CASE Stop \/ UNCHANGED allVars  BY <1>1 DEF Stop, allVars
<1>2. ASSUME NEW c \in Clients, Start(c) \/ Fails(c) \/ FailsAfterFault(c)
      PROVE  [Next]_vars
  BY <1>2 DEF Start, Fails, FailsAfterFault, EquipmentStep, Next
<1>3. ASSUME NEW c \in Clients, NEW l \in Lots, NEW q \in Quantities,
             FailsAfterArrival(c, l, q)
      PROVE  Next
  BY <1>3 DEF FailsAfterArrival, WorkOrderStep, Next
<1>4. QED  BY <1>1, <1>2, <1>3, LoopIsClient DEF EngineNext

LEMMA EngineIsClient ==
  ASSUME Typed, [EngineNext]_allVars
  PROVE  [Next]_vars \/ Elsewhere
<1>1. CASE Crash
  <2>1. Idle.pc \notin LotCalls  BY DEF Idle, LotCalls
  <2>2. \A c \in Clients : req'[c] = Idle  BY <1>1 DEF Crash
  <2>3. QED  BY <1>1, <2>1, <2>2 DEF Crash, Elsewhere
<1>2. ASSUME NEW t \in Tools, Repair(t)
      PROVE  Elsewhere
  BY <1>2 DEF Repair, Elsewhere
<1>3. ASSUME NEW c \in Clients, NEW t \in Tools, Recover(c, t) \/ Trip(c, t)
      PROVE  UNCHANGED vars \/ Elsewhere
  BY <1>3, ReportElsewhere DEF Recover, Trip
<1>4. QED  BY <1>1, <1>2, <1>3, ToolsElsewhere

\* What the invariants of the lots say is said of the lots, and of the requests
\* that are about one.
LotsInv == QualityInv /\ JournalInv /\ VerdictInv /\ BlameInv

LEMMA LotsElsewhere ==
  ASSUME Typed, LotsInv, Elsewhere
  PROVE  LotsInv'
<1>1. UNCHANGED <<lot, events, inspections>>  BY DEF Elsewhere, lotTables
<1>2. QualityInv'
  <2>1. AttemptsAreContiguous' /\ OneUndecidedFailure' /\ ReworkBounded'
    BY <1>1 DEF LotsInv, QualityInv, AttemptsAreContiguous, OneUndecidedFailure,
                PendingFailures, ReworkBounded, Reworks
  <2>2. ASSUME NEW c \in Clients
        PROVE  Fresh(req[c])'
    <3>1. Fresh(req'[c])  BY DEF LotsInv, QualityInv, AllFresh, Elsewhere, Fresh
    <3>2. QED
      BY <1>1, <3>1 DEF Fresh, StillTrue, PendingFailures, ReworkPermitted, Reworks
  <2>3. QED  BY <2>1, <2>2 DEF QualityInv, AllFresh
<1>3. JournalInv'
  <2>1. \A l \in Lots : LotTold(l)'  BY <1>1 DEF LotsInv, JournalInv, LotTold
  <2>2. \A c \in Clients : MayMove(req[c])'
    BY DEF LotsInv, JournalInv, MayMove, Elsewhere, LotCalls
  <2>3. QED  BY <2>1, <2>2 DEF JournalInv
<1>4. VerdictInv'  BY <1>1 DEF LotsInv, VerdictInv
<1>5. BlameInv'
  <2>1. \A c \in Clients : BlameFits(req'[c])
    BY DEF LotsInv, BlameInv, BlameFits, Elsewhere, LotCalls
  <2>2. \A c \in Clients : BlameFits(req[c])'  BY <1>1, <2>1 DEF BlameFits
  <2>3. QED  BY <1>1, <2>2 DEF LotsInv, BlameInv
<1>6. QED  BY <1>2, <1>3, <1>4, <1>5 DEF LotsInv

LEMMA EngineLots == Typed /\ LotsInv /\ [EngineNext]_allVars => LotsInv'
<1> SUFFICES ASSUME Typed, LotsInv, [EngineNext]_allVars PROVE LotsInv'  OBVIOUS
<1>1. CASE [Next]_vars
  BY <1>1, NextQuality, NextJournal, NextVerdict, NextBlame DEF LotsInv
<1>2. QED  BY <1>1, EngineIsClient, LotsElsewhere

LEMMA EngineStartsLots == EngineInit => LotsInv
BY InitQuality, InitJournal, InitVerdict, InitBlame DEF EngineInit, LotsInv

\* A crash at any step of any handler leaves every lot with a journal of allowed
\* moves that replays to its row: both are written in one transaction.
THEOREM CrashKeepsJournal == EngineSpec => [](JournalReplaysLot /\ JournalIsChain)
<1>1. Typed /\ LotsInv => JournalReplaysLot /\ JournalIsChain
  BY ReplayTold, ChainTold DEF LotsInv
<1>2. Typed /\ [EngineNext]_allVars => Typed'  BY EngineTyped
<1>3. EngineInit => Typed /\ LotsInv  BY EngineStart, EngineStartsLots
<1>4. QED  BY <1>1, <1>2, <1>3, EngineLots, PTL DEF EngineSpec

\* A lot is DONE, SCRAPPED or in REWORK by the verdict of its newest inspection,
\* also when the loops fail, die and start again between its verdicts.
THEOREM CrashKeepsVerdicts == EngineSpec => []VerdictDecidesStatus
<1>1. LotsInv => VerdictDecidesStatus
  BY DEF LotsInv, VerdictInv, VerdictTold, VerdictDecidesStatus
<1>2. Typed /\ [EngineNext]_allVars => Typed'  BY EngineTyped
<1>3. EngineInit => Typed /\ LotsInv  BY EngineStart, EngineStartsLots
<1>4. QED  BY <1>1, <1>2, <1>3, EngineLots, PTL DEF EngineSpec

\* Two loops that retry a lot after each other's refusals never have two failures
\* of it undecided, nor rework it more often than MAX_REWORK_CYCLES.
THEOREM RetriesKeepQuality ==
  EngineSpec => [](AttemptsAreContiguous /\ OneUndecidedFailure /\ ReworkBounded)
<1>1. LotsInv => AttemptsAreContiguous /\ OneUndecidedFailure /\ ReworkBounded
  BY DEF LotsInv, QualityInv
<1>2. Typed /\ [EngineNext]_allVars => Typed'  BY EngineTyped
<1>3. EngineInit => Typed /\ LotsInv  BY EngineStart, EngineStartsLots
<1>4. QED  BY <1>1, <1>2, <1>3, EngineLots, PTL DEF EngineSpec

\* No loop, whatever it saw before, changes a lot that is DONE or SCRAPPED.
THEOREM EngineFreezesFinished == EngineSpec => TerminalIsFinal
<1>1. Typed /\ [EngineNext]_allVars =>
        [\A l \in Lots : lot[l].status \in Terminal =>
           <<lot[l], events[l], inspections[l]>>' = <<lot[l], events[l], inspections[l]>>]_vars
  <2> SUFFICES ASSUME Typed, [EngineNext]_allVars, NEW l \in Lots, lot[l].status \in Terminal
               PROVE  <<lot[l], events[l], inspections[l]>>' = <<lot[l], events[l], inspections[l]>>
    OBVIOUS
  <2>1. CASE [Next]_vars  BY <2>1, TerminalStep
  <2>2. CASE Elsewhere  BY <2>2 DEF Elsewhere, lotTables
  <2>3. QED  BY <2>1, <2>2, EngineIsClient
<1>2. Typed /\ [EngineNext]_allVars => Typed'  BY EngineTyped
<1>3. EngineInit => Typed  BY EngineStart
<1>4. QED  BY <1>1, <1>2, <1>3, PTL DEF EngineSpec, TerminalIsFinal

\* The commands stay atomic: each step of the engine is one step of LotProtocol
\* on one lot, or invisible to it, and a request that dies has done all or nothing.
THEOREM EngineCommandsAtomic == EngineSpec => CommandsAreAtomic
<1>1. Typed /\ LotsInv /\ [EngineNext]_allVars => [Protocol!Next]_(Protocol!protocolVars)
  <2> SUFFICES ASSUME Typed, LotsInv, [EngineNext]_allVars
               PROVE  [Protocol!Next]_(Protocol!protocolVars)
    OBVIOUS
  <2>1. CASE [Next]_vars  BY <2>1, StepOfProtocol DEF LotsInv
  <2>2. CASE Elsewhere  BY <2>2, QuietForProtocol DEF Elsewhere
  <2>3. QED  BY <2>1, <2>2, EngineIsClient
<1>2. Typed /\ [EngineNext]_allVars => Typed'  BY EngineTyped
<1>3. EngineInit => Typed /\ LotsInv /\ Protocol!Init
  BY EngineStart, EngineStartsLots, StartOfProtocol DEF EngineInit
<1>4. QED
  BY <1>1, <1>2, <1>3, EngineLots, PTL DEF EngineSpec, CommandsAreAtomic, Protocol!Spec

-----------------------------------------------------------------------------
(* The tools, as the engine and the people who repair them leave them.     *)

LEMMA EngineReports ==
  ASSUME Typed, OutageInv, NEW c \in Clients, NEW t, NEW status, ReceiveStatus(c, t, status)
  PROVE  OutageInv'
<1> DEFINE s == IF LeavesDown(tool[t], status)
                  THEN [pc |-> "outage", tool |-> t, toolSeen |-> tool[t], status |-> status]
                  ELSE [pc |-> "status", tool |-> t, toolSeen |-> tool[t],
                        status |-> status, row |-> 0]
<1>1. ReportFits(s)  BY DEF ReportFits
<1>2. Becomes(c, s)  BY DEF ReceiveStatus
<1> HIDE DEF s
<1>3. ReportsFit'  BY <1>1, <1>2, BecomesFits DEF OutageInv
<1>4. DownHasOpenOutage'
  BY DEF OutageInv, DownHasOpenOutage, ReceiveStatus, toolTables
<1>5. QED  BY <1>3, <1>4 DEF OutageInv

LEMMA EngineOutages == Typed /\ OutageInv /\ [EngineNext]_allVars => OutageInv'
<1> SUFFICES ASSUME Typed, OutageInv, [EngineNext]_allVars PROVE OutageInv'  OBVIOUS
<1>1. CASE [Next]_vars  BY <1>1, NextOutages
<1>2. CASE Crash
  <2>1. \A c \in Clients : req'[c] = Idle  BY <1>2 DEF Crash
  <2>2. ReportsFit'  BY <2>1, IdleReportFits DEF ReportsFit, ReportFits
  <2>3. DownHasOpenOutage'  BY <1>2 DEF Crash, OutageInv, DownHasOpenOutage, toolTables
  <2>4. QED  BY <2>2, <2>3 DEF OutageInv
<1>3. ASSUME NEW t \in Tools, Repair(t)
      PROVE  OutageInv'
  <2>1. UNCHANGED req  BY <1>3 DEF Repair
  <2>2. \A u \in Tools \ {t} : tool'[u] = tool[u] /\ outages'[u] = outages[u]
    BY <1>3 DEF Repair, Typed, TypeOK
  <2>3. tool'[t].status # "DOWN"  BY <1>3 DEF Repair, Typed, TypeOK, ToolRow
  <2>4. DownHasOpenOutage'  BY <2>2, <2>3 DEF OutageInv, DownHasOpenOutage
  <2>5. ReportsFit'  BY <2>1 DEF OutageInv, ReportsFit, ReportFits
  <2>6. QED  BY <2>4, <2>5 DEF OutageInv
<1>4. ASSUME NEW c \in Clients, NEW t \in Tools, Recover(c, t) \/ Trip(c, t)
      PROVE  OutageInv'
  <2>1. CASE UNCHANGED vars  BY <1>1, <2>1
  <2>2. QED  BY <1>4, <2>1, EngineReports DEF Recover, Trip
<1>5. [Next]_vars \/ Crash \/ (\E t \in Tools : Repair(t))
      \/ \E c \in Clients, t \in Tools : Recover(c, t) \/ Trip(c, t)
  BY ToolsElsewhere
<1>6. QED  BY <1>1, <1>2, <1>3, <1>4, <1>5

\* No crash, failed tick or repair by hand leaves a tool DOWN without a downtime
\* row that is open: fault, recovery and repair write both in one transaction.
THEOREM CrashKeepsOutages == EngineSpec => []DownHasOpenOutage
<1>1. OutageInv => DownHasOpenOutage  BY DEF OutageInv
<1>2. Typed /\ [EngineNext]_allVars => Typed'  BY EngineTyped
<1>3. EngineInit => Typed /\ OutageInv  BY EngineStart, InitOutages DEF EngineInit
<1>4. QED  BY <1>1, <1>2, <1>3, EngineOutages, PTL DEF EngineSpec

LEMMA EngineCounts == Typed /\ CountInv /\ [EngineNext]_allVars => CountInv'
<1> SUFFICES ASSUME Typed, CountInv, [EngineNext]_allVars PROVE CountInv'  OBVIOUS
<1>1. CASE [Next]_vars  BY <1>1, NextCount
<1>2. CASE ~ [Next]_vars
  <2>1. Elsewhere  BY <1>2, EngineIsClient
  <2>2. \A t \in Tools : RunsOf(t)' = RunsOf(t)  BY <2>1 DEF Elsewhere, lotTables, RunsOf
  <2>3. \A t \in Tools : tool'[t].dispatched = tool[t].dispatched
    <3>1. CASE UNCHANGED tool  BY <3>1
    <3>2. ASSUME NEW u \in Tools, Repair(u)
          PROVE  \A t \in Tools : tool'[t].dispatched = tool[t].dispatched
      BY <3>2 DEF Repair, Typed, TypeOK, ToolRow
    <3>3. QED
      BY <1>2, <3>1, <3>2, ToolsElsewhere
      DEF Crash, Recover, Trip, ReceiveStatus, toolTables, vars
  <2>4. \A t \in Tools : IsFiniteSet(RunsOf(t)') /\ Counted(tool[t].dispatched, t)'
    BY <2>2, <2>3 DEF CountInv, Counted
  <2>5. ASSUME NEW c \in Clients, req'[c].pc = "dispatch"
        PROVE  Counted(req[c].toolSeen.dispatched, req[c].tool)'
    <3>1. req'[c] = req[c]  BY <2>1, <2>5 DEF Elsewhere, LotCalls
    <3>2. req[c].tool \in Tools  BY <2>5, <3>1, RequestFields DEF Typed, TypeOK
    <3>3. QED  BY <2>2, <2>5, <3>1, <3>2 DEF CountInv, Counted
  <2>6. QED  BY <2>4, <2>5 DEF CountInv, Counted
<1>3. QED  BY <1>1, <1>2

\* Retries, crashes and repairs by hand make up no dispatch either: a tool's
\* count never exceeds the runs its lots' journals hold.
THEOREM EngineNeverOvercounts == EngineSpec => []DispatchNeverOvercounted
<1>1. CountInv => DispatchNeverOvercounted
  BY DEF CountInv, Counted, DispatchNeverOvercounted
<1>2. Typed /\ [EngineNext]_allVars => Typed'  BY EngineTyped
<1>3. EngineInit => Typed /\ CountInv  BY EngineStart, InitCount DEF EngineInit
<1>4. QED  BY <1>1, <1>2, <1>3, EngineCounts, PTL DEF EngineSpec

-----------------------------------------------------------------------------
(* The dead end of a rework to the last step (see ReworkToLastStep.cfg) is  *)
(* not on the engine's way: it sends every lot back to one earlier step.    *)

SentBackEarly ==
  /\ \A l \in Lots : lot[l].status = "WAITING" => lot[l].step \in {0, ReworkStep}
  /\ \A c \in Clients : req[c].pc = "release" => req[c].step = ReworkStep

LEMMA BecomesOther ==
  ASSUME Typed, NEW c \in Clients, NEW d, NEW r, Becomes(d, r), req'[c].pc = "release",
         r.pc # "release"
  PROVE  req'[c] = req[c]
BY DEF Becomes, Typed, TypeOK

LEMMA AnswersOther ==
  ASSUME Typed, NEW c \in Clients, NEW d, Answers(d), req'[c].pc = "release"
  PROVE  req'[c] = req[c]
BY DEF Answers, Becomes, Idle, Typed, TypeOK

\* The releases in flight are those the loops have asked for.
LEMMA HandlerReleases ==
  ASSUME Typed, NEW c \in Clients, NEW d, HandlerStep(d), req'[c].pc = "release"
  PROVE  req'[c] = req[c]
<1>1. CASE PickTool(d)
  BY <1>1, BecomesOther, AnswersOther DEF PickTool, ChooseTool, NoToolFree
<1>2. CASE \/ CommitHold(d) \/ CommitDispatch(d) \/ CommitInspection(d)
           \/ CommitDisposition(d) \/ CommitReworkRelease(d) \/ CommitStatus(d)
  BY <1>2, AnswersOther
  DEF CommitHold, CommitDispatch, CommitInspection, CommitDisposition,
      CommitReworkRelease, CommitStatus
<1>3. CASE ReadPending(d) \/ ReadLastProcess(d) \/ ReadAttempts(d)
  BY <1>3, BecomesOther, AnswersOther DEF ReadPending, ReadLastProcess, ReadAttempts
<1>4. CASE ReadFailure(d)
  <2>1. \/ Answers(d)
        \/ \E k \in {"cycles", "dispose"} :
              Becomes(d, [pc |-> k, lot |-> req[d].lot, seen |-> req[d].seen,
                          disposition |-> req[d].disposition,
                          row |-> Max(PendingFailures(req[d].lot))])
    BY <1>4 DEF ReadFailure
  <2>2. QED  BY <2>1, BecomesOther, AnswersOther
<1>5. CASE CountReworks(d)
  <2>1. CASE Answers(d)  BY <2>1, AnswersOther
  <2>2. CASE Becomes(d, [req[d] EXCEPT !.pc = "dispose"])
    <3>1. d \in Clients => req[d] \in Request /\ req[d].pc = "cycles"
      BY <1>5 DEF CountReworks, Typed, TypeOK
    <3>2. d \in Clients => [req[d] EXCEPT !.pc = "dispose"].pc = "dispose"
      BY <3>1 DEF Request
    <3>3. QED  BY <2>2, <3>2 DEF Becomes, Typed, TypeOK
  <2>3. QED  BY <1>5, <2>1, <2>2 DEF CountReworks
<1>6. CASE FindOutage(d)
  <2>1. \E r : r.pc = "status" /\ Becomes(d, r)  BY <1>6 DEF FindOutage
  <2>2. QED  BY <2>1, BecomesOther
<1>7. QED  BY <1>1, <1>2, <1>3, <1>4, <1>5, <1>6 DEF HandlerStep

LEMMA ReportReleases ==
  ASSUME Typed, NEW c \in Clients, NEW d, NEW t, NEW status, ReceiveStatus(d, t, status),
         req'[c].pc = "release"
  PROVE  req'[c] = req[c]
<1>1. PICK r : r.pc \in {"outage", "status"} /\ Becomes(d, r)  BY DEF ReceiveStatus
<1>2. QED  BY <1>1, BecomesOther

LEMMA ActReleases ==
  ASSUME Typed, NEW c \in Clients, NEW d, NEW l, Act(d, l), req'[c].pc = "release"
  PROVE  req'[c] = req[c] \/ req'[c].step = ReworkStep
<1>1. CASE UNCHANGED vars  BY <1>1 DEF vars
<1>2. CASE ReceiveAdvance(d, l)  BY <1>2, BecomesOther DEF ReceiveAdvance
<1>3. ASSUME NEW result, ReceiveInspection(d, l, result)
      PROVE  req'[c] = req[c]
  BY <1>3, BecomesOther DEF ReceiveInspection
<1>4. CASE ReceiveDisposition(d, l, Verdict(l))
  BY <1>4, BecomesOther DEF ReceiveDisposition
<1>5. CASE ReceiveReworkRelease(d, l, ReworkStep)
  BY <1>5 DEF ReceiveReworkRelease, Becomes, Typed, TypeOK
<1>6. QED  BY <1>1, <1>2, <1>3, <1>4, <1>5 DEF Act, CallsHandler

LEMMA EngineReleases ==
  ASSUME Typed, [EngineNext]_allVars, NEW c \in Clients, req'[c].pc = "release"
  PROVE  req'[c] = req[c] \/ req'[c].step = ReworkStep
<1>1. CASE UNCHANGED req  BY <1>1
<1>2. CASE Crash  BY <1>2 DEF Crash, Idle
<1>3. ASSUME NEW d \in Clients, Fails(d) \/ FailsAfterFault(d) \/ Refused(d)
      PROVE  req'[c] = req[c]
  BY <1>3, AnswersOther DEF Fails, FailsAfterFault, Refused, Abandon, CommitStatus
<1>4. ASSUME NEW d \in Clients, NEW t \in Tools, Recover(d, t) \/ Trip(d, t)
      PROVE  req'[c] = req[c]
  BY <1>1, <1>4, ReportReleases DEF Recover, Trip, vars
<1>5. ASSUME NEW d \in Clients, NEW l \in Lots, NEW q \in Quantities,
             Spawn(d, l, q) \/ FailsAfterArrival(d, l, q)
      PROVE  UNCHANGED req
  BY <1>5 DEF Spawn, FailsAfterArrival, CreateLot, Receives
<1>6. ASSUME NEW d \in Clients, NEW l \in Lots, Act(d, l)
      PROVE  req'[c] = req[c] \/ req'[c].step = ReworkStep
  BY <1>6, ActReleases
<1>7. ASSUME NEW d \in Clients, Handles(d)
      PROVE  req'[c] = req[c]
  BY <1>7, HandlerReleases DEF Handles
<1>8. ASSUME NEW d \in Clients, LoopStep(d)
      PROVE  req'[c] = req[c] \/ req'[c].step = ReworkStep
  <2>1. CASE \/ LoopExits(d) \/ (\E due \in SUBSET recov : BeginTick(d, due))
             \/ ListTools(d) \/ CountWip(d) \/ NoLotLeft(d)
             \/ (\E due \in SUBSET sched : ListLots(d, due)) \/ EndTick(d)
    BY <2>1
    DEF LoopExits, BeginTick, ListTools, CountWip, NoLotLeft, ListLots, EndTick, vars
  <2>2. QED  BY <1>3, <1>4, <1>5, <1>6, <1>7, <1>8, <2>1 DEF LoopStep
<1>9. CASE Stop \/ UNCHANGED allVars \/ (\E t \in Tools : Repair(t))
           \/ \E d \in Clients : Start(d)
  BY <1>9 DEF Stop, allVars, Repair, Start, vars
<1>10. QED  BY <1>2, <1>3, <1>5, <1>8, <1>9 DEF EngineNext

LEMMA EngineSendsBack ==
  Typed /\ SentBackEarly /\ [EngineNext]_allVars => SentBackEarly'
<1> SUFFICES ASSUME Typed, SentBackEarly, [EngineNext]_allVars PROVE SentBackEarly'  OBVIOUS
<1>1. \A c \in Clients : req'[c].pc = "release" => req'[c].step = ReworkStep
  BY EngineReleases DEF SentBackEarly
<1>2. ASSUME NEW l \in Lots, lot'[l].status = "WAITING"
      PROVE  lot'[l].step \in {0, ReworkStep}
  <2>1. CASE UNCHANGED lotTables  BY <1>2, <2>1 DEF lotTables, SentBackEarly
  <2>2. ASSUME NEW m \in Lots, InsertLot(m)
        PROVE  lot'[l].step \in {0, ReworkStep}
    BY <1>2, <2>2 DEF InsertLot, SetLot, Typed, TypeOK, SentBackEarly
  <2>3. ASSUME NEW c \in Clients, LotCommit(c)
        PROVE  lot'[l].step \in {0, ReworkStep}
    <3>1. CASE CommitReworkRelease(c)
      BY <1>2, <3>1 DEF CommitReworkRelease, SetLot, Typed, TypeOK, SentBackEarly
    <3>2. CASE ~ CommitReworkRelease(c)
      <4>1. \E m, s, k : SetLot(m, s, k) /\ s # "WAITING"
        BY <2>3, <3>2
        DEF LotCommit, CommitHold, CommitDispatch, CommitInspection, CommitDisposition,
            StatusAfterStep, StatusAfter
      <4>2. QED  BY <1>2, <4>1 DEF SetLot, Typed, TypeOK, SentBackEarly
    <3>3. QED  BY <3>1, <3>2
  <2>4. QED  BY <2>1, <2>2, <2>3, EngineIsClient, LotWrites DEF Elsewhere
<1>3. QED  BY <1>1, <1>2 DEF SentBackEarly

\* advance_lot never raises the ValueError of the state machine for a lot of the
\* engine: whatever a crash or a retry does to it, it is never WAITING at the
\* last step, which is the only place it cannot leave.
THEOREM EngineNeverStuck == EngineSpec => []AdvanceNeverRefused
<1>1. Typed /\ SentBackEarly => AdvanceNeverRefused
  <2> SUFFICES ASSUME Typed, SentBackEarly, NEW l \in Created, lot[l].status \in Advanceable,
                      ~ TransitionAllowed(lot[l].status, StatusAfterStep(lot[l].step))
               PROVE  FALSE
    BY DEF AdvanceNeverRefused
  <2>1. StatusAfterStep(lot[l].step) \in {"PROCESSING", "QUALITY_HOLD"}
    BY DEF StatusAfterStep
  <2>2. lot[l].status = "WAITING" /\ StatusAfterStep(lot[l].step) = "QUALITY_HOLD"
    BY <2>1 DEF Advanceable, TransitionAllowed, ALLOWED_LOT_TRANSITIONS
  <2>3. lot[l].step \in {0, ReworkStep}  BY <2>2 DEF SentBackEarly, Created
  <2>4. /\ RouteLength \in Nat /\ RouteLength >= 2 /\ LastStep = RouteLength - 1
        /\ ReworkStep \in Nat /\ ReworkStep < LastStep
    BY TablesAssumption, EngineAssumption DEF LastStep, Steps
  <2>5. QED  BY <2>2, <2>3, <2>4 DEF StatusAfterStep
<1>2. EngineInit => Typed /\ SentBackEarly
  <2>1. EngineInit => SentBackEarly  BY DEF EngineInit, Init, SentBackEarly, Idle, Absent
  <2>2. QED  BY <2>1, EngineStart
<1>3. Typed /\ [EngineNext]_allVars => Typed'  BY EngineTyped
<1>4. QED  BY <1>1, <1>2, <1>3, EngineSendsBack, PTL DEF EngineSpec

\* An inspection by the engine, too, names the tool that ran INSPECT last.
THEOREM EngineBlamesLastTool == EngineSpec => []InspectionBlamesLastTool
<1>1. LotsInv => InspectionBlamesLastTool  BY BlameNamesLast DEF LotsInv
<1>2. Typed /\ [EngineNext]_allVars => Typed'  BY EngineTyped
<1>3. EngineInit => Typed /\ LotsInv  BY EngineStart, EngineStartsLots
<1>4. QED  BY <1>1, <1>2, <1>3, EngineLots, PTL DEF EngineSpec

-----------------------------------------------------------------------------
(***************************************************************************)
(* One loop, which is what start() without a stop() leaves running.  A     *)
(* person may still repair a tool between two of its calls, so what a call *)
(* read can be old after all, but only in one way: a tool it saw DOWN is   *)
(* up.  That is little enough for three statements about the tools that    *)
(* two loops break.  HoldOnlyWhenStarved is not among them: the tool that  *)
(* is repaired may be one a lot is about to be held for.                   *)
(***************************************************************************)

RepairedSince(r) == r.toolSeen.status = "DOWN" /\ tool[r.tool].status # "DOWN"

LoopKnows(r) ==
  /\ r.pc = "dispatch" =>
       r.toolSeen = tool[r.tool] /\ r.toolSeen.status # "DOWN" /\ RunsLeast(r.tool)
  /\ r.pc \in {"outage", "status"} => r.toolSeen = tool[r.tool] \/ RepairedSince(r)
  /\ r.pc = "status" /\ LeavesDown(r.toolSeen, r.status) /\ tool[r.tool].status = "DOWN" =>
       r.row \in OpenOutages(r.tool)

PlantInv ==
  /\ \A c \in Clients : LoopKnows(req[c])
  /\ \A t \in Tools : RowsFit(t)
  /\ RunsExact /\ DispatchIsEven

LEMMA ReportKnows ==
  ASSUME Typed, NEW c \in Clients, NEW t \in Tools, NEW status, ReceiveStatus(c, t, status)
  PROVE  LoopKnows(req[c])'
<1> DEFINE s == IF LeavesDown(tool[t], status)
                  THEN [pc |-> "outage", tool |-> t, toolSeen |-> tool[t], status |-> status]
                  ELSE [pc |-> "status", tool |-> t, toolSeen |-> tool[t],
                        status |-> status, row |-> 0]
<1>1. req'[c] = s /\ UNCHANGED toolTables
  BY DEF ReceiveStatus, Becomes, Typed, TypeOK
<1>2. LoopKnows(s)  BY DEF LoopKnows
<1>3. s.pc \in {"outage", "status"}  OBVIOUS
<1> HIDE DEF s
<1>4. QED
  BY <1>1, <1>2, <1>3 DEF LoopKnows, RepairedSince, OpenOutages, toolTables

LEMMA LoopReads ==
  ASSUME NEW c, Clients = {c}, Typed, OutageInv, PlantInv, [Next]_vars
  PROVE  LoopKnows(req[c])'
<1> DEFINE r == req[c]
<1>1. r \in Request /\ LoopKnows(r) /\ ReportFits(r)
  BY DEF Typed, TypeOK, PlantInv, OutageInv, ReportsFit
<1>2. CASE req'[c].pc \notin {"dispatch", "outage", "status"}
  BY <1>2 DEF LoopKnows
<1>3. CASE req'[c].pc \in {"dispatch", "outage", "status"} /\ req'[c] = r
  <2>1. ASSUME NEW d \in Clients, CommitDispatch(d) \/ CommitStatus(d)
        PROVE  FALSE
    <3>1. req'[c] = Idle
      BY <2>1 DEF CommitDispatch, CommitStatus, Answers, Becomes, Typed, TypeOK
    <3>2. QED  BY <1>3, <3>1 DEF Idle
  <2>2. UNCHANGED toolTables  BY <2>1, ToolWrites
  <2>3. QED
    BY <1>1, <1>3, <2>2 DEF LoopKnows, RepairedSince, RunsLeast, OpenOutages, toolTables
<1>4. CASE PickTool(c) /\ req'[c].pc = "dispatch"
  <2>1. UNCHANGED toolTables  BY <1>4 DEF PickTool
  <2>2. PICK t \in LeastDispatched(Candidates(r.seen.step)) :
          req'[c] = [pc |-> "dispatch", lot |-> r.lot, seen |-> r.seen,
                     tool |-> t, toolSeen |-> tool[t]]
    BY <1>4 DEF PickTool, ChooseTool, NoToolFree, Answers, Becomes, Idle, Typed, TypeOK
  <2>3. t \in Tools /\ tool[t].status # "DOWN"
    BY <2>2 DEF LeastDispatched, Candidates
  <2>4. RunsLeast(t)
    BY <2>2 DEF RunsLeast, OutageInv, DownHasOpenOutage, LeastDispatched, Candidates
  <2>5. QED  BY <2>1, <2>2, <2>3, <2>4 DEF LoopKnows, RunsLeast, toolTables
<1>5. ASSUME NEW t \in Tools, NEW status \in Reports, ReceiveStatus(c, t, status)
      PROVE  LoopKnows(req[c])'
  BY <1>5, ReportKnows
<1>6. CASE FindOutage(c)
  <2>1. r.pc = "outage" /\ UNCHANGED toolTables  BY <1>6 DEF FindOutage
  <2>2. r.tool \in Tools  BY <1>1, <2>1, RequestFields
  <2>3. PICK row \in IF OpenOutages(r.tool) = {} THEN {0} ELSE OpenOutages(r.tool) :
          req'[c] = [pc |-> "status", tool |-> r.tool, toolSeen |-> r.toolSeen,
                     status |-> r.status, row |-> row]
    BY <1>6 DEF FindOutage, Becomes, Typed, TypeOK
  <2>4. tool[r.tool].status = "DOWN" => row \in OpenOutages(r.tool)
    BY <2>2, <2>3 DEF PlantInv, RowsFit
  <2>5. QED
    BY <1>1, <2>1, <2>2, <2>3, <2>4 DEF LoopKnows, RepairedSince, toolTables, OpenOutages
<1>7. QED
  <2>1. CASE PickTool(c) /\ req'[c].pc # "dispatch"
    <3>1. req'[c].pc \notin {"outage", "status"}
      BY <2>1 DEF PickTool, ChooseTool, NoToolFree, Answers, Becomes, Idle, Typed, TypeOK
    <3>2. QED  BY <1>2, <2>1, <3>1
  <2>2. QED  BY <1>2, <1>3, <1>4, <1>5, <1>6, <2>1, ToolReads

\* The row a loop writes is the one it read, or that of a tool repaired since,
\* which has nothing left to close.
LEMMA LoopRows ==
  ASSUME NEW c, Clients = {c}, Typed, OutageInv, PlantInv, [Next]_vars, NEW t \in Tools
  PROVE  RowsFit(t)'
<1> DEFINE r == req[c]
<1>1. r \in Request /\ LoopKnows(r) /\ ReportFits(r)
  BY DEF Typed, TypeOK, PlantInv, OutageInv, ReportsFit
<1>2. RowsFit(t) /\ tool[t] \in ToolRow /\ outages[t] \in Seq(BOOLEAN)
  BY DEF PlantInv, Typed, TypeOK
<1>3. CASE tool'[t].status = tool[t].status /\ outages'[t] = outages[t]
  BY <1>2, <1>3 DEF RowsFit, OpenOutages
<1>4. CASE UNCHANGED toolTables  BY <1>3, <1>4 DEF toolTables
<1>5. CASE CommitDispatch(c)
  <2>1. r.pc = "dispatch" /\ r.tool \in Tools /\ r.toolSeen = tool[r.tool]
        /\ r.toolSeen.status # "DOWN"
    BY <1>1, <1>5, RequestFields DEF CommitDispatch, LoopKnows
  <2>2. CASE r.tool # t  BY <1>3, <1>5, <2>2 DEF CommitDispatch, Typed, TypeOK
  <2>3. CASE r.tool = t
    <3>1. tool[t].status # "DOWN" /\ tool'[t].status # "DOWN" /\ outages'[t] = outages[t]
      BY <1>5, <2>1, <2>3 DEF CommitDispatch, ToolDispatched, Typed, TypeOK
    <3>2. QED  BY <1>2, <3>1 DEF RowsFit, OpenOutages
  <2>4. QED  BY <2>2, <2>3
<1>6. CASE CommitStatus(c)
  <2>1. /\ r.pc = "status" /\ r.tool \in Tools
        /\ r.toolSeen = tool[r.tool] \/ RepairedSince(r)
    BY <1>1, <1>6, RequestFields DEF CommitStatus, LoopKnows
  <2>2. CASE r.tool # t  BY <1>3, <1>6, <2>2 DEF CommitStatus, Typed, TypeOK
  <2>3. CASE r.tool = t /\ r.toolSeen = tool[t]
    <3>1. IF LeavesDown(tool[t], r.status) THEN r.row \in OpenOutages(t) ELSE r.row = 0
      BY <1>1, <2>1, <2>3 DEF LoopKnows, ReportFits, LeavesDown
    <3>2. QED  BY <1>2, <1>6, <2>3, <3>1, ReportRows
  <2>4. CASE r.tool = t /\ RepairedSince(r)
    <3>1. OpenOutages(t) = {} /\ tool[t].status # "DOWN" /\ r.toolSeen.status = "DOWN"
      BY <1>2, <2>4 DEF RepairedSince, RowsFit
    <3>2. /\ tool'[t].status = StatusWritten(t, r.toolSeen, r.status)
          /\ outages'[t] = OutagesWritten(t, r.toolSeen, r.status, r.row)
      BY <1>6, <2>1, <2>4 DEF CommitStatus, Typed, TypeOK, ToolRow
    <3>3. tool'[t].status # "DOWN"  BY <3>1, <3>2 DEF StatusWritten
    <3>4. outages'[t] = outages[t] \/ \E i : outages'[t] = [outages[t] EXCEPT ![i] = FALSE]
      BY <3>1, <3>2 DEF OutagesWritten, EntersDown
    <3>5. OpenOutages(t)' = {}  BY <3>1, <3>4 DEF OpenOutages
    <3>6. QED  BY <3>3, <3>5 DEF RowsFit
  <2>5. QED  BY <2>1, <2>2, <2>3, <2>4
<1>7. QED  BY <1>4, <1>5, <1>6, ToolWrites

LEMMA LoopCounts ==
  ASSUME NEW c, Clients = {c}, Typed, PlantInv, [Next]_vars
  PROVE  RunsExact' /\ DispatchIsEven'
<1>1. LoopKnows(req[c]) /\ RunsExact /\ DispatchIsEven  BY DEF PlantInv
<1>2. CASE CommitDispatch(c)
  <2>1. req[c].toolSeen = tool[req[c].tool] /\ RunsLeast(req[c].tool)
    BY <1>1, <1>2 DEF CommitDispatch, LoopKnows
  <2>2. QED  BY <1>1, <1>2, <2>1, DispatchCounts
<1>3. CASE ~ CommitDispatch(c)  BY <1>1, <1>3, CountsStay
<1>4. QED  BY <1>2, <1>3

\* A repair closes the one row that is open, and makes no call wrong.
LEMMA RepairPlant ==
  ASSUME Typed, PlantInv, NEW t \in Tools, Repair(t)
  PROVE  PlantInv'
<1>1. /\ tool[t] \in ToolRow /\ outages[t] \in Seq(BOOLEAN) /\ RowsFit(t)
      /\ tool[t].status = "DOWN"
  BY DEF PlantInv, Typed, TypeOK, Repair
<1>2. PICK i : OpenOutages(t) = {i} /\ outages'[t] = [outages[t] EXCEPT ![i] = FALSE]
  BY <1>1 DEF RowsFit, Repair, Typed, TypeOK
<1>3. /\ tool'[t].status = "IDLE" /\ tool'[t].dispatched = tool[t].dispatched
      /\ \A u \in Tools \ {t} : tool'[u] = tool[u] /\ outages'[u] = outages[u]
  BY <1>1 DEF Repair, Typed, TypeOK, ToolRow
<1>4. \A u \in Tools : outages'[u] = <<>> => outages[u] = <<>>
  BY <1>1, <1>2, <1>3, RowsStay
<1>5. \A u \in Tools : tool'[u].dispatched = tool[u].dispatched  BY <1>3
<1>6. \A u \in Tools : RowsFit(u)'
  <2>1. \A j \in DOMAIN outages[t] : j # i => ~ outages[t][j]
    BY <1>2 DEF OpenOutages
  <2>2. OpenOutages(t)' = {}  BY <1>2, <2>1 DEF OpenOutages
  <2>3. RowsFit(t)'  BY <1>3, <2>2 DEF RowsFit
  <2>4. QED  BY <1>3, <2>3 DEF PlantInv, RowsFit, OpenOutages
<1>7. RunsExact' /\ DispatchIsEven'
  <2>1. UNCHANGED lotTables  BY DEF Repair
  <2>2. \A u \in Tools : RunsOf(u)' = RunsOf(u)  BY <2>1 DEF lotTables, RunsOf
  <2>3. QED  BY <1>4, <1>5, <2>2 DEF PlantInv, RunsExact, DispatchIsEven
<1>8. ASSUME NEW c \in Clients
      PROVE  LoopKnows(req[c])'
  <2> DEFINE r == req[c]
  <2>1. r \in Request /\ LoopKnows(r) /\ req' = req
    BY DEF Typed, TypeOK, PlantInv, Repair
  <2>2. CASE r.pc = "dispatch"
    <3>1. r.tool \in Tools \ {t}  BY <1>1, <2>1, <2>2, RequestFields DEF LoopKnows
    <3>2. RunsLeast(r.tool)'
      BY <1>4, <1>5, <2>1, <2>2, <3>1 DEF LoopKnows, RunsLeast
    <3>3. QED  BY <1>3, <2>1, <2>2, <3>1, <3>2 DEF LoopKnows
  <2>3. CASE r.pc \in {"outage", "status"} /\ r.tool = t
    <3>1. r.toolSeen.status = "DOWN"
      BY <1>1, <2>1, <2>3 DEF LoopKnows, RepairedSince
    <3>2. QED  BY <1>3, <2>1, <2>3, <3>1 DEF LoopKnows, RepairedSince
  <2>4. CASE r.pc \in {"outage", "status"} /\ r.tool # t
    <3>1. r.tool \in Tools  BY <2>1, <2>4, RequestFields
    <3>2. tool'[r.tool] = tool[r.tool] /\ outages'[r.tool] = outages[r.tool]
      BY <1>3, <2>4, <3>1
    <3>3. QED  BY <2>1, <2>4, <3>2 DEF LoopKnows, RepairedSince, OpenOutages
  <2>5. CASE r.pc \notin {"dispatch", "outage", "status"}
    BY <2>1, <2>5 DEF LoopKnows
  <2>6. QED  BY <2>2, <2>3, <2>4, <2>5
<1>9. QED  BY <1>6, <1>7, <1>8 DEF PlantInv

LEMMA SameTables ==
  ASSUME PlantInv, UNCHANGED <<lotTables, toolTables>>
  PROVE  (\A t \in Tools : RowsFit(t)') /\ RunsExact' /\ DispatchIsEven'
<1>1. \A t \in Tools : RunsOf(t)' = RunsOf(t)  BY DEF lotTables, RunsOf
<1>2. QED
  BY <1>1 DEF PlantInv, RowsFit, OpenOutages, RunsExact, DispatchIsEven, toolTables

LEMMA LoopPlant ==
  ASSUME NEW c, Clients = {c}
  PROVE  Typed /\ OutageInv /\ PlantInv /\ [EngineNext]_allVars => PlantInv'
<1> SUFFICES ASSUME Typed, OutageInv, PlantInv, [EngineNext]_allVars PROVE PlantInv'
  OBVIOUS
<1>1. CASE [Next]_vars
  BY <1>1, LoopReads, LoopRows, LoopCounts DEF PlantInv
<1>2. CASE Crash
  <2>1. req'[c] = Idle  BY <1>2 DEF Crash
  <2>2. LoopKnows(req[c])'  BY <2>1 DEF LoopKnows, Idle
  <2>3. QED  BY <1>2, <2>2, SameTables DEF Crash, PlantInv
<1>3. ASSUME NEW t \in Tools, Repair(t)
      PROVE  PlantInv'
  BY <1>3, RepairPlant
<1>4. ASSUME NEW t \in Tools, Recover(c, t) \/ Trip(c, t)
      PROVE  PlantInv'
  <2>1. CASE UNCHANGED vars  BY <1>1, <2>1
  <2>2. ASSUME NEW status, ReceiveStatus(c, t, status)
        PROVE  PlantInv'
    <3>1. UNCHANGED <<lotTables, toolTables>>  BY <2>2 DEF ReceiveStatus
    <3>2. LoopKnows(req[c])'  BY <2>2, ReportKnows
    <3>3. QED  BY <3>1, <3>2, SameTables DEF PlantInv
  <2>3. QED  BY <1>4, <2>1, <2>2 DEF Recover, Trip
<1>5. QED  BY <1>1, <1>2, <1>3, <1>4, ToolsElsewhere

LEMMA StartPlant == Init => PlantInv
<1> SUFFICES ASSUME Init PROVE PlantInv  OBVIOUS
<1>1. SerialInv  BY InitSerial
<1>2. \A c \in Clients : LoopKnows(req[c])  BY DEF Init, Idle, LoopKnows
<1>3. QED  BY <1>1, <1>2 DEF SerialInv, PlantInv

\* While one loop runs the plant, a tool's dispatch_count is the number of runs
\* in the journals, through failures, restarts and repairs by hand.
THEOREM OneLoopCountsExactly ==
  ASSUME NEW c, Clients = {c}
  PROVE  EngineSpec => []DispatchCountIsExact
<1>1. PlantInv => DispatchCountIsExact  BY DEF PlantInv, RunsExact, DispatchCountIsExact
<1>2. Typed /\ [EngineNext]_allVars => Typed'  BY EngineTyped
<1>3. Typed /\ OutageInv /\ PlantInv /\ [EngineNext]_allVars => PlantInv'  BY LoopPlant
<1>4. EngineInit => Typed /\ OutageInv /\ PlantInv
  BY EngineStart, InitOutages, StartPlant DEF EngineInit
<1>5. QED  BY <1>1, <1>2, <1>3, <1>4, EngineOutages, PTL DEF EngineSpec

\* While one loop runs the plant, tools of a step that were never down share its
\* dispatches to within one, whatever fails, restarts or is repaired.
THEOREM OneLoopSharesEvenly ==
  ASSUME NEW c, Clients = {c}
  PROVE  EngineSpec => []DispatchIsEven
<1>1. PlantInv => DispatchIsEven  BY DEF PlantInv
<1>2. Typed /\ [EngineNext]_allVars => Typed'  BY EngineTyped
<1>3. Typed /\ OutageInv /\ PlantInv /\ [EngineNext]_allVars => PlantInv'  BY LoopPlant
<1>4. EngineInit => Typed /\ OutageInv /\ PlantInv
  BY EngineStart, InitOutages, StartPlant DEF EngineInit
<1>5. QED  BY <1>1, <1>2, <1>3, <1>4, EngineOutages, PTL DEF EngineSpec

\* While one loop runs the plant, exactly one downtime row of a tool is open while
\* it is DOWN and none otherwise, also when a person's repair overtakes the
\* recovery the loop has planned.
THEOREM OneLoopOneOutage ==
  ASSUME NEW c, Clients = {c}
  PROVE  EngineSpec => []OutageOpenIffDown
<1>1. PlantInv => OutageOpenIffDown
  <2> SUFFICES ASSUME PlantInv, NEW t \in Tools
               PROVE  Cardinality(OpenOutages(t)) = IF tool[t].status = "DOWN" THEN 1 ELSE 0
    BY DEF OutageOpenIffDown
  <2>1. RowsFit(t)  BY DEF PlantInv
  <2>2. QED  BY <2>1, FS_EmptySet, FS_Singleton DEF RowsFit
<1>2. Typed /\ [EngineNext]_allVars => Typed'  BY EngineTyped
<1>3. Typed /\ OutageInv /\ PlantInv /\ [EngineNext]_allVars => PlantInv'  BY LoopPlant
<1>4. EngineInit => Typed /\ OutageInv /\ PlantInv
  BY EngineStart, InitOutages, StartPlant DEF EngineInit
<1>5. QED  BY <1>1, <1>2, <1>3, <1>4, EngineOutages, PTL DEF EngineSpec
=============================================================================
