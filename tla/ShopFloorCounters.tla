------------------------- MODULE ShopFloorCounters -------------------------
(***************************************************************************)
(* Proofs about what the rows of the shop floor count: the outages and the *)
(* dispatches of a tool, and the quantities of a work order.               *)
(***************************************************************************)
EXTENDS ShopFloorTypes, SequenceTheorems

-----------------------------------------------------------------------------
(***************************************************************************)
(* What the tool rows record, whatever the requests race.  A tool that is  *)
(* down has an open outage: the strengthening says when a status report    *)
(* carries a row to close, only when it takes the tool out of DOWN.  A     *)
(* tool's dispatch count never exceeds the runs in the journal: every      *)
(* commit that raises it adds one.                                         *)
(*                                                                         *)
(* With one client, which is how the simulation engine drives the floor,   *)
(* the row a request read is the row it writes, and the four statements    *)
(* that a race breaks hold: the count is exact, the load is even, a tool   *)
(* has one open outage exactly when it is down, and a lot is held only     *)
(* when its step has no tool up.                                           *)
(***************************************************************************)

ReportFits(r) ==
  /\ r.pc = "outage" => LeavesDown(r.toolSeen, r.status)
  /\ r.pc = "status" /\ r.row # 0 => LeavesDown(r.toolSeen, r.status)

ReportsFit == \A c \in Clients : ReportFits(req[c])

OutageInv == DownHasOpenOutage /\ ReportsFit

\* A request that is answered, or becomes a fitting one, leaves all fitting.
LEMMA BecomesFits ==
  ASSUME Typed, ReportsFit, NEW c \in Clients, NEW r, ReportFits(r), Becomes(c, r)
  PROVE  ReportsFit'
PROOF
  <1> SUFFICES ASSUME NEW d \in Clients
               PROVE  ReportFits(req[d])'
    BY DEF ReportsFit
  <1>1. req'[d] = req[d] \/ req'[d] = r
    BY DEF Typed, TypeOK, Becomes
  <1> QED BY <1>1 DEF ReportsFit, ReportFits

LEMMA IdleReportFits == ReportFits(Idle)
PROOF
  BY DEF ReportFits, Idle

\* A step that leaves the tools alone and does not start a report.
LEMMA ToolsUntouched ==
  ASSUME Typed, OutageInv, NEW c \in Clients, UNCHANGED toolTables,
         \/ UNCHANGED req
         \/ \E r : r.pc \notin {"outage", "status"} /\ Becomes(c, r)
  PROVE  OutageInv'
PROOF
  <1>1. DownHasOpenOutage'
    BY DEF OutageInv, DownHasOpenOutage, toolTables
  <1>2. ReportsFit'
    <2>1. CASE UNCHANGED req
      BY <2>1 DEF OutageInv, ReportsFit, ReportFits
    <2>2. ASSUME NEW r, r.pc \notin {"outage", "status"}, Becomes(c, r)
          PROVE  ReportsFit'
      <3>1. ReportFits(r) BY <2>2 DEF ReportFits
      <3> QED BY <2>2, <3>1, BecomesFits DEF OutageInv
    <2> QED BY <2>1, <2>2
  <1> QED BY <1>1, <1>2 DEF OutageInv

LEMMA LotReadOutages ==
  ASSUME Typed, OutageInv, NEW c \in Clients,
         \/ \E l \in Lots :
              \/ ReceiveAdvance(c, l)
              \/ \E result \in InspectionResult : ReceiveInspection(c, l, result)
              \/ \E d \in Dispositions : ReceiveDisposition(c, l, d)
              \/ \E step \in Steps : ReceiveReworkRelease(c, l, step)
         \/ PickTool(c) \/ ReadPending(c) \/ ReadLastProcess(c) \/ ReadAttempts(c)
         \/ ReadFailure(c) \/ CountReworks(c) \/ Abandon(c)
  PROVE  OutageInv'
PROOF
  <1>1. UNCHANGED toolTables
    BY DEF ReceiveAdvance, ReceiveInspection, ReceiveDisposition, ReceiveReworkRelease,
           PickTool, ReadPending, ReadLastProcess, ReadAttempts, ReadFailure,
           CountReworks, Abandon
  <1>2. \E r : r.pc \notin {"outage", "status"} /\ Becomes(c, r)
    <2>1. Idle.pc \notin {"outage", "status"} BY DEF Idle
    <2>2. CASE CountReworks(c)
      <3>1. req[c] \in Request /\ req[c].pc = "cycles"
        BY <2>2 DEF Typed, TypeOK, CountReworks
      <3>2. [req[c] EXCEPT !.pc = "dispose"].pc = "dispose"
        BY <3>1 DEF Request
      <3> QED BY <2>1, <2>2, <3>2 DEF CountReworks, Answers
    <2>3. CASE PickTool(c)
      BY <2>1, <2>3 DEF PickTool, ChooseTool, NoToolFree, Answers
    <2>4. CASE ReadFailure(c)
      BY <2>1, <2>4 DEF ReadFailure, Answers
    <2>5. CASE ReadPending(c) \/ ReadLastProcess(c) \/ ReadAttempts(c) \/ Abandon(c)
      BY <2>1, <2>5 DEF ReadPending, ReadLastProcess, ReadAttempts, Abandon, Answers
    <2> QED
      BY <2>2, <2>3, <2>4, <2>5
      DEF ReceiveAdvance, ReceiveInspection, ReceiveDisposition, ReceiveReworkRelease
  <1> QED BY <1>1, <1>2, ToolsUntouched

LEMMA CommitOutages ==
  ASSUME Typed, OutageInv, NEW c \in Clients,
         \/ CommitHold(c) \/ CommitInspection(c) \/ CommitDisposition(c)
         \/ CommitReworkRelease(c) \/ WorkOrderStep(c)
  PROVE  OutageInv'
PROOF
  <1>1. UNCHANGED toolTables
    BY DEF CommitHold, CommitInspection, CommitDisposition, CommitReworkRelease,
           WorkOrderStep, CreateLot, CreateWorkOrder, ReleaseWorkOrder, CreateWorkOrderLot
  <1>2. Idle.pc \notin {"outage", "status"} BY DEF Idle
  <1>3. UNCHANGED req \/ Becomes(c, Idle)
    BY DEF CommitHold, CommitInspection, CommitDisposition, CommitReworkRelease, Answers,
           WorkOrderStep, CreateLot, CreateWorkOrder, ReleaseWorkOrder, CreateWorkOrderLot
  <1> QED BY <1>1, <1>2, <1>3, ToolsUntouched

\* A dispatch sets the tool running or leaves its status alone.
LEMMA CommitDispatchOutages ==
  ASSUME Typed, OutageInv, NEW c \in Clients, CommitDispatch(c)
  PROVE  OutageInv'
PROOF
  <1>1. ReportsFit'
    BY BecomesFits, IdleReportFits DEF OutageInv, CommitDispatch, Answers
  <1>2. DownHasOpenOutage'
    <2> SUFFICES ASSUME NEW t \in Tools, tool'[t].status = "DOWN"
                 PROVE  tool[t].status = "DOWN" /\ outages'[t] = outages[t]
      BY DEF OutageInv, DownHasOpenOutage
    <2> QED BY DEF Typed, TypeOK, CommitDispatch, ToolDispatched
  <1> QED BY <1>1, <1>2 DEF OutageInv

LEMMA LastOfAppend ==
  ASSUME NEW rows \in Seq(BOOLEAN)
  PROVE  /\ Append(rows, TRUE) # <<>>
         /\ Append(rows, TRUE)[Len(Append(rows, TRUE))]
PROOF
  <1> DEFINE longer == Append(rows, TRUE)
  <1>1. /\ longer # <<>>
        /\ Len(longer) = Len(rows) + 1
        /\ longer[Len(rows) + 1] = TRUE
    BY AppendProperties
  <1> HIDE DEF longer
  <1>2. longer # <<>> /\ longer[Len(longer)]
    BY <1>1, Zenon
  <1> QED BY <1>2 DEF longer

LEMMA ReportOutages ==
  ASSUME Typed, OutageInv, NEW c \in Clients, EquipmentStep(c)
  PROVE  OutageInv'
PROOF
  <1> DEFINE r == req[c]
  <1>1. ASSUME NEW t \in Tools, NEW status \in Reports, ReceiveStatus(c, t, status)
        PROVE  OutageInv'
    <2>1. DownHasOpenOutage'
      BY <1>1 DEF OutageInv, DownHasOpenOutage, ReceiveStatus, toolTables
    <2>2. ReportsFit'
      <3> DEFINE s == IF LeavesDown(tool[t], status)
                        THEN [pc |-> "outage", tool |-> t, toolSeen |-> tool[t],
                              status |-> status]
                        ELSE [pc |-> "status", tool |-> t, toolSeen |-> tool[t],
                              status |-> status, row |-> 0]
      <3>1. ReportFits(s) BY DEF ReportFits
      <3>2. Becomes(c, s) BY <1>1 DEF ReceiveStatus
      <3> HIDE DEF s
      <3> QED BY <3>1, <3>2, BecomesFits DEF OutageInv
    <2> QED BY <2>1, <2>2 DEF OutageInv
  <1>2. CASE FindOutage(c)
    <2>1. DownHasOpenOutage'
      BY <1>2 DEF OutageInv, DownHasOpenOutage, FindOutage, toolTables
    <2>2. LeavesDown(r.toolSeen, r.status)
      BY <1>2 DEF OutageInv, ReportsFit, ReportFits, FindOutage
    <2>3. PICK row \in OpenOutages(r.tool) \cup {0} :
            Becomes(c, [pc |-> "status", tool |-> r.tool, toolSeen |-> r.toolSeen,
                        status |-> r.status, row |-> row])
      BY <1>2 DEF FindOutage
    <2> DEFINE s == [pc |-> "status", tool |-> r.tool, toolSeen |-> r.toolSeen,
                     status |-> r.status, row |-> row]
    <2>4. ReportFits(s) BY <2>2 DEF ReportFits
    <2>5. ReportsFit' BY <2>3, <2>4, BecomesFits DEF OutageInv
    <2> QED BY <2>1, <2>5 DEF OutageInv
  <1>3. CASE CommitStatus(c)
    <2>1. ReportsFit'
      BY <1>3, BecomesFits, IdleReportFits DEF OutageInv, CommitStatus, Answers
    <2>2. /\ r \in Request /\ r.pc = "status" /\ ReportFits(r)
      BY <1>3 DEF Typed, TypeOK, OutageInv, ReportsFit, CommitStatus
    <2>3. r.tool \in Tools BY <2>2, RequestFields
    <2>4. outages[r.tool] \in Seq(BOOLEAN) BY <2>3 DEF Typed, TypeOK
    <2>5. DownHasOpenOutage'
      <3> SUFFICES ASSUME NEW t \in Tools, tool'[t].status = "DOWN"
                   PROVE  outages'[t] # <<>> /\ outages'[t][Len(outages'[t])]
        BY DEF DownHasOpenOutage
      <3>1. CASE t # r.tool
        BY <1>3, <3>1 DEF Typed, TypeOK, OutageInv, DownHasOpenOutage, CommitStatus
      <3>2. CASE t = r.tool /\ EntersDown(r.toolSeen, r.status)
        <4>1. outages'[t] = Append(outages[t], TRUE)
          BY <1>3, <3>2 DEF Typed, TypeOK, CommitStatus, OutagesWritten
        <4>2. /\ Append(outages[t], TRUE) # <<>>
              /\ Append(outages[t], TRUE)[Len(Append(outages[t], TRUE))]
          BY <2>4, <3>2, LastOfAppend
        <4> QED BY <4>1, <4>2
      <3>3. CASE t = r.tool /\ ~ EntersDown(r.toolSeen, r.status)
        <4>1. tool'[t].status = StatusWritten(r.tool, r.toolSeen, r.status)
          BY <1>3, <2>3, <3>3 DEF Typed, TypeOK, CommitStatus, ToolRow
        <4>2. ~ LeavesDown(r.toolSeen, r.status) /\ tool[t].status = "DOWN"
          BY <3>3, <4>1 DEF StatusWritten, LeavesDown, EntersDown
        <4>3. r.row = 0 BY <2>2, <4>2 DEF ReportFits
        <4>4. outages'[t] = outages[t]
          BY <1>3, <2>3, <3>3, <4>3 DEF Typed, TypeOK, CommitStatus, OutagesWritten
        <4> QED BY <4>2, <4>4 DEF OutageInv, DownHasOpenOutage
      <3> QED BY <3>1, <3>2, <3>3
    <2> QED BY <2>1, <2>5 DEF OutageInv
  <1> QED BY <1>1, <1>2, <1>3 DEF EquipmentStep

LEMMA InitOutages == Init => OutageInv
BY DEF Init, OutageInv, DownHasOpenOutage, ReportsFit, ReportFits, Idle

LEMMA NextOutages == Typed /\ OutageInv /\ [Next]_vars => OutageInv'
<1> SUFFICES ASSUME Typed, OutageInv, [Next]_vars PROVE OutageInv'  OBVIOUS
<1>1. CASE UNCHANGED vars
  BY <1>1 DEF OutageInv, DownHasOpenOutage, ReportsFit, ReportFits, vars, toolTables
<1>2. ASSUME NEW c \in Clients, LotStep(c) PROVE OutageInv'
  BY <1>2, LotReadOutages, CommitOutages, CommitDispatchOutages DEF LotStep
<1>3. QED  BY <1>1, <1>2, ReportOutages, CommitOutages, LotReadOutages DEF Next

\* Whoever races, a tool shown as DOWN has a downtime row that is still open,
\* the newest one: set_equipment_status writes both in one transaction and no
\* later report closes a row without leaving DOWN.
THEOREM DownIsRecorded == Spec => []DownHasOpenOutage
<1>1. OutageInv => DownHasOpenOutage  BY DEF OutageInv
<1>2. QED  BY <1>1, InitTyped, NextTyped, InitOutages, NextOutages, PTL DEF Spec

-----------------------------------------------------------------------------
(* The dispatches on record.                                               *)

RunsIn(ev, t) ==
  {j \in DOMAIN ev : ev[j].type = "PROCESS_COMPLETED" /\ ev[j].tool = t}

LEMMA RunsArePairs ==
  ASSUME NEW t, NEW p
  PROVE  p \in RunsOf(t) <=> \E l \in Lots : \E i \in RunsIn(events[l], t) : p = <<l, i>>
BY DEF RunsOf, RunsIn

LEMMA NextRunsArePairs ==
  ASSUME NEW t, NEW p
  PROVE  p \in RunsOf(t)' <=> \E l \in Lots : \E i \in RunsIn(events'[l], t) : p = <<l, i>>
BY DEF RunsOf, RunsIn

LEMMA SameRuns ==
  ASSUME NEW t, \A l \in Lots : RunsIn(events'[l], t) = RunsIn(events[l], t)
  PROVE  RunsOf(t)' = RunsOf(t)
<1>1. \A p : p \in RunsOf(t)' <=> p \in RunsOf(t)  BY RunsArePairs, NextRunsArePairs
<1>2. QED  BY <1>1

LEMMA OneRunMore ==
  ASSUME NEW t, NEW l \in Lots, NEW n, n \notin RunsIn(events[l], t),
         RunsIn(events'[l], t) = RunsIn(events[l], t) \cup {n},
         \A m \in Lots \ {l} : events'[m] = events[m]
  PROVE  RunsOf(t)' = RunsOf(t) \cup {<<l, n>>} /\ <<l, n>> \notin RunsOf(t)
<1>1. \A p : p \in RunsOf(t)' <=> p \in RunsOf(t) \/ p = <<l, n>>
  BY RunsArePairs, NextRunsArePairs
<1>2. <<l, n>> \notin RunsOf(t)  BY RunsArePairs
<1>3. QED  BY <1>1, <1>2

LEMMA RunsExtended ==
  ASSUME NEW ev \in Seq(LotEvent), NEW e \in LotEvent, NEW t
  PROVE  /\ Len(ev) + 1 \notin RunsIn(ev, t)
         /\ RunsIn(Append(ev, e), t) =
              IF e.type = "PROCESS_COMPLETED" /\ e.tool = t
                THEN RunsIn(ev, t) \cup {Len(ev) + 1} ELSE RunsIn(ev, t)
<1> DEFINE new == Append(ev, e)
<1>1. /\ Len(ev) \in Nat /\ DOMAIN ev = 1 .. Len(ev) /\ DOMAIN new = 1 .. Len(ev) + 1
      /\ new[Len(ev) + 1] = e /\ \A i \in DOMAIN ev : new[i] = ev[i]
  OBVIOUS
<1> HIDE DEF new
<1>2. Len(ev) + 1 \notin RunsIn(ev, t)  BY <1>1 DEF RunsIn
<1>3. \A i \in DOMAIN new : i \in DOMAIN ev \/ i = Len(ev) + 1  BY <1>1
<1>4. Len(ev) + 1 \in DOMAIN new /\ DOMAIN ev \subseteq DOMAIN new  BY <1>1
<1>5. RunsIn(new, t) = IF e.type = "PROCESS_COMPLETED" /\ e.tool = t
                         THEN RunsIn(ev, t) \cup {Len(ev) + 1} ELSE RunsIn(ev, t)
  BY <1>1, <1>3, <1>4 DEF RunsIn
<1>6. QED  BY <1>2, <1>5 DEF new

LEMMA NoRunAdded ==
  ASSUME Typed, NEW l \in Lots, NEW e \in LotEvent, e.type # "PROCESS_COMPLETED",
         AppendLotEvent(l, e), NEW t
  PROVE  RunsOf(t)' = RunsOf(t)
<1>1. events[l] \in Seq(LotEvent)  BY DEF Typed, TypeOK
<1>2. RunsIn(Append(events[l], e), t) = RunsIn(events[l], t)  BY <1>1, RunsExtended
<1>3. \A m \in Lots : events'[m] = IF m = l THEN Append(events[l], e) ELSE events[m]
  BY DEF Typed, TypeOK, AppendLotEvent
<1>4. QED  BY <1>2, <1>3, SameRuns

\* Only a dispatch adds a run,
LEMMA OnlyDispatchRuns ==
  ASSUME Typed, [Next]_vars, \A c \in Clients : ~ CommitDispatch(c), NEW t
  PROVE  RunsOf(t)' = RunsOf(t)
<1>1. CASE UNCHANGED lotTables  BY <1>1, SameRuns DEF lotTables
<1>2. LastStep \in Steps  BY TablesAssumption DEF LastStep, Steps
<1>3. ASSUME NEW l \in Lots, InsertLot(l)
      PROVE  RunsOf(t)' = RunsOf(t)
  <2> DEFINE e == Event("LOT_CREATED", NoStatus, "WAITING", NoStep, NoTool)
  <2>1. e \in LotEvent /\ e.type # "PROCESS_COMPLETED"
    BY DEF Event, LotEvent, LotEventType, LotStatus
  <2>2. AppendLotEvent(l, e)  BY <1>3 DEF InsertLot
  <2> HIDE DEF e
  <2>3. QED  BY <2>1, <2>2, NoRunAdded
<1>4. ASSUME NEW c \in Clients, LotCommit(c)
      PROVE  RunsOf(t)' = RunsOf(t)
  <2> DEFINE r == req[c]
  <2>1. r \in Request /\ SnapshotFits(r)  BY DEF Typed, TypeOK, SnapshotsFit
  <2>2. \E e \in LotEvent : e.type # "PROCESS_COMPLETED" /\ AppendLotEvent(r.lot, e)
    <3>1. CASE CommitHold(c)
      <4> DEFINE e == Event("LOT_HELD", r.seen.status, "HOLD", r.seen.step, NoTool)
      <4>1. /\ r.seen \in LotRow /\ r.seen.step < RouteLength
            /\ r.seen.status \in Advanceable
        BY <2>1, <3>1, RequestFields DEF SnapshotFits, CommitHold
      <4>2. r.seen.step \in Steps  BY <4>1, TablesAssumption DEF LotRow, Steps
      <4>3. e \in LotEvent /\ e.type # "PROCESS_COMPLETED"
        BY <4>1, <4>2 DEF Event, LotEvent, LotEventType, LotStatus, Advanceable
      <4>4. AppendLotEvent(r.lot, e)  BY <3>1 DEF CommitHold
      <4> HIDE DEF e
      <4>5. QED  BY <4>3, <4>4
    <3>2. CASE CommitInspection(c)
      <4> DEFINE e == InspectionEvent(r.result, r.tool)
      <4>1. r.tool \in Tools \cup {NoTool}
        BY <2>1, <3>2, RequestFields DEF CommitInspection
      <4>2. e \in LotEvent /\ e.type # "PROCESS_COMPLETED"
        BY <1>2, <4>1 DEF InspectionEvent, Event, LotEvent, LotEventType, LotStatus
      <4>3. AppendLotEvent(r.lot, e)  BY <3>2 DEF CommitInspection
      <4> HIDE DEF e
      <4>4. QED  BY <4>2, <4>3
    <3>3. CASE CommitDisposition(c)
      <4> DEFINE found == inspections[r.lot][r.row]
                 e == DispositionEvent(r.disposition, found.tool)
      <4>1. r.lot \in Lots /\ r.row \in DOMAIN inspections[r.lot]
        BY <2>1, <3>3, RequestFields DEF SnapshotFits, CommitDisposition
      <4>2. found \in Inspection  BY <4>1 DEF Typed, TypeOK
      <4>3. AppendLotEvent(r.lot, e)  BY <3>3 DEF CommitDisposition
      <4> HIDE DEF found
      <4>4. found.tool \in Tools \cup {NoTool}  BY <4>2 DEF Inspection
      <4>5. e \in LotEvent /\ e.type # "PROCESS_COMPLETED"
        BY <1>2, <4>4
        DEF DispositionEvent, StatusAfter, Event, LotEvent, LotEventType, LotStatus
      <4> HIDE DEF e
      <4>6. QED  BY <4>3, <4>5
    <3>4. CASE CommitReworkRelease(c)
      <4> DEFINE e == Event("LOT_REWORK_RELEASED", "REWORK", "WAITING", r.step, NoTool)
      <4>1. r.step \in Steps  BY <2>1, <3>4, RequestFields DEF CommitReworkRelease
      <4>2. e \in LotEvent /\ e.type # "PROCESS_COMPLETED"
        BY <4>1 DEF Event, LotEvent, LotEventType, LotStatus
      <4>3. AppendLotEvent(r.lot, e)  BY <3>4 DEF CommitReworkRelease
      <4> HIDE DEF e
      <4>4. QED  BY <4>2, <4>3
    <3>5. QED  BY <1>4, <3>1, <3>2, <3>3, <3>4 DEF LotCommit
  <2>3. r.lot \in Lots
    BY <1>4, <2>1, RequestFields
    DEF LotCommit, CommitHold, CommitDispatch, CommitInspection, CommitDisposition,
        CommitReworkRelease
  <2>4. QED  BY <2>2, <2>3, NoRunAdded
<1>5. QED  BY <1>1, <1>3, <1>4, LotWrites

\* and it adds one, of the tool it chose, whose row it writes.
LEMMA DispatchRuns ==
  ASSUME Typed, NEW c \in Clients, CommitDispatch(c)
  PROVE  LET r == req[c] IN
         /\ r.tool \in Tools /\ r.toolSeen \in ToolRow /\ r.pc = "dispatch"
         /\ tool' = [tool EXCEPT ![r.tool] = ToolDispatched(r.tool, r.toolSeen)]
         /\ \A t \in Tools :
              IF t = r.tool
                THEN \E p : p \notin RunsOf(t) /\ RunsOf(t)' = RunsOf(t) \cup {p}
                ELSE RunsOf(t)' = RunsOf(t)
<1> DEFINE r == req[c]
           s == StatusAfterStep(r.seen.step)
           from == IF r.seen.status = "HOLD" THEN "PROCESSING" ELSE r.seen.status
           released == Event("LOT_RELEASED_FROM_HOLD", "HOLD", "PROCESSING", r.seen.step, r.tool)
           completed == Event("PROCESS_COMPLETED", from, s, r.seen.step, r.tool)
           old == events[r.lot]
           before == IF r.seen.status = "HOLD" THEN Append(old, released) ELSE old
           ev == Append(before, completed)
<1>1. /\ r.pc = "dispatch" /\ r.lot \in Lots /\ r.seen \in LotRow /\ r.tool \in Tools
      /\ r.toolSeen \in ToolRow /\ r.seen.step < RouteLength
      /\ r.seen.status \in Advanceable
  BY RequestFields DEF Typed, TypeOK, SnapshotsFit, SnapshotFits, CommitDispatch
<1>2. r.seen.step \in Steps  BY <1>1, TablesAssumption DEF LotRow, Steps
<1>3. /\ events' = [events EXCEPT ![r.lot] = ev]
      /\ tool' = [tool EXCEPT ![r.tool] = ToolDispatched(r.tool, r.toolSeen)]
  BY DEF CommitDispatch, DispatchEvents
<1>4. released \in LotEvent /\ released.type # "PROCESS_COMPLETED"
  BY <1>1, <1>2 DEF Event, LotEvent, LotEventType, LotStatus
<1>5. completed \in LotEvent
  <2>1. s \in LotStatus  BY DEF StatusAfterStep, LotStatus
  <2>2. from \in LotStatus  BY <1>1 DEF LotStatus, Advanceable
  <2> HIDE DEF s, from
  <2>3. QED  BY <1>1, <1>2, <2>1, <2>2 DEF Event, LotEvent, LotEventType
<1>6. completed.type = "PROCESS_COMPLETED" /\ completed.tool = r.tool
  BY DEF Event
<1>7. old \in Seq(LotEvent)  BY <1>1 DEF Typed, TypeOK
<1> HIDE DEF released, completed, old
<1>8. before \in Seq(LotEvent) /\ \A t : RunsIn(before, t) = RunsIn(old, t)
  BY <1>4, <1>7, RunsExtended
<1> HIDE DEF before
<1> DEFINE n == Len(before) + 1
<1>9. \A t : /\ n \notin RunsIn(old, t)
             /\ RunsIn(ev, t) = IF t = r.tool THEN RunsIn(old, t) \cup {n} ELSE RunsIn(old, t)
  <2> TAKE t
  <2>1. /\ n \notin RunsIn(before, t)
        /\ RunsIn(ev, t) = IF completed.type = "PROCESS_COMPLETED" /\ completed.tool = t
                             THEN RunsIn(before, t) \cup {n} ELSE RunsIn(before, t)
    BY <1>5, <1>8, RunsExtended
  <2> HIDE DEF n, ev
  <2>2. QED  BY <1>6, <1>8, <2>1
<1> HIDE DEF ev, n
<1>10. PICK l \in Lots : l = r.lot  BY <1>1
<1>11. events'[l] = ev /\ events[l] = old /\ \A m \in Lots \ {l} : events'[m] = events[m]
  BY <1>3, <1>10 DEF Typed, TypeOK, old
<1>12. ASSUME NEW t \in Tools, t = r.tool
       PROVE  \E p : p \notin RunsOf(t) /\ RunsOf(t)' = RunsOf(t) \cup {p}
  <2>1. RunsIn(events'[l], t) = RunsIn(events[l], t) \cup {n} /\ n \notin RunsIn(events[l], t)
    BY <1>9, <1>11, <1>12
  <2>2. RunsOf(t)' = RunsOf(t) \cup {<<l, n>>} /\ <<l, n>> \notin RunsOf(t)
    BY <1>11, <2>1, OneRunMore
  <2>3. QED  BY <2>2
<1>13. ASSUME NEW t \in Tools, t # r.tool
       PROVE  RunsOf(t)' = RunsOf(t)
  <2>1. \A m \in Lots : RunsIn(events'[m], t) = RunsIn(events[m], t)
    <3>1. RunsIn(ev, t) = RunsIn(old, t)  BY <1>9, <1>13
    <3>2. QED  BY <1>11, <3>1
  <2>2. QED  BY <2>1, SameRuns
<1>14. QED  BY <1>1, <1>3, <1>12, <1>13

-----------------------------------------------------------------------------
(* The dispatches counted.                                                 *)

Counted(n, t) == n <= Cardinality(RunsOf(t))

\* What a dispatch read of a tool's count is no more than the runs on record.
CountInv ==
  /\ \A t \in Tools : IsFiniteSet(RunsOf(t)) /\ Counted(tool[t].dispatched, t)
  /\ \A c \in Clients : req[c].pc = "dispatch" =>
       Counted(req[c].toolSeen.dispatched, req[c].tool)

\* The runs on record only grow.
LEMMA RunsGrow ==
  ASSUME Typed, CountInv, [Next]_vars, NEW t \in Tools
  PROVE  /\ IsFiniteSet(RunsOf(t)')
         /\ Cardinality(RunsOf(t)) \in Nat /\ Cardinality(RunsOf(t)') \in Nat
         /\ Cardinality(RunsOf(t)) <= Cardinality(RunsOf(t)')
<1>1. IsFiniteSet(RunsOf(t)) /\ Cardinality(RunsOf(t)) \in Nat
  BY FS_CardinalityType DEF CountInv
<1>2. RunsOf(t)' = RunsOf(t) \/ \E p : RunsOf(t)' = RunsOf(t) \cup {p}
  <2>1. CASE \A c \in Clients : ~ CommitDispatch(c)  BY <2>1, OnlyDispatchRuns
  <2>2. ASSUME NEW c \in Clients, CommitDispatch(c)
        PROVE  RunsOf(t)' = RunsOf(t) \/ \E p : RunsOf(t)' = RunsOf(t) \cup {p}
    BY <2>2, DispatchRuns
  <2>3. QED  BY <2>1, <2>2
<1>3. QED  BY <1>1, <1>2, FS_AddElement

LEMMA ToolCounted ==
  ASSUME Typed, CountInv, [Next]_vars, NEW t \in Tools
  PROVE  tool'[t].dispatched <= Cardinality(RunsOf(t)')
<1>1. /\ tool[t].dispatched \in Nat /\ tool[t].dispatched <= Cardinality(RunsOf(t))
  BY DEF Typed, TypeOK, ToolRow, CountInv, Counted
<1>2. CASE tool'[t].dispatched = tool[t].dispatched  BY <1>1, <1>2, RunsGrow
<1>3. ASSUME NEW c \in Clients, CommitDispatch(c), req[c].tool = t
      PROVE  tool'[t].dispatched <= Cardinality(RunsOf(t)')
  <2> DEFINE r == req[c]
  <2>1. /\ r.pc = "dispatch" /\ r.toolSeen \in ToolRow
        /\ tool' = [tool EXCEPT ![r.tool] = ToolDispatched(r.tool, r.toolSeen)]
        /\ \E p : p \notin RunsOf(t) /\ RunsOf(t)' = RunsOf(t) \cup {p}
    BY <1>3, DispatchRuns
  <2>2. tool'[t].dispatched = r.toolSeen.dispatched + 1
    BY <1>3, <2>1 DEF Typed, TypeOK, ToolDispatched
  <2>3. Cardinality(RunsOf(t)') = Cardinality(RunsOf(t)) + 1
    BY <2>1, FS_AddElement DEF CountInv
  <2>4. r.toolSeen.dispatched \in Nat  BY <2>1 DEF ToolRow
  <2>5. r.toolSeen.dispatched <= Cardinality(RunsOf(t))
    BY <1>3, <2>1 DEF CountInv, Counted
  <2>6. QED  BY <2>2, <2>3, <2>4, <2>5, RunsGrow
<1>4. ASSUME NEW c \in Clients, CommitDispatch(c), req[c].tool # t
      PROVE  tool'[t].dispatched = tool[t].dispatched
  BY <1>4 DEF Typed, TypeOK, CommitDispatch
<1>5. ASSUME NEW c \in Clients, CommitStatus(c)
      PROVE  tool'[t].dispatched = tool[t].dispatched
  BY <1>5 DEF Typed, TypeOK, ToolRow, CommitStatus
<1>6. CASE UNCHANGED toolTables  BY <1>2, <1>6 DEF toolTables
<1>7. QED  BY <1>2, <1>3, <1>4, <1>5, <1>6, ToolWrites

LEMMA NextCount == Typed /\ CountInv /\ [Next]_vars => CountInv'
<1> SUFFICES ASSUME Typed, CountInv, [Next]_vars PROVE CountInv'  OBVIOUS
<1>1. ASSUME NEW t \in Tools
      PROVE  IsFiniteSet(RunsOf(t)') /\ Counted(tool[t].dispatched, t)'
  BY RunsGrow, ToolCounted DEF Counted
<1>2. ASSUME NEW c \in Clients, req'[c].pc = "dispatch"
      PROVE  Counted(req[c].toolSeen.dispatched, req[c].tool)'
  <2>1. ASSUME NEW t \in Tools, NEW n \in Nat, n <= Cardinality(RunsOf(t)),
               req'[c].tool = t, req'[c].toolSeen.dispatched = n
        PROVE  Counted(req[c].toolSeen.dispatched, req[c].tool)'
    <3>1. n <= Cardinality(RunsOf(t)')  BY <2>1, RunsGrow
    <3>2. Counted(n, t)'  BY <3>1 DEF Counted
    <3>3. QED  BY <2>1, <3>2
  <2>2. CASE req'[c] = req[c]
    <3>1. req[c] \in Request  BY DEF Typed, TypeOK
    <3>2. req[c].tool \in Tools /\ req[c].toolSeen \in ToolRow
      BY <1>2, <2>2, <3>1, RequestFields
    <3>3. req[c].toolSeen.dispatched \in Nat  BY <3>2 DEF ToolRow
    <3>4. req[c].toolSeen.dispatched <= Cardinality(RunsOf(req[c].tool))
      BY <1>2, <2>2 DEF CountInv, Counted
    <3>5. QED  BY <2>1, <2>2, <3>2, <3>3, <3>4
  <2>3. CASE PickTool(c)
    <3>1. PICK t \in Tools : req'[c] = [pc |-> "dispatch", lot |-> req[c].lot,
                                        seen |-> req[c].seen, tool |-> t, toolSeen |-> tool[t]]
      BY <1>2, <2>3
      DEF PickTool, ChooseTool, NoToolFree, LeastDispatched, Candidates, Answers, Becomes,
          Idle, Typed, TypeOK
    <3>2. tool[t].dispatched \in Nat /\ tool[t].dispatched <= Cardinality(RunsOf(t))
      BY DEF Typed, TypeOK, ToolRow, CountInv, Counted
    <3>3. QED  BY <2>1, <3>1, <3>2
  <2>4. CASE FindOutage(c) \/ \E t \in Tools, status \in Reports : ReceiveStatus(c, t, status)
    <3>1. \E r : r.pc \in {"outage", "status"} /\ Becomes(c, r)
      <4>1. CASE FindOutage(c)
        BY <4>1 DEF FindOutage
      <4>2. ASSUME NEW t \in Tools, NEW status \in Reports, ReceiveStatus(c, t, status)
            PROVE  \E r : r.pc \in {"outage", "status"} /\ Becomes(c, r)
        BY <4>2 DEF ReceiveStatus
      <4>3. QED  BY <2>4, <4>1, <4>2
    <3>2. req'[c].pc \in {"outage", "status"}  BY <3>1 DEF Becomes, Typed, TypeOK
    <3>3. QED  BY <1>2, <3>2
  <2>5. QED  BY <1>2, <2>2, <2>3, <2>4, ToolReads
<1>3. QED  BY <1>1, <1>2 DEF CountInv, Counted

LEMMA InitCount == Init => CountInv
<1> SUFFICES ASSUME Init PROVE CountInv  OBVIOUS
<1>1. \A t \in Tools : RunsOf(t) = {}  BY RunsArePairs DEF Init, RunsIn
<1>2. \A t \in Tools : IsFiniteSet(RunsOf(t)) /\ Cardinality(RunsOf(t)) = 0
  BY <1>1, FS_EmptySet
<1>3. \A t \in Tools : tool[t].dispatched = 0  BY DEF Init
<1>4. \A c \in Clients : req[c].pc # "dispatch"  BY DEF Init, Idle
<1>5. QED  BY <1>2, <1>3, <1>4 DEF CountInv, Counted

\* However many dispatches race on a tool, each adding one to the count it
\* read, the count never exceeds the PROCESS_COMPLETED events that name the
\* tool: updates can be lost (see LostDispatch.cfg), none is made up.
THEOREM NeverOvercounted == Spec => []DispatchNeverOvercounted
<1>1. CountInv => DispatchNeverOvercounted
  BY DEF CountInv, Counted, DispatchNeverOvercounted
<1>2. QED  BY <1>1, InitTyped, NextTyped, InitCount, NextCount, PTL DEF Spec

-----------------------------------------------------------------------------
(* One request at a time.  With a single client nothing a handler read can  *)
(* be stale, and the documented promises hold that races break.            *)

\* What the one handler in flight knows of the tools.
Knows(r) ==
  /\ r.pc \in {"dispatch", "outage", "status"} => r.toolSeen = tool[r.tool]
  /\ r.pc = "dispatch" => r.tool \in LeastDispatched(Candidates(r.seen.step))
  /\ r.pc = "hold" => Candidates(r.seen.step) = {}
  /\ r.pc = "status" =>
       IF LeavesDown(r.toolSeen, r.status) THEN r.row \in OpenOutages(r.tool) ELSE r.row = 0

\* One DOWN stretch, one open row.
RowsFit(t) ==
  IF tool[t].status = "DOWN" THEN \E i : OpenOutages(t) = {i} ELSE OpenOutages(t) = {}

\* Every run of a tool is counted, and counted once.
RunsExact == \A t \in Tools : IsFiniteSet(RunsOf(t)) /\ tool[t].dispatched = Cardinality(RunsOf(t))

SerialInv ==
  /\ \A c \in Clients : Knows(req[c])
  /\ \A t \in Tools : RowsFit(t)
  /\ RunsExact /\ DispatchIsEven

LEMMA KnowsUnless ==
  ASSUME NEW r, r.pc \notin {"hold", "dispatch", "outage", "status"}
  PROVE  Knows(r)
BY DEF Knows

\* Only the handler itself steps between its reads and its commit.
LEMMA NextKnows ==
  ASSUME NEW c, Clients = {c}, Typed, OutageInv, SerialInv, [Next]_vars
  PROVE  Knows(req[c])'
<1>1. req[c] \in Request /\ Knows(req[c]) /\ ReportFits(req[c])
  BY DEF Typed, TypeOK, SerialInv, OutageInv, ReportsFit
<1>2. CASE req'[c].pc \notin {"hold", "dispatch", "outage", "status"}
  BY <1>2 DEF Knows
<1>3. CASE req'[c].pc \in {"hold", "dispatch", "outage", "status"} /\ req'[c] = req[c]
  <2>1. ASSUME NEW d \in Clients, CommitDispatch(d) \/ CommitStatus(d)
        PROVE  FALSE
    <3>1. req'[c] = Idle
      BY <2>1 DEF CommitDispatch, CommitStatus, Answers, Becomes, Typed, TypeOK
    <3>2. QED  BY <1>3, <3>1 DEF Idle
  <2>2. UNCHANGED toolTables  BY <2>1, ToolWrites
  <2>3. QED
    BY <1>1, <1>3, <2>2 DEF Knows, toolTables, Candidates, LeastDispatched, OpenOutages
<1>4. CASE PickTool(c)
  <2> DEFINE r == req[c]
  <2>1. UNCHANGED toolTables  BY <1>4 DEF PickTool
  <2>2. CASE Answers(c)
    <3>1. req'[c].pc = "idle"  BY <2>2 DEF Answers, Becomes, Idle, Typed, TypeOK
    <3>2. QED  BY <1>2, <3>1
  <2>3. CASE /\ Candidates(r.seen.step) = {}
             /\ Becomes(c, [pc |-> "hold", lot |-> r.lot, seen |-> r.seen])
    <3>1. req'[c] = [pc |-> "hold", lot |-> r.lot, seen |-> r.seen]
      BY <2>3 DEF Becomes, Typed, TypeOK
    <3>2. QED  BY <2>1, <2>3, <3>1 DEF Knows, toolTables, Candidates
  <2>4. ASSUME NEW t \in LeastDispatched(Candidates(r.seen.step)),
               Becomes(c, [pc |-> "dispatch", lot |-> r.lot, seen |-> r.seen,
                           tool |-> t, toolSeen |-> tool[t]])
        PROVE  Knows(req[c])'
    <3>1. req'[c] = [pc |-> "dispatch", lot |-> r.lot, seen |-> r.seen,
                     tool |-> t, toolSeen |-> tool[t]]
      BY <2>4 DEF Becomes, Typed, TypeOK
    <3>2. QED
      BY <2>1, <2>4, <3>1 DEF Knows, toolTables, Candidates, LeastDispatched
  <2>5. QED
    BY <1>4, <2>2, <2>3, <2>4 DEF PickTool, ChooseTool, NoToolFree
<1>5. ASSUME NEW t \in Tools, NEW status \in Reports, ReceiveStatus(c, t, status)
      PROVE  Knows(req[c])'
  <2> DEFINE s == IF LeavesDown(tool[t], status)
                    THEN [pc |-> "outage", tool |-> t, toolSeen |-> tool[t], status |-> status]
                    ELSE [pc |-> "status", tool |-> t, toolSeen |-> tool[t], status |-> status,
                          row |-> 0]
  <2>1. req'[c] = s /\ UNCHANGED toolTables
    BY <1>5 DEF ReceiveStatus, Becomes, Typed, TypeOK
  <2>2. Knows(s)  BY DEF Knows
  <2>3. s.pc \in {"outage", "status"}  OBVIOUS
  <2> HIDE DEF s
  <2>4. QED  BY <2>1, <2>2, <2>3 DEF Knows, toolTables, OpenOutages
<1>6. CASE FindOutage(c)
  <2> DEFINE r == req[c]
  <2>1. r.pc = "outage" /\ UNCHANGED toolTables  BY <1>6 DEF FindOutage
  <2>2. r.tool \in Tools /\ r.toolSeen = tool[r.tool] /\ LeavesDown(r.toolSeen, r.status)
    BY <1>1, <2>1, RequestFields DEF Knows, ReportFits
  <2>3. OpenOutages(r.tool) # {}  BY <2>2 DEF LeavesDown, SerialInv, RowsFit
  <2>4. PICK row \in OpenOutages(r.tool) :
          req'[c] = [pc |-> "status", tool |-> r.tool, toolSeen |-> r.toolSeen,
                     status |-> r.status, row |-> row]
    BY <1>6, <2>3 DEF FindOutage, Becomes, Typed, TypeOK
  <2>5. QED  BY <2>1, <2>2, <2>4 DEF Knows, toolTables, OpenOutages
<1>7. QED  BY <1>2, <1>3, <1>4, <1>5, <1>6, ToolReads

LEMMA OnlyNewIsOpen ==
  ASSUME NEW rows \in Seq(BOOLEAN), {i \in DOMAIN rows : rows[i]} = {}
  PROVE  {i \in DOMAIN Append(rows, TRUE) : Append(rows, TRUE)[i]} = {Len(rows) + 1}
<1> DEFINE after == Append(rows, TRUE)
<1>1. /\ after \in Seq(BOOLEAN) /\ Len(after) = Len(rows) + 1 /\ after[Len(rows) + 1] = TRUE
      /\ \A i \in 1 .. Len(rows) : after[i] = rows[i]
  <2>1. TRUE \in BOOLEAN  OBVIOUS
  <2>2. QED  BY <2>1, AppendProperties
<1>2. Len(rows) \in Nat /\ DOMAIN rows = 1 .. Len(rows)  BY LenProperties, Zenon
<1>3. DOMAIN after = 1 .. Len(after)  BY <1>1, LenProperties, Zenon
<1> HIDE DEF after
<1>4. \A i \in DOMAIN after : after[i] <=> i = Len(rows) + 1  BY <1>1, <1>2, <1>3
<1>5. {i \in DOMAIN after : after[i]} = {Len(rows) + 1}  BY <1>1, <1>2, <1>3, <1>4
<1>6. QED  BY <1>5 DEF after

\* A report that wrote the row it read opens a row, closes the one that is open,
\* or neither.
LEMMA ReportRows ==
  ASSUME Typed, NEW c \in Clients, CommitStatus(c), NEW t, req[c].tool = t,
         req[c].toolSeen = tool[t], RowsFit(t),
         IF LeavesDown(tool[t], req[c].status) THEN req[c].row \in OpenOutages(t)
                                               ELSE req[c].row = 0
  PROVE  RowsFit(t)'
<1> DEFINE r == req[c]
<1>1. r.pc = "status" /\ t \in Tools
  BY RequestFields DEF CommitStatus, Typed, TypeOK
<1>2. tool[t] \in ToolRow /\ outages[t] \in Seq(BOOLEAN)  BY <1>1 DEF Typed, TypeOK
<1>3. /\ tool'[t].status = StatusWritten(t, tool[t], r.status)
      /\ outages'[t] = OutagesWritten(t, tool[t], r.status, r.row)
  BY <1>1 DEF CommitStatus, Typed, TypeOK, ToolRow
<1>4. tool'[t].status = r.status  BY <1>3 DEF StatusWritten
<1>5. CASE EntersDown(tool[t], r.status)
  <2>1. OpenOutages(t) = {}  BY <1>5 DEF EntersDown, RowsFit
  <2>2. outages'[t] = Append(outages[t], TRUE)  BY <1>3, <1>5 DEF OutagesWritten
  <2>3. OpenOutages(t)' = {Len(outages[t]) + 1}
    BY <1>2, <2>1, <2>2, OnlyNewIsOpen DEF OpenOutages
  <2>4. r.status = "DOWN"  BY <1>5 DEF EntersDown
  <2>5. QED  BY <1>4, <2>3, <2>4 DEF RowsFit
<1>6. CASE LeavesDown(tool[t], r.status)
  <2>1. PICK i : OpenOutages(t) = {i}  BY <1>6 DEF LeavesDown, RowsFit
  <2>2. r.row = i  BY <1>6, <2>1
  <2>3. i \in DOMAIN outages[t] /\ i # 0  BY <1>2, <2>1 DEF OpenOutages
  <2>4. outages'[t] = [outages[t] EXCEPT ![i] = FALSE]
    BY <1>3, <1>6, <2>2, <2>3 DEF OutagesWritten, EntersDown, LeavesDown
  <2>5. \A j \in DOMAIN outages[t] : j # i => ~ outages[t][j]
    BY <2>1 DEF OpenOutages
  <2>6. OpenOutages(t)' = {}  BY <2>4, <2>5 DEF OpenOutages
  <2>7. QED  BY <1>4, <1>6, <2>6 DEF RowsFit, LeavesDown
<1>7. CASE ~ EntersDown(tool[t], r.status) /\ ~ LeavesDown(tool[t], r.status)
  <2>1. outages'[t] = outages[t]  BY <1>3, <1>7 DEF OutagesWritten
  <2>2. tool[t].status = "DOWN" <=> tool'[t].status = "DOWN"
    BY <1>4, <1>7 DEF EntersDown, LeavesDown
  <2>3. QED  BY <2>1, <2>2 DEF RowsFit, OpenOutages
<1>8. QED  BY <1>5, <1>6, <1>7

\* No report, and no dispatch, takes a row away.
LEMMA RowsStay ==
  ASSUME NEW rows \in Seq(BOOLEAN), NEW after, after = <<>>,
         \/ after = rows \/ after = Append(rows, TRUE)
         \/ \E i : after = [rows EXCEPT ![i] = FALSE]
  PROVE  rows = <<>>
<1>1. Append(rows, TRUE) # <<>>
  <2>1. TRUE \in BOOLEAN  OBVIOUS
  <2>2. QED  BY <2>1, AppendProperties, Zenon
<1>2. CASE \E i : after = [rows EXCEPT ![i] = FALSE]
  <2>1. \A i : DOMAIN [rows EXCEPT ![i] = FALSE] = DOMAIN rows  OBVIOUS
  <2>2. DOMAIN rows = {}  BY <1>2, <2>1
  <2>3. Len(rows) \in Nat /\ DOMAIN rows = 1 .. Len(rows)  BY LenProperties, Zenon
  <2>4. \A n \in Nat : 1 .. n = {} => n = 0
    <3>1. \A n \in Nat : n # 0 => 1 \in 1 .. n  OBVIOUS
    <3>2. QED  BY <3>1
  <2>5. Len(rows) = 0  BY <2>2, <2>3, <2>4, Zenon
  <2>6. QED  BY <2>5, EmptySeq
<1>3. QED  BY <1>1, <1>2

LEMMA NeverDownStays ==
  ASSUME Typed, UNCHANGED toolTables \/ \E c \in Clients : CommitDispatch(c) \/ CommitStatus(c),
         NEW t \in Tools, outages'[t] = <<>>
  PROVE  outages[t] = <<>>
<1>1. outages[t] \in Seq(BOOLEAN)  BY DEF Typed, TypeOK
<1>2. \/ outages'[t] = outages[t] \/ outages'[t] = Append(outages[t], TRUE)
      \/ \E i : outages'[t] = [outages[t] EXCEPT ![i] = FALSE]
  <2>1. CASE UNCHANGED outages  BY <2>1
  <2>2. ASSUME NEW c \in Clients, CommitStatus(c)
        PROVE  \/ outages'[t] = outages[t] \/ outages'[t] = Append(outages[t], TRUE)
               \/ \E i : outages'[t] = [outages[t] EXCEPT ![i] = FALSE]
    BY <2>2 DEF CommitStatus, OutagesWritten, Typed, TypeOK
  <2>3. QED  BY <2>1, <2>2 DEF toolTables, CommitDispatch
<1>3. QED  BY <1>1, <1>2, RowsStay

\* No tool of the step of t that was never down has run less than t.
RunsLeast(t) ==
  \A u \in Tools : ToolStep[u] = ToolStep[t] /\ outages[u] = <<>> =>
                     tool[t].dispatched <= tool[u].dispatched

\* A dispatch that wrote the row it read adds one to the count and one run to
\* the record of a tool no other of its step has run less than.
LEMMA DispatchCounts ==
  ASSUME Typed, RunsExact, DispatchIsEven, NEW c \in Clients, CommitDispatch(c),
         req[c].toolSeen = tool[req[c].tool], RunsLeast(req[c].tool)
  PROVE  RunsExact' /\ DispatchIsEven'
<1> DEFINE r == req[c]
<1>1. \A t \in Tools : /\ IsFiniteSet(RunsOf(t)) /\ tool[t].dispatched \in Nat
                       /\ tool[t].dispatched = Cardinality(RunsOf(t))
  BY DEF RunsExact, Typed, TypeOK, ToolRow
<1>2. /\ r.tool \in Tools
      /\ tool' = [tool EXCEPT ![r.tool] = ToolDispatched(r.tool, r.toolSeen)]
      /\ \A t \in Tools :
           IF t = r.tool
             THEN \E p : p \notin RunsOf(t) /\ RunsOf(t)' = RunsOf(t) \cup {p}
             ELSE RunsOf(t)' = RunsOf(t)
  BY DispatchRuns
<1>3. \A t \in Tools : tool'[t].dispatched =
                         IF t = r.tool THEN tool[t].dispatched + 1 ELSE tool[t].dispatched
  BY <1>2 DEF ToolDispatched, Typed, TypeOK
<1>4. \A t \in Tools : /\ IsFiniteSet(RunsOf(t)')
                       /\ Cardinality(RunsOf(t)') = Cardinality(RunsOf(t))
                            + IF t = r.tool THEN 1 ELSE 0
  <2> TAKE t \in Tools
  <2>1. IsFiniteSet(RunsOf(t)) /\ Cardinality(RunsOf(t)) \in Nat
    BY <1>1, FS_CardinalityType
  <2>2. CASE t = r.tool  BY <1>2, <2>1, <2>2, FS_AddElement
  <2>3. CASE t # r.tool  BY <1>2, <2>1, <2>3
  <2>4. QED  BY <2>2, <2>3
<1>5. RunsExact'  BY <1>1, <1>3, <1>4 DEF RunsExact
<1>6. ASSUME NEW t \in Tools, NEW u \in Tools, ToolStep[t] = ToolStep[u],
             outages'[t] = <<>>, outages'[u] = <<>>
      PROVE  tool'[t].dispatched <= tool'[u].dispatched + 1
  <2>1. outages[t] = <<>> /\ outages[u] = <<>>  BY <1>6, NeverDownStays
  <2>2. tool[t].dispatched <= tool[u].dispatched + 1
    BY <1>6, <2>1 DEF DispatchIsEven
  <2>3. CASE t = r.tool
    <3>1. tool[t].dispatched <= tool[u].dispatched
      BY <1>6, <2>1, <2>3 DEF RunsLeast
    <3>2. QED  BY <1>1, <1>3, <2>3, <3>1
  <2>4. CASE t # r.tool  BY <1>1, <1>3, <2>2, <2>4
  <2>5. QED  BY <2>3, <2>4
<1>7. QED  BY <1>5, <1>6 DEF DispatchIsEven

\* Every other step leaves the counts, and the runs, as they were.
LEMMA CountsStay ==
  ASSUME Typed, RunsExact, DispatchIsEven, [Next]_vars, \A c \in Clients : ~ CommitDispatch(c)
  PROVE  RunsExact' /\ DispatchIsEven'
<1>1. \A t \in Tools : tool'[t].dispatched = tool[t].dispatched
  <2>1. ASSUME NEW c \in Clients, CommitStatus(c)
        PROVE  \A t \in Tools : tool'[t].dispatched = tool[t].dispatched
    BY <2>1 DEF CommitStatus, Typed, TypeOK, ToolRow
  <2>2. CASE UNCHANGED toolTables  BY <2>2 DEF toolTables
  <2>3. QED  BY <2>1, <2>2, ToolWrites
<1>2. \A t \in Tools : RunsOf(t)' = RunsOf(t)  BY OnlyDispatchRuns
<1>3. \A t \in Tools : outages'[t] = <<>> => outages[t] = <<>>
  BY ToolWrites, NeverDownStays
<1>4. QED  BY <1>1, <1>2, <1>3 DEF RunsExact, DispatchIsEven

\* The one handler in flight writes the rows it has read.
LEMMA NextRows ==
  ASSUME NEW c, Clients = {c}, Typed, OutageInv, SerialInv, [Next]_vars, NEW t \in Tools
  PROVE  RowsFit(t)'
<1> DEFINE r == req[c]
<1>1. r \in Request /\ Knows(r)  BY DEF Typed, TypeOK, SerialInv
<1>2. RowsFit(t) /\ tool[t] \in ToolRow  BY DEF SerialInv, Typed, TypeOK
<1>3. CASE tool'[t].status = tool[t].status /\ outages'[t] = outages[t]
  BY <1>2, <1>3 DEF RowsFit, OpenOutages
<1>4. CASE UNCHANGED toolTables  BY <1>3, <1>4 DEF toolTables
<1>5. CASE CommitDispatch(c) \/ CommitStatus(c)
  <2>1. r.pc \in {"dispatch", "status"} /\ r.tool \in Tools /\ r.toolSeen = tool[r.tool]
    BY <1>1, <1>5, RequestFields DEF CommitDispatch, CommitStatus, Knows
  <2>2. CASE r.tool # t
    BY <1>3, <1>5, <2>2 DEF CommitDispatch, CommitStatus, Typed, TypeOK
  <2>3. CASE r.tool = t /\ CommitDispatch(c)
    <3>1. tool[t].status # "DOWN"
      BY <1>1, <2>3 DEF CommitDispatch, Knows, LeastDispatched, Candidates
    <3>2. tool'[t].status # "DOWN" /\ outages'[t] = outages[t]
      BY <2>1, <2>3, <3>1 DEF CommitDispatch, ToolDispatched, Typed, TypeOK
    <3>3. QED  BY <1>2, <3>1, <3>2 DEF RowsFit, OpenOutages
  <2>4. CASE r.tool = t /\ CommitStatus(c)
    BY <1>1, <1>2, <2>1, <2>4, ReportRows DEF CommitStatus, Knows
  <2>5. QED  BY <1>5, <2>2, <2>3, <2>4
<1>6. QED  BY <1>4, <1>5, ToolWrites

LEMMA NextCounts ==
  ASSUME NEW c, Clients = {c}, Typed, OutageInv, SerialInv, [Next]_vars
  PROVE  RunsExact' /\ DispatchIsEven'
<1> DEFINE r == req[c]
<1>1. r \in Request /\ Knows(r) /\ DownHasOpenOutage /\ RunsExact /\ DispatchIsEven
  BY DEF Typed, TypeOK, SerialInv, OutageInv
<1>2. CASE CommitDispatch(c)
  <2>1. r.tool \in Tools /\ r.toolSeen = tool[r.tool]
        /\ r.tool \in LeastDispatched(Candidates(r.seen.step))
    BY <1>1, <1>2, RequestFields DEF CommitDispatch, Knows
  <2>2. RunsLeast(r.tool)
    BY <1>1, <2>1 DEF RunsLeast, DownHasOpenOutage, LeastDispatched, Candidates
  <2>3. QED  BY <1>1, <1>2, <2>1, <2>2, DispatchCounts
<1>3. CASE ~ CommitDispatch(c)  BY <1>1, <1>3, CountsStay
<1>4. QED  BY <1>2, <1>3

LEMMA InitSerial == Init => SerialInv
<1> SUFFICES ASSUME Init PROVE SerialInv  OBVIOUS
<1>1. \A c \in Clients : Knows(req[c])  BY KnowsUnless DEF Init, Idle
<1>2. \A t \in Tools : RowsFit(t)  BY DEF Init, RowsFit, OpenOutages
<1>3. \A t \in Tools : RunsOf(t) = {}  BY RunsArePairs DEF Init, RunsIn
<1>4. \A t \in Tools : IsFiniteSet(RunsOf(t)) /\ Cardinality(RunsOf(t)) = 0
  BY <1>3, FS_EmptySet
<1>5. \A t \in Tools : tool[t].dispatched = 0  BY DEF Init
<1>6. QED  BY <1>1, <1>2, <1>4, <1>5 DEF SerialInv, RunsExact, DispatchIsEven

LEMMA NextSerial ==
  ASSUME NEW c, Clients = {c}
  PROVE  Typed /\ OutageInv /\ SerialInv /\ [Next]_vars => SerialInv'
BY NextKnows, NextRows, NextCounts DEF SerialInv

LEMMA OneOpenRow == SerialInv => OutageOpenIffDown
<1> SUFFICES ASSUME SerialInv, NEW t \in Tools
             PROVE  Cardinality(OpenOutages(t)) = IF tool[t].status = "DOWN" THEN 1 ELSE 0
  BY DEF OutageOpenIffDown
<1>1. RowsFit(t)  BY DEF SerialInv
<1>2. QED  BY <1>1, FS_EmptySet, FS_Singleton DEF RowsFit

\* With one request at a time, what main.py says of dispatch_count ("completed
\* dispatch count") is true: it is the number of PROCESS_COMPLETED events that
\* name the tool.
THEOREM OneClientCountsExactly ==
  ASSUME NEW c, Clients = {c}
  PROVE  Spec => []DispatchCountIsExact
<1>1. SerialInv => DispatchCountIsExact  BY DEF SerialInv, RunsExact, DispatchCountIsExact
<1>2. Typed /\ OutageInv /\ SerialInv /\ [Next]_vars => SerialInv'  BY NextSerial
<1>3. QED
  BY <1>1, <1>2, InitTyped, NextTyped, InitOutages, NextOutages, InitSerial, PTL DEF Spec

\* With one request at a time, tools of a step that were never down share its
\* dispatches evenly, whatever their number: _find_available_equipment takes
\* one that has run least.
THEOREM OneClientSharesEvenly ==
  ASSUME NEW c, Clients = {c}
  PROVE  Spec => []DispatchIsEven
<1>1. SerialInv => DispatchIsEven  BY DEF SerialInv
<1>2. Typed /\ OutageInv /\ SerialInv /\ [Next]_vars => SerialInv'  BY NextSerial
<1>3. QED
  BY <1>1, <1>2, InitTyped, NextTyped, InitOutages, NextOutages, InitSerial, PTL DEF Spec

\* With one request at a time, each DOWN stretch of a tool is one downtime row
\* that is open exactly while the tool is down.
THEOREM OneClientOneRow ==
  ASSUME NEW c, Clients = {c}
  PROVE  Spec => []OutageOpenIffDown
<1>1. SerialInv => OutageOpenIffDown  BY OneOpenRow
<1>2. Typed /\ OutageInv /\ SerialInv /\ [Next]_vars => SerialInv'  BY NextSerial
<1>3. QED
  BY <1>1, <1>2, InitTyped, NextTyped, InitOutages, NextOutages, InitSerial, PTL DEF Spec

\* With one request at a time, advance_lot holds a lot only while every tool of
\* its step is down.
THEOREM OneClientHoldsStarved ==
  ASSUME NEW c, Clients = {c}
  PROVE  Spec => HoldOnlyWhenStarved
<1>1. ASSUME Typed, SerialInv, [Next]_vars, NEW l \in Lots,
             lot'[l].status = "HOLD", lot[l].status # "HOLD",
             NEW t \in Tools, ToolStep[t] = lot[l].step
      PROVE  tool[t].status = "DOWN"
  <2>1. CASE UNCHANGED lotTables  BY <1>1, <2>1 DEF lotTables
  <2>2. ASSUME NEW m \in Lots, InsertLot(m)  PROVE FALSE
    BY <1>1, <2>2 DEF InsertLot, SetLot, Typed, TypeOK
  <2>3. ASSUME NEW d \in Clients, LotCommit(d)
        PROVE  tool[t].status = "DOWN"
    <3> DEFINE r == req[d]
    <3>1. r.lot = l /\ CommitHold(d)
      <4>1. r \in Request  BY <1>1 DEF Typed, TypeOK
      <4>2. \E s, k : SetLot(r.lot, s, k) /\ (s = "HOLD" => CommitHold(d))
        BY <2>3 DEF LotCommit, CommitHold, CommitDispatch, CommitInspection,
                    CommitDisposition, CommitReworkRelease, StatusAfterStep, StatusAfter
      <4>3. QED  BY <1>1, <4>2 DEF SetLot, Typed, TypeOK
    <3>2. r.seen.step = lot[l].step /\ r.pc = "hold" /\ Knows(r)
      BY <1>1, <3>1 DEF CommitHold, StillWhereItWas, RowMatches, SerialInv
    <3>3. Candidates(lot[l].step) = {}  BY <3>2 DEF Knows
    <3>4. QED  BY <1>1, <3>3 DEF Candidates
  <2>4. QED  BY <1>1, <2>1, <2>2, <2>3, LotWrites
<1>2. Typed /\ SerialInv /\ [Next]_vars =>
        [\A l \in Lots : lot'[l].status = "HOLD" /\ lot[l].status # "HOLD"
           => \A t \in Tools : ToolStep[t] = lot[l].step => tool[t].status = "DOWN"]_vars
  BY <1>1
<1>3. Typed /\ OutageInv /\ SerialInv /\ [Next]_vars => SerialInv'  BY NextSerial
<1>4. QED
  BY <1>2, <1>3, InitTyped, NextTyped, InitOutages, NextOutages, InitSerial, PTL
  DEF Spec, HoldOnlyWhenStarved

-----------------------------------------------------------------------------
(***************************************************************************)
(* The work orders.  The counters of an order are the quantities of its    *)
(* lots: create_lot and inspect_lot add to an order they compare-and-set,  *)
(* and the strengthening says that the rows of the two tables move together,*)
(* so that an order is closed by the lot that completes its plan.          *)
(***************************************************************************)

Built(w) == {l \in LotsOf(w) : lot[l].status = "DONE"}

\* The counters of an order, and how far they can be for each of its statuses.
OrderTold(w) ==
  /\ IsFiniteSet(Units(LotsOf(w)))
  /\ order[w].released = Quantity(LotsOf(w))
  /\ order[w].completed = Quantity(Built(w))
  /\ order[w].released <= order[w].planned
  /\ order[w].status = Absent => order[w].planned = 0
  /\ order[w].status # Absent => order[w].planned > 0
  /\ order[w].status \in {Absent, "CREATED"} => order[w].released = 0
  /\ order[w].status = "COMPLETED" <=>
       order[w].planned > 0 /\ order[w].completed = order[w].planned

\* A lot joins an order when it is created, never later, and adds to it.
Enlisted(l) ==
  membership[l].order # NoOrder => lot[l].status # Absent /\ membership[l].quantity > 0

OrderInv == (\A w \in Orders : OrderTold(w)) /\ (\A l \in Lots : Enlisted(l))

LEMMA UnitsReleased ==
  ASSUME NEW w, NEW p
  PROVE  p \in Units(LotsOf(w)) <=>
           \E l \in Lots : \E i \in 1 .. membership[l].quantity :
             p = <<l, i>> /\ lot[l].status # Absent /\ membership[l].order = w
BY DEF Units, LotsOf, Created

LEMMA UnitsReleasedNext ==
  ASSUME NEW w, NEW p
  PROVE  p \in Units(LotsOf(w))' <=>
           \E l \in Lots : \E i \in 1 .. membership'[l].quantity :
             p = <<l, i>> /\ lot'[l].status # Absent /\ membership'[l].order = w
BY DEF Units, LotsOf, Created

LEMMA UnitsBuilt ==
  ASSUME NEW w, NEW p
  PROVE  p \in Units(Built(w)) <=>
           \E l \in Lots : \E i \in 1 .. membership[l].quantity :
             p = <<l, i>> /\ lot[l].status = "DONE" /\ membership[l].order = w
BY DEF Units, LotsOf, Created, Built, Absent

LEMMA UnitsBuiltNext ==
  ASSUME NEW w, NEW p
  PROVE  p \in Units(Built(w))' <=>
           \E l \in Lots : \E i \in 1 .. membership'[l].quantity :
             p = <<l, i>> /\ lot'[l].status = "DONE" /\ membership'[l].order = w
BY DEF Units, LotsOf, Created, Built, Absent

\* The units of one lot.
UnitsIn(l, q) == {l} \X (1 .. q)

LEMMA UnitsAdded ==
  ASSUME NEW U, IsFiniteSet(U), NEW l, NEW q \in Nat, \A i \in 1 .. q : <<l, i>> \notin U
  PROVE  /\ IsFiniteSet(U \cup UnitsIn(l, q))
         /\ Cardinality(U \cup UnitsIn(l, q)) = Cardinality(U) + q
<1> DEFINE V == UnitsIn(l, q)
<1>1. IsFiniteSet({l}) /\ Cardinality({l}) = 1  BY FS_Singleton
<1>2. IsFiniteSet(1 .. q) /\ Cardinality(1 .. q) = q  BY FS_Interval
<1>3. IsFiniteSet(V) /\ Cardinality(V) = q
  <2>1. PICK S : S = {l}  OBVIOUS
  <2>2. PICK T : T = 1 .. q  OBVIOUS
  <2>3. IsFiniteSet(S \X T) /\ Cardinality(S \X T) = Cardinality(S) * Cardinality(T)
    BY <1>1, <1>2, <2>1, <2>2, FS_Product
  <2>4. V = S \X T  BY <2>1, <2>2 DEF UnitsIn
  <2>5. QED  BY <1>1, <1>2, <2>1, <2>2, <2>3, <2>4
<1>4. U \cap V = {}  BY DEF UnitsIn
<1> HIDE DEF V
<1>5. /\ IsFiniteSet(U \cup V)
      /\ Cardinality(U \cup V) = Cardinality(U) + Cardinality(V) - Cardinality(U \cap V)
  BY <1>3, FS_Union
<1>6. Cardinality(U) \in Nat /\ Cardinality(U \cap V) = 0
  BY <1>4, FS_CardinalityType, FS_EmptySet
<1>7. QED  BY <1>3, <1>5, <1>6 DEF V

\* What is built has been released, and what has been released is not more.
LEMMA BuiltReleased ==
  ASSUME NEW w, OrderTold(w)
  PROVE  /\ Units(Built(w)) \subseteq Units(LotsOf(w))
         /\ IsFiniteSet(Units(Built(w)))
         /\ Quantity(Built(w)) \in Nat /\ Quantity(LotsOf(w)) \in Nat
         /\ Quantity(Built(w)) <= Quantity(LotsOf(w))
<1>1. Units(Built(w)) \subseteq Units(LotsOf(w))
  BY UnitsReleased, UnitsBuilt DEF Absent
<1>2. IsFiniteSet(Units(LotsOf(w)))  BY DEF OrderTold
<1>3. QED  BY <1>1, <1>2, FS_Subset, FS_CardinalityType DEF Quantity

-----------------------------------------------------------------------------

\* A step that creates no lot in the order and finishes none of its lots.
LEMMA SameUnits ==
  ASSUME NEW w,
         \A l \in Lots :
           /\ membership[l].order = w \/ membership'[l].order = w =>
                /\ membership'[l] = membership[l]
                /\ (lot'[l].status = Absent <=> lot[l].status = Absent)
                /\ (lot'[l].status = "DONE" <=> lot[l].status = "DONE")
  PROVE  Units(LotsOf(w))' = Units(LotsOf(w)) /\ Units(Built(w))' = Units(Built(w))
<1>1. \A p : p \in Units(LotsOf(w))' <=> p \in Units(LotsOf(w))
  BY UnitsReleased, UnitsReleasedNext
<1>2. \A p : p \in Units(Built(w))' <=> p \in Units(Built(w))
  BY UnitsBuilt, UnitsBuiltNext
<1>3. QED  BY <1>1, <1>2

LEMMA OrderKept ==
  ASSUME NEW w, OrderTold(w), order'[w] = order[w],
         Units(LotsOf(w))' = Units(LotsOf(w)), Units(Built(w))' = Units(Built(w))
  PROVE  OrderTold(w)'
BY DEF OrderTold, Quantity

\* The writes to orders, memberships and lots.
LEMMA OrderWrites ==
  ASSUME [Next]_vars
  PROVE  \/ UNCHANGED <<lot, order, membership>>
         \/ \E l \in Lots, q \in Quantities : /\ InsertLot(l) /\ UNCHANGED order
              /\ membership' = [membership EXCEPT ![l].quantity = q]
         \/ \E c \in Clients, w \in Orders :
              \/ \E q \in Quantities : CreateWorkOrder(c, w, q)
              \/ ReleaseWorkOrder(c, w)
              \/ \E l \in Lots, q \in Quantities : CreateWorkOrderLot(c, w, l, q)
         \/ \E c \in Clients : LotCommit(c)
<1>1. CASE UNCHANGED vars  BY <1>1 DEF vars, lotTables, orderTables
<1>2. ASSUME NEW c \in Clients, LotStep(c) \/ EquipmentStep(c) \/ Abandon(c)
      PROVE  UNCHANGED <<lot, order, membership>> \/ LotCommit(c)
  BY <1>2
  DEF LotCommit, LotStep, ReceiveAdvance, PickTool, ReceiveInspection, ReadPending,
      ReadLastProcess, ReadAttempts, ReceiveDisposition, ReadFailure, CountReworks,
      ReceiveReworkRelease, EquipmentStep, ReceiveStatus, FindOutage, CommitStatus, Abandon,
      lotTables, orderTables
<1>3. ASSUME NEW c \in Clients, WorkOrderStep(c)
      PROVE  \/ \E l \in Lots, q \in Quantities : /\ InsertLot(l) /\ UNCHANGED order
                  /\ membership' = [membership EXCEPT ![l].quantity = q]
             \/ \E w \in Orders :
                  \/ \E q \in Quantities : CreateWorkOrder(c, w, q)
                  \/ ReleaseWorkOrder(c, w)
                  \/ \E l \in Lots, q \in Quantities : CreateWorkOrderLot(c, w, l, q)
  <2>1. ASSUME NEW l \in Lots, NEW q \in Quantities, CreateLot(c, l, q)
        PROVE  /\ InsertLot(l) /\ UNCHANGED order
               /\ membership' = [membership EXCEPT ![l].quantity = q]
    BY <2>1 DEF CreateLot
  <2>2. QED  BY <1>3, <2>1 DEF WorkOrderStep
<1>4. QED  BY <1>1, <1>2, <1>3 DEF Next

\* A lot created outside every order.
LEMMA LoneLot ==
  ASSUME Typed, OrderInv, NEW l \in Lots, NEW q \in Quantities, InsertLot(l), UNCHANGED order,
         membership' = [membership EXCEPT ![l].quantity = q]
  PROVE  OrderInv'
<1>1. lot[l].status = Absent /\ membership[l].order = NoOrder
  BY DEF InsertLot, OrderInv, Enlisted
<1>2. membership'[l].order = NoOrder /\ \A m \in Lots \ {l} : membership'[m] = membership[m]
  BY <1>1 DEF Typed, TypeOK, Membership
<1>3. \A m \in Lots \ {l} : lot'[m] = lot[m]  BY RowWritten DEF InsertLot
<1>4. \A m \in Lots : Enlisted(m)'  BY <1>1, <1>2, <1>3 DEF OrderInv, Enlisted
<1>5. ASSUME NEW w \in Orders PROVE OrderTold(w)'
  <2>1. w # NoOrder  BY TablesAssumption
  <2>2. Units(LotsOf(w))' = Units(LotsOf(w)) /\ Units(Built(w))' = Units(Built(w))
    BY <1>1, <1>2, <1>3, <2>1, SameUnits
  <2>3. QED  BY <2>2, OrderKept DEF OrderInv
<1>6. QED  BY <1>4, <1>5 DEF OrderInv

\* A lot created in an order, when the order has room for it.
LEMMA OrderLot ==
  ASSUME Typed, OrderInv, NEW c \in Clients, NEW w \in Orders, NEW l \in Lots,
         NEW q \in Quantities, CreateWorkOrderLot(c, w, l, q)
  PROVE  OrderInv'
<1>1. lot[l].status = Absent /\ membership[l].order = NoOrder /\ w # NoOrder
  BY TablesAssumption DEF CreateWorkOrderLot, InsertLot, OrderInv, Enlisted
<1>2. q \in Nat /\ q > 0  BY TablesAssumption
<1>3. /\ membership'[l].order = w /\ membership'[l].quantity = q
      /\ \A m \in Lots \ {l} : membership'[m] = membership[m]
  BY DEF Typed, TypeOK, CreateWorkOrderLot
<1>4. lot'[l].status = "WAITING" /\ \A m \in Lots \ {l} : lot'[m] = lot[m]
  BY RowWritten DEF CreateWorkOrderLot, InsertLot
<1>5. \A m \in Lots : Enlisted(m)'
  BY <1>2, <1>3, <1>4 DEF OrderInv, Enlisted, Absent
<1>6. order[w] \in OrderRow /\ OrderTold(w)  BY DEF Typed, TypeOK, OrderInv
<1>7. order'[w] = [order[w] EXCEPT !.released = order[w].released + q, !.status = "IN_PROGRESS"]
      /\ \A v \in Orders \ {w} : order'[v] = order[v]
  BY DEF Typed, TypeOK, CreateWorkOrderLot
<1>8. /\ order'[w].released = order[w].released + q /\ order'[w].status = "IN_PROGRESS"
      /\ order'[w].planned = order[w].planned /\ order'[w].completed = order[w].completed
  BY <1>6, <1>7 DEF OrderRow
<1>9. Units(LotsOf(w))' = Units(LotsOf(w)) \cup UnitsIn(l, q)
  <2>1. \A p : p \in UnitsIn(l, q) <=> \E i \in 1 .. q : p = <<l, i>>  BY DEF UnitsIn
  <2>2. \A p : p \in Units(LotsOf(w))' <=> p \in Units(LotsOf(w)) \/ p \in UnitsIn(l, q)
    BY <1>1, <1>3, <1>4, <2>1, UnitsReleased, UnitsReleasedNext DEF Absent
  <2>3. QED  BY <2>2
<1>10. Units(Built(w))' = Units(Built(w))
  <2>1. \A p : p \in Units(Built(w))' <=> p \in Units(Built(w))
    BY <1>1, <1>3, <1>4, UnitsBuilt, UnitsBuiltNext DEF Absent
  <2>2. QED  BY <2>1
<1>11. \A i \in 1 .. q : <<l, i>> \notin Units(LotsOf(w))
  BY <1>1, UnitsReleased
<1>12. /\ IsFiniteSet(Units(LotsOf(w))')
       /\ Cardinality(Units(LotsOf(w))') = Cardinality(Units(LotsOf(w))) + q
  BY <1>2, <1>6, <1>9, <1>11, UnitsAdded DEF OrderTold
<1>13. /\ order[w].status \in {"RELEASED", "IN_PROGRESS"}
       /\ order[w].released + q <= order[w].planned
  BY DEF CreateWorkOrderLot, OpenForQuantity
<1>14. OrderTold(w)'
  <2>1. IsFiniteSet(Units(LotsOf(w)))'  BY <1>12
  <2>2. order'[w].released = Quantity(LotsOf(w))'
    BY <1>6, <1>8, <1>12 DEF OrderTold, Quantity
  <2>3. order'[w].completed = Quantity(Built(w))'
    BY <1>6, <1>8, <1>10 DEF OrderTold, Quantity
  <2>4. order'[w].status = "COMPLETED" <=>
          order'[w].planned > 0 /\ order'[w].completed = order'[w].planned
    BY <1>6, <1>8, <1>13 DEF OrderTold
  <2>5. QED  BY <1>6, <1>8, <1>13, <2>1, <2>2, <2>3, <2>4 DEF OrderTold, Absent
<1>15. ASSUME NEW v \in Orders \ {w} PROVE OrderTold(v)'
  <2>1. v # NoOrder  BY TablesAssumption
  <2>2. Units(LotsOf(v))' = Units(LotsOf(v)) /\ Units(Built(v))' = Units(Built(v))
    BY <1>1, <1>3, <1>4, <2>1, SameUnits
  <2>3. QED  BY <1>7, <2>2, OrderKept DEF OrderInv
<1>16. QED  BY <1>5, <1>14, <1>15 DEF OrderInv

LEMMA OrderOpened ==
  ASSUME Typed, OrderInv, NEW c \in Clients, NEW w \in Orders,
         (\E q \in Quantities : CreateWorkOrder(c, w, q)) \/ ReleaseWorkOrder(c, w)
  PROVE  OrderInv'
<1>1. UNCHANGED <<lot, membership>>
  BY DEF CreateWorkOrder, ReleaseWorkOrder, lotTables
<1>2. ASSUME NEW v PROVE Units(LotsOf(v))' = Units(LotsOf(v)) /\ Units(Built(v))' = Units(Built(v))
  BY <1>1, SameUnits
<1>3. \A l \in Lots : Enlisted(l)'  BY <1>1 DEF OrderInv, Enlisted
<1>4. order[w] \in OrderRow /\ OrderTold(w)  BY DEF Typed, TypeOK, OrderInv
<1>5. order'[w].released = order[w].released /\ order'[w].completed = order[w].completed
      /\ \A v \in Orders \ {w} : order'[v] = order[v]
  BY <1>4 DEF Typed, TypeOK, CreateWorkOrder, ReleaseWorkOrder, OrderRow
<1>6. /\ order[w].status \in {Absent, "CREATED"} /\ order'[w].status \in {"CREATED", "RELEASED"}
      /\ order'[w].planned \in Nat /\ order'[w].planned > 0
  <2>1. CASE ReleaseWorkOrder(c, w)
    BY <1>4, <2>1 DEF Typed, TypeOK, ReleaseWorkOrder, OrderRow, OrderTold, Absent
  <2>2. ASSUME NEW q \in Quantities, CreateWorkOrder(c, w, q)
        PROVE  /\ order[w].status \in {Absent, "CREATED"}
               /\ order'[w].status \in {"CREATED", "RELEASED"}
               /\ order'[w].planned \in Nat /\ order'[w].planned > 0
    <3>1. q \in Nat /\ q > 0  BY TablesAssumption
    <3>2. order[w].status = Absent /\ order' = [order EXCEPT ![w] =
            [order[w] EXCEPT !.status = "CREATED", !.planned = q]]
      BY <2>2 DEF CreateWorkOrder, Typed, TypeOK
    <3>3. order'[w] = [order[w] EXCEPT !.status = "CREATED", !.planned = q]
      BY <3>2 DEF Typed, TypeOK
    <3>4. QED  BY <1>4, <3>1, <3>2, <3>3 DEF OrderRow
  <2>3. QED  BY <2>1, <2>2
<1>7. order[w].released = 0 /\ order[w].completed = 0
  BY <1>4, <1>6, BuiltReleased DEF OrderTold
<1>8. OrderTold(w)'
  <2>1. IsFiniteSet(Units(LotsOf(w)))'  BY <1>2, <1>4 DEF OrderTold
  <2>2. order'[w].released = Quantity(LotsOf(w))' /\ order'[w].completed = Quantity(Built(w))'
    BY <1>2, <1>4, <1>5 DEF OrderTold, Quantity
  <2>3. QED  BY <1>5, <1>6, <1>7, <2>1, <2>2 DEF OrderTold, Absent
<1>9. \A v \in Orders \ {w} : OrderTold(v)'
  BY <1>2, <1>5, OrderKept DEF OrderInv
<1>10. QED  BY <1>3, <1>8, <1>9 DEF OrderInv

\* A lot command changes the order only when it finishes the lot.
LEMMA LotUnfinished ==
  ASSUME Typed, OrderInv, NEW c \in Clients, LotCommit(c),
         ~ (CommitInspection(c) /\ req[c].result = "PASS")
  PROVE  OrderInv' /\ UNCHANGED order
<1> DEFINE r == req[c]
<1>1. /\ r \in Request /\ r.lot \in Lots /\ r.seen \in LotRow
      /\ lot[r.lot].status = r.seen.status /\ SnapshotFits(r)
  BY CommitOnSeen
<1>2. UNCHANGED <<order, membership>>
  BY DEF LotCommit, CommitHold, CommitDispatch, CommitInspection, CommitDisposition,
         CommitReworkRelease, orderTables
<1>3. lot[r.lot].status \notin {Absent, "DONE"}
  BY <1>1
  DEF LotCommit, CommitHold, CommitDispatch, CommitInspection, CommitDisposition,
      CommitReworkRelease, SnapshotFits, Advanceable, Absent
<1>4. \E s \in LotStatus \ {"DONE"} : \E k : SetLot(r.lot, s, k)
  <2>1. CASE CommitHold(c)  BY <2>1 DEF CommitHold, LotStatus
  <2>2. CASE CommitDispatch(c)
    <3>1. StatusAfterStep(r.seen.step) \in LotStatus \ {"DONE"}
      BY DEF StatusAfterStep, LotStatus
    <3>2. QED  BY <2>2, <3>1 DEF CommitDispatch
  <2>3. CASE CommitInspection(c)
    <3>1. SetLot(r.lot, "QUALITY_HOLD", r.seen.step)  BY <2>3 DEF CommitInspection
    <3>2. QED  BY <3>1 DEF LotStatus
  <2>4. CASE CommitDisposition(c)
    <3>1. StatusAfter(r.disposition) \in LotStatus \ {"DONE"}  BY DEF StatusAfter, LotStatus
    <3>2. QED  BY <2>4, <3>1 DEF CommitDisposition
  <2>5. CASE CommitReworkRelease(c)  BY <2>5 DEF CommitReworkRelease, LotStatus
  <2>6. QED  BY <2>1, <2>2, <2>3, <2>4, <2>5 DEF LotCommit
<1>5. PICK l \in Lots : l = r.lot  BY <1>1
<1>6. /\ lot'[l].status \notin {Absent, "DONE"} /\ lot[l].status \notin {Absent, "DONE"}
      /\ \A m \in Lots \ {l} : lot'[m] = lot[m]
  BY <1>3, <1>4, <1>5, RowWritten DEF LotStatus, Absent
<1>7. ASSUME NEW w \in Orders PROVE OrderTold(w)'
  <2>1. Units(LotsOf(w))' = Units(LotsOf(w)) /\ Units(Built(w))' = Units(Built(w))
    BY <1>2, <1>6, SameUnits
  <2>2. QED  BY <1>2, <2>1, OrderKept DEF OrderInv
<1>8. \A m \in Lots : Enlisted(m)'  BY <1>2, <1>6 DEF OrderInv, Enlisted
<1>9. QED  BY <1>2, <1>7, <1>8 DEF OrderInv


\* An inspection that passes finishes the lot, and its units are built.
LEMMA LotFinished ==
  ASSUME Typed, OrderInv, NEW c \in Clients, CommitInspection(c), req[c].result = "PASS"
  PROVE  /\ OrderInv'
         /\ \A w \in Orders : order[w].status = "COMPLETED" => order'[w] = order[w]
<1>1. /\ req[c] \in Request /\ req[c].lot \in Lots /\ SnapshotFits(req[c])
      /\ lot[req[c].lot].status = req[c].seen.status
  BY CommitOnSeen DEF LotCommit
<1>2. PICK l \in Lots : l = req[c].lot  BY <1>1
<1>3. lot[l].status = "QUALITY_HOLD"
  BY <1>1, <1>2 DEF CommitInspection, SnapshotFits
<1>4. /\ SetLot(l, "DONE", req[c].seen.step) /\ UNCHANGED membership
      /\ CompleteWorkOrderFor(l)
  BY <1>2 DEF CommitInspection
<1>5. lot'[l].status = "DONE" /\ \A m \in Lots \ {l} : lot'[m] = lot[m]
  BY <1>4, RowWritten
<1>6. \A m \in Lots : Enlisted(m)'
  BY <1>3, <1>4, <1>5 DEF OrderInv, Enlisted, Absent
<1>7. ASSUME NEW v, v # membership[l].order
      PROVE  Units(LotsOf(v))' = Units(LotsOf(v)) /\ Units(Built(v))' = Units(Built(v))
  BY <1>4, <1>5, <1>7, SameUnits
<1>8. CASE membership[l].order = NoOrder
  <2>1. UNCHANGED order  BY <1>4, <1>8 DEF CompleteWorkOrderFor
  <2>2. \A w \in Orders : w # membership[l].order  BY <1>8, TablesAssumption
  <2>3. \A w \in Orders : OrderTold(w)'
    BY <1>7, <2>1, <2>2, OrderKept DEF OrderInv
  <2>4. QED  BY <1>6, <2>1, <2>3 DEF OrderInv
<1>9. CASE membership[l].order # NoOrder
  <2>1. PICK w \in Orders : w = membership[l].order
    BY <1>9 DEF Typed, TypeOK, Membership
  <2>2. PICK q \in Nat : q = membership[l].quantity
    BY DEF Typed, TypeOK, Membership
  <2>3. q > 0  BY <1>9, <2>2 DEF OrderInv, Enlisted
  <2>4. order[w] \in OrderRow /\ OrderTold(w)  BY DEF Typed, TypeOK, OrderInv
  <2>5. \A i \in 1 .. q : <<l, i>> \notin Units(Built(w))
    BY <1>3, UnitsBuilt
  <2>6. Units(Built(w))' = Units(Built(w)) \cup UnitsIn(l, q)
    <3>1. \A p : p \in UnitsIn(l, q) <=> \E i \in 1 .. q : p = <<l, i>>  BY DEF UnitsIn
    <3>2. \A p : p \in Units(Built(w))' <=> p \in Units(Built(w)) \/ p \in UnitsIn(l, q)
      BY <1>3, <1>4, <1>5, <2>1, <2>2, <3>1, UnitsBuilt, UnitsBuiltNext
    <3>3. QED  BY <3>2
  <2>7. Units(LotsOf(w))' = Units(LotsOf(w))
    <3>1. \A p : p \in Units(LotsOf(w))' <=> p \in Units(LotsOf(w))
      BY <1>3, <1>4, <1>5, UnitsReleased, UnitsReleasedNext DEF Absent
    <3>2. QED  BY <3>1
  <2>8. /\ Units(Built(w)) \cup UnitsIn(l, q) \subseteq Units(LotsOf(w))
        /\ IsFiniteSet(Units(LotsOf(w))) /\ IsFiniteSet(Units(Built(w)))
        /\ Cardinality(Units(Built(w))) \in Nat
    <3>1. UnitsIn(l, q) \subseteq Units(LotsOf(w))
      BY <1>3, <2>1, <2>2, UnitsReleased DEF UnitsIn, Absent
    <3>2. QED  BY <2>4, <3>1, BuiltReleased DEF OrderTold, Quantity
  <2>9. /\ Cardinality(Units(Built(w)) \cup UnitsIn(l, q)) = Cardinality(Units(Built(w))) + q
        /\ Cardinality(Units(Built(w)) \cup UnitsIn(l, q)) <= Cardinality(Units(LotsOf(w)))
    BY <2>5, <2>8, UnitsAdded, FS_Subset
  <2>10. order[w].completed + q <= order[w].planned /\ order[w].status # "COMPLETED"
    BY <2>3, <2>4, <2>8, <2>9 DEF OrderTold, Quantity, OrderRow
  <2> DEFINE grown == [order[w] EXCEPT !.completed = @ + q]
             row == IF BuiltInFull(grown) THEN [grown EXCEPT !.status = "COMPLETED"] ELSE grown
  <2>11. order' = [order EXCEPT ![w] = row]
    BY <1>4, <1>9, <2>1, <2>2 DEF CompleteWorkOrderFor
  <2>12. /\ grown.planned = order[w].planned /\ grown.released = order[w].released
         /\ grown.completed = order[w].completed + q /\ grown.status = order[w].status
         /\ grown \in OrderRow
    BY <2>4 DEF OrderRow
  <2> HIDE DEF grown
  <2>13. /\ row.planned = order[w].planned /\ row.released = order[w].released
         /\ row.completed = order[w].completed + q
         /\ row.status = IF order[w].completed + q >= order[w].planned
                           THEN "COMPLETED" ELSE order[w].status
    BY <2>12 DEF OrderRow, BuiltInFull
  <2> HIDE DEF row
  <2>14. order'[w] = row /\ \A v \in Orders \ {w} : order'[v] = order[v]
    BY <2>11 DEF Typed, TypeOK
  <2>15. OrderTold(w)'
    <3>1. IsFiniteSet(Units(LotsOf(w)))'  BY <2>7, <2>8
    <3>2. order'[w].released = Quantity(LotsOf(w))'
      BY <2>4, <2>7, <2>13, <2>14 DEF OrderTold, Quantity
    <3>3. order'[w].completed = Quantity(Built(w))'
      BY <2>4, <2>6, <2>9, <2>13, <2>14 DEF OrderTold, Quantity
    <3>4. order[w].status # Absent /\ order[w].status # "CREATED"
      BY <2>3, <2>4, <2>8, <2>9 DEF OrderTold, Quantity, OrderRow
    <3>5. order[w].planned > 0  BY <2>4, <3>4 DEF OrderTold
    <3>6. QED
      BY <2>4, <2>10, <2>13, <2>14, <3>1, <3>2, <3>3, <3>4, <3>5
      DEF OrderTold, OrderRow, Absent
  <2>16. \A v \in Orders \ {w} : OrderTold(v)'
    BY <1>7, <2>1, <2>14, OrderKept DEF OrderInv
  <2>17. QED  BY <1>6, <2>10, <2>14, <2>15, <2>16 DEF OrderInv
<1>10. QED  BY <1>8, <1>9

LEMMA NextOrder ==
  ASSUME Typed, OrderInv, [Next]_vars
  PROVE  /\ OrderInv'
         /\ \A w \in Orders : order[w].status = "COMPLETED" => order'[w] = order[w]
<1>1. CASE UNCHANGED <<lot, order, membership>>
  <2>1. \A w : Units(LotsOf(w))' = Units(LotsOf(w)) /\ Units(Built(w))' = Units(Built(w))
    BY <1>1, SameUnits
  <2>2. \A w \in Orders : OrderTold(w)'  BY <1>1, <2>1, OrderKept DEF OrderInv
  <2>3. \A l \in Lots : Enlisted(l)'  BY <1>1 DEF OrderInv, Enlisted
  <2>4. QED  BY <1>1, <2>2, <2>3 DEF OrderInv
<1>2. ASSUME NEW l \in Lots, NEW q \in Quantities, InsertLot(l), UNCHANGED order,
             membership' = [membership EXCEPT ![l].quantity = q]
      PROVE  OrderInv'
  BY <1>2, LoneLot
<1>3. ASSUME NEW c \in Clients, NEW w \in Orders,
             \/ \E q \in Quantities : CreateWorkOrder(c, w, q)
             \/ ReleaseWorkOrder(c, w)
             \/ \E l \in Lots, q \in Quantities : CreateWorkOrderLot(c, w, l, q)
      PROVE  /\ OrderInv'
             /\ \A v \in Orders : order[v].status = "COMPLETED" => order'[v] = order[v]
  <2>1. OrderInv'  BY <1>3, OrderOpened, OrderLot
  <2>2. order[w].status # "COMPLETED" /\ \A v \in Orders \ {w} : order'[v] = order[v]
    BY <1>3
    DEF Typed, TypeOK, CreateWorkOrder, ReleaseWorkOrder, CreateWorkOrderLot,
        OpenForQuantity, Absent
  <2>3. QED  BY <2>1, <2>2
<1>4. ASSUME NEW c \in Clients, LotCommit(c)
      PROVE  /\ OrderInv'
             /\ \A w \in Orders : order[w].status = "COMPLETED" => order'[w] = order[w]
  BY <1>4, LotUnfinished, LotFinished
<1>5. QED  BY <1>1, <1>2, <1>3, <1>4, OrderWrites

LEMMA InitOrder == Init => OrderInv
<1> SUFFICES ASSUME Init PROVE OrderInv
  OBVIOUS
<1>1. ASSUME NEW w PROVE Units(LotsOf(w)) = {} /\ Units(Built(w)) = {}
  BY UnitsReleased, UnitsBuilt DEF Init, Absent
<1>2. \A w \in Orders : OrderTold(w)
  <2> SUFFICES ASSUME NEW w \in Orders PROVE OrderTold(w)
    OBVIOUS
  <2>1. IsFiniteSet(Units(LotsOf(w))) /\ Quantity(LotsOf(w)) = 0 /\ Quantity(Built(w)) = 0
    BY <1>1, FS_EmptySet DEF Quantity
  <2>2. order[w] = [status |-> Absent, planned |-> 0, released |-> 0, completed |-> 0]
    BY DEF Init
  <2>3. QED  BY <2>1, <2>2 DEF OrderTold, Absent
<1>3. QED  BY <1>2 DEF Init, OrderInv, Enlisted

\* The two counters of a work order are the quantities of its lots and of its
\* finished lots, and what is released stays within the plan, although every
\* quantity is added by an UPDATE of its own in whichever request comes first.
THEOREM OrdersCount == Spec => []OrderCountsItsLots
<1>1. OrderInv => OrderCountsItsLots
  BY DEF OrderInv, OrderTold, OrderCountsItsLots, Built
<1>2. QED  BY <1>1, InitTyped, NextTyped, InitOrder, NextOrder, PTL DEF Spec

\* An order is COMPLETED exactly while all it planned is DONE: it is never
\* closed early, and the inspection that finishes its last lot closes it.
THEOREM OrdersCloseWhenBuilt == Spec => []CompletedIffBuilt
<1>1. OrderInv => CompletedIffBuilt
  BY DEF OrderInv, OrderTold, CompletedIffBuilt, Built
<1>2. QED  BY <1>1, InitTyped, NextTyped, InitOrder, NextOrder, PTL DEF Spec

\* No request changes a COMPLETED order: an inspection still to be committed
\* can only be of a lot whose quantity would exceed the plan.
THEOREM ClosedOrdersFrozen == Spec => CompletedIsFinal
<1>1. Typed /\ OrderInv /\ [Next]_vars =>
        [\A w \in Orders : order[w].status = "COMPLETED" => order'[w] = order[w]]_vars
  BY NextOrder
<1>2. QED  BY <1>1, InitTyped, NextTyped, InitOrder, NextOrder, PTL DEF Spec, CompletedIsFinal

=============================================================================
