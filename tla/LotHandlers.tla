---------------------------- MODULE LotHandlers -----------------------------
(***************************************************************************)
(* The commands that move a lot: advance, quality inspection, quality      *)
(* disposition and rework release.                                         *)
(***************************************************************************)
EXTENDS WorkOrders, FiniteSetsExt

-----------------------------------------------------------------------------
(* advance_lot                                                             *)

ReceiveAdvance(c, l) ==
  /\ Receives(c, "advance")
  /\ lot[l].status \in Advanceable
  /\ Becomes(c, [pc |-> "pick", lot |-> l, seen |-> lot[l]])
  /\ UNCHANGED <<lotTables, toolTables, orderTables>>

Candidates(step) == {t \in Tools : ToolStep[t] = step /\ tool[t].status # "DOWN"}

\* Mutant: any candidate, not the one with the fewest dispatches.
AnyOf(ts) == ts

\* min(..., key = dispatch_count, ...); the tie-breakers, run time and id, are
\* left open.
LeastDispatched(ts) ==
  {t \in ts : \A u \in ts : tool[t].dispatched <= tool[u].dispatched}

\* Mutant: the route is taken to be one step longer than it is.
RouteOneLonger(step) == IF step >= RouteLength THEN "QUALITY_HOLD" ELSE "PROCESSING"

StatusAfterStep(step) ==
  IF step + 1 >= RouteLength THEN "QUALITY_HOLD" ELSE "PROCESSING"

\* A tool is free: the dispatch is prepared, unless the state machine refuses
\* it (ValueError, nothing written).
ChooseTool(c, r) ==
  \E t \in LeastDispatched(Candidates(r.seen.step)) :
    IF TransitionAllowed(r.seen.status, StatusAfterStep(r.seen.step))
      THEN Becomes(c, [pc |-> "dispatch", lot |-> r.lot, seen |-> r.seen,
                       tool |-> t, toolSeen |-> tool[t]])
      ELSE Answers(c)

\* Mutant: a tool of any step that is down is enough to hold the lot.
SomeToolDown(c, r) ==
  /\ \E t \in Tools : tool[t].status = "DOWN"
  /\ IF r.seen.status = "HOLD"
       THEN Answers(c)
       ELSE Becomes(c, [pc |-> "hold", lot |-> r.lot, seen |-> r.seen])

\* No tool is free: hold the lot; one already on HOLD is left as it is.
NoToolFree(c, r) ==
  /\ Candidates(r.seen.step) = {}
  /\ IF r.seen.status = "HOLD"
       THEN Answers(c)
       ELSE Becomes(c, [pc |-> "hold", lot |-> r.lot, seen |-> r.seen])

PickTool(c) ==
  /\ req[c].pc = "pick"
  /\ ChooseTool(c, req[c]) \/ NoToolFree(c, req[c])
  /\ UNCHANGED <<lotTables, toolTables, orderTables>>

\* Mutant: the lot is written without comparing what was read.
RowExists(l, seen) == lot[l].status # Absent

\* Mutant: step_index is not compared.
StatusAsRead(l, seen) == lot[l].status = seen.status

\* advance_lot compares status and step_index, not updated_at.
StillWhereItWas(l, seen) == RowMatches(l, seen)

CommitHold(c) ==
  LET r == req[c] IN
  /\ r.pc = "hold"
  /\ StillWhereItWas(r.lot, r.seen)
  /\ SetLot(r.lot, "HOLD", r.seen.step)
  /\ AppendLotEvent(r.lot, Event("LOT_HELD", r.seen.status, "HOLD", r.seen.step, NoTool))
  /\ Answers(c)
  /\ UNCHANGED <<inspections, toolTables, orderTables>>

\* Mutant: a dispatch is counted only when it sets the tool running.
CountedWhenStarted(t, seen) ==
  [status     |-> IF seen.status = "RUN" THEN tool[t].status ELSE "RUN",
   dispatched |-> IF seen.status = "RUN" THEN tool[t].dispatched ELSE seen.dispatched + 1]

\* The flush of a tool's row: dispatch_count is the snapshot's plus one, and
\* status is in the UPDATE only when it differs from the snapshot's.
ToolDispatched(t, seen) ==
  [status     |-> IF seen.status = "RUN" THEN tool[t].status ELSE "RUN",
   dispatched |-> seen.dispatched + 1]

\* The journal of a dispatch: a held lot is first released, then the step is
\* completed.
DispatchEvents(l, seen, t) ==
  LET held == seen.status = "HOLD"
      released == Event("LOT_RELEASED_FROM_HOLD", "HOLD", "PROCESSING", seen.step, t)
      completed == Event("PROCESS_COMPLETED",
                         IF held THEN "PROCESSING" ELSE seen.status,
                         StatusAfterStep(seen.step), seen.step, t)
      before == IF held THEN Append(events[l], released) ELSE events[l]
  IN  Append(before, completed)

CommitDispatch(c) ==
  LET r == req[c] IN
  /\ r.pc = "dispatch"
  /\ StillWhereItWas(r.lot, r.seen)
  /\ SetLot(r.lot, StatusAfterStep(r.seen.step), r.seen.step + 1)
  /\ events' = [events EXCEPT ![r.lot] = DispatchEvents(r.lot, r.seen, r.tool)]
  /\ tool' = [tool EXCEPT ![r.tool] = ToolDispatched(r.tool, r.toolSeen)]
  /\ Answers(c)
  /\ UNCHANGED <<inspections, outages, orderTables>>

-----------------------------------------------------------------------------
(* inspect_lot                                                             *)

ReceiveInspection(c, l, result) ==
  /\ Receives(c, "inspections")
  /\ lot[l].status = "QUALITY_HOLD"
  /\ Becomes(c, [pc |-> "history", lot |-> l, seen |-> lot[l], result |-> result])
  /\ UNCHANGED <<lotTables, toolTables, orderTables>>

PendingFailures(l) ==
  {i \in DOMAIN inspections[l] : inspections[l][i].result = "FAIL"
                              /\ inspections[l][i].disposition = "PENDING"}

\* The events of the lot's completed runs of the last step, INSPECT.
InspectRuns(l) ==
  {i \in DOMAIN events[l] : events[l][i].type = "PROCESS_COMPLETED"
                         /\ events[l][i].step = LastStep}

\* Mutant: the first run of INSPECT is blamed instead of the latest.
FirstInspectTool(l) ==
  IF InspectRuns(l) = {} THEN NoTool ELSE events[l][Min(InspectRuns(l))].tool

LastInspectTool(l) ==
  IF InspectRuns(l) = {} THEN NoTool ELSE events[l][Max(InspectRuns(l))].tool

AttemptsOf(l) == {inspections[l][i].attempt : i \in DOMAIN inspections[l]}

\* Mutant: the latest number is used again.
LatestAttempt(l) == IF AttemptsOf(l) = {} THEN 0 ELSE Max(AttemptsOf(l))

NextAttempt(l) == IF AttemptsOf(l) = {} THEN 1 ELSE Max(AttemptsOf(l)) + 1

\* Mutant: the undecided failure is not looked for.
NeverPending(l) == TRUE

NoneUndecided(l) == PendingFailures(l) = {}

\* A failure that awaits its disposition refuses the request (409).
ReadPending(c) ==
  LET r == req[c] IN
  /\ r.pc = "history"
  /\ IF NoneUndecided(r.lot)
       THEN Becomes(c, [pc |-> "blame", lot |-> r.lot, seen |-> r.seen,
                        result |-> r.result])
       ELSE Answers(c)
  /\ UNCHANGED <<lotTables, toolTables, orderTables>>

ReadLastProcess(c) ==
  LET r == req[c] IN
  /\ r.pc = "blame"
  /\ Becomes(c, [pc |-> "number", lot |-> r.lot, seen |-> r.seen, result |-> r.result,
                 tool |-> LastInspectTool(r.lot)])
  /\ UNCHANGED <<lotTables, toolTables, orderTables>>

ReadAttempts(c) ==
  LET r == req[c] IN
  /\ r.pc = "number"
  /\ Becomes(c, [pc |-> "inspect", lot |-> r.lot, seen |-> r.seen, result |-> r.result,
                 tool |-> r.tool, attempt |-> NextAttempt(r.lot)])
  /\ UNCHANGED <<lotTables, toolTables, orderTables>>

\* Mutant: the commands on inspected lots compare status and step only.
SameStatusAndStep(l, seen) == RowMatches(l, seen)

\* Mutant: they compare the step only.
SameStep(l, seen) == lot[l].step = seen.step

\* Inspection, disposition and rework release compare updated_at as well.
StillAsRead(l, seen) == RowUnchanged(l, seen)

InspectionEvent(result, t) ==
  IF result = "FAIL"
    THEN Event("DEFECT_RECORDED", "QUALITY_HOLD", "QUALITY_HOLD", LastStep, t)
    ELSE Event("LOT_COMPLETED", "QUALITY_HOLD", "DONE", LastStep, t)

CommitInspection(c) ==
  LET r == req[c]
      row == [attempt     |-> r.attempt,
              result      |-> r.result,
              disposition |-> IF r.result = "PASS" THEN "NONE" ELSE "PENDING",
              tool        |-> r.tool]
  IN
  /\ r.pc = "inspect"
  /\ StillAsRead(r.lot, r.seen)
  /\ r.attempt \notin AttemptsOf(r.lot)     \* uq_quality_lot_attempt
  /\ SetLot(r.lot, IF r.result = "PASS" THEN "DONE" ELSE "QUALITY_HOLD", r.seen.step)
  /\ inspections' = [inspections EXCEPT ![r.lot] = Append(@, row)]
  /\ AppendLotEvent(r.lot, InspectionEvent(r.result, r.tool))
  /\ IF r.result = "PASS" THEN CompleteWorkOrderFor(r.lot) ELSE UNCHANGED order
  /\ Answers(c)
  /\ UNCHANGED <<toolTables, membership>>

-----------------------------------------------------------------------------
(* disposition_lot                                                         *)

ReceiveDisposition(c, l, d) ==
  /\ Receives(c, "quality-disposition")
  /\ lot[l].status = "QUALITY_HOLD"
  /\ Becomes(c, [pc |-> "failure", lot |-> l, seen |-> lot[l], disposition |-> d])
  /\ UNCHANGED <<lotTables, toolTables, orderTables>>

Reworks(l) ==
  {i \in DOMAIN inspections[l] : inspections[l][i].disposition = "REWORK"}

\* Mutant: the bound on rework cycles is off by one.
ReworkOnceTooOften(l) == Cardinality(Reworks(l)) <= MaxReworkCycles

ReworkPermitted(l) == Cardinality(Reworks(l)) < MaxReworkCycles

\* The newest undecided failure is looked up; without one the request is
\* refused (409).
ReadFailure(c) ==
  LET r == req[c] IN
  /\ r.pc = "failure"
  /\ IF NoneUndecided(r.lot)
       THEN Answers(c)
       ELSE Becomes(c, [pc |-> IF r.disposition = "REWORK" THEN "cycles" ELSE "dispose",
                        lot |-> r.lot, seen |-> r.seen, disposition |-> r.disposition,
                        row |-> Max(PendingFailures(r.lot))])
  /\ UNCHANGED <<lotTables, toolTables, orderTables>>

\* With the rework cycles used up only SCRAP is left (409).
CountReworks(c) ==
  LET r == req[c] IN
  /\ r.pc = "cycles"
  /\ IF ReworkPermitted(r.lot) THEN Becomes(c, [r EXCEPT !.pc = "dispose"]) ELSE Answers(c)
  /\ UNCHANGED <<lotTables, toolTables, orderTables>>

StatusAfter(disposition) == IF disposition = "SCRAP" THEN "SCRAPPED" ELSE "REWORK"

DispositionEvent(disposition, t) ==
  Event(IF disposition = "SCRAP" THEN "LOT_SCRAPPED" ELSE "LOT_REWORKED",
        "QUALITY_HOLD", StatusAfter(disposition), LastStep, t)

CommitDisposition(c) ==
  LET r == req[c] IN
  /\ r.pc = "dispose"
  /\ StillAsRead(r.lot, r.seen)
  /\ SetLot(r.lot, StatusAfter(r.disposition), r.seen.step)
  /\ inspections' = [inspections EXCEPT ![r.lot][r.row].disposition = r.disposition]
  /\ AppendLotEvent(r.lot, DispositionEvent(r.disposition, inspections[r.lot][r.row].tool))
  /\ Answers(c)
  /\ UNCHANGED <<toolTables, orderTables>>

-----------------------------------------------------------------------------
(* release_rework: the body chooses the step the lot re-enters the route   *)
(* at, and the schema accepts every one (schemas.py: ge=0, lt=4).          *)

ReceiveReworkRelease(c, l, step) ==
  /\ Receives(c, "rework-release")
  /\ lot[l].status = "REWORK"
  /\ Becomes(c, [pc |-> "release", lot |-> l, seen |-> lot[l], step |-> step])
  /\ UNCHANGED <<lotTables, toolTables, orderTables>>

CommitReworkRelease(c) ==
  LET r == req[c] IN
  /\ r.pc = "release"
  /\ StillAsRead(r.lot, r.seen)
  /\ SetLot(r.lot, "WAITING", r.step)
  /\ AppendLotEvent(r.lot, Event("LOT_REWORK_RELEASED", "REWORK", "WAITING", r.step, NoTool))
  /\ Answers(c)
  /\ UNCHANGED <<inspections, toolTables, orderTables>>

LotStep(c) ==
  \/ \E l \in Lots : ReceiveAdvance(c, l)
  \/ PickTool(c)
  \/ CommitHold(c)
  \/ CommitDispatch(c)
  \/ \E l \in Lots, result \in InspectionResult : ReceiveInspection(c, l, result)
  \/ ReadPending(c)
  \/ ReadLastProcess(c)
  \/ ReadAttempts(c)
  \/ CommitInspection(c)
  \/ \E l \in Lots, d \in Dispositions : ReceiveDisposition(c, l, d)
  \/ ReadFailure(c)
  \/ CountReworks(c)
  \/ CommitDisposition(c)
  \/ \E l \in Lots, step \in Steps : ReceiveReworkRelease(c, l, step)
  \/ CommitReworkRelease(c)
=============================================================================
