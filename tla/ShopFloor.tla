----------------------------- MODULE ShopFloor ------------------------------
(***************************************************************************)
(* The MES core: lots, equipment and work orders over one database, with   *)
(* any number of clients whose requests interleave at every database call. *)
(***************************************************************************)
EXTENDS LotHandlers, EquipmentHandlers

Next ==
  \E c \in Clients :
    \/ LotStep(c)
    \/ EquipmentStep(c)
    \/ WorkOrderStep(c)
    \/ Abandon(c)

Spec == Init /\ [][Next]_vars

-----------------------------------------------------------------------------
(* The lot and its journal.                                                *)

Created == {l \in Lots : lot[l].status # Absent}

\* The events that set step_index, and the value they set it to.
StepMarks(l) ==
  {i \in DOMAIN events[l] :
     events[l][i].type \in {"PROCESS_COMPLETED", "LOT_REWORK_RELEASED"}}
StepSetBy(e) == IF e.type = "PROCESS_COMPLETED" THEN e.step + 1 ELSE e.step

\* The step index the events before the n-th leave the lot at.
StepBefore(l, n) ==
  LET marks == {i \in StepMarks(l) : i < n}
  IN  IF marks = {} THEN 0 ELSE StepSetBy(events[l][Max(marks)])

\* Replaying a lot's journal gives the lot's row: its status and the step it
\* stands at (models.py: the journal is for reconstructing the history, and is
\* committed in the transaction that changes the lot).
JournalReplaysLot ==
  \A l \in Created :
    /\ events[l] # <<>>
    /\ events[l][Len(events[l])].to = lot[l].status
    /\ StepBefore(l, Len(events[l]) + 1) = lot[l].step

\* Every entry of a journal starts from the status the one before ended in, is
\* a move the state machine allows, and names the step the lot stood at: no
\* step is completed twice and none is skipped, whoever raced.
JournalIsChain ==
  \A l \in Created : \A i \in DOMAIN events[l] :
    LET e == events[l][i] IN
    IF i = 1 THEN e.type = "LOT_CREATED"
    ELSE /\ e.from = events[l][i - 1].to
         /\ e.type # "DEFECT_RECORDED" => TransitionAllowed(e.from, e.to)
         /\ e.type \in {"LOT_HELD", "LOT_RELEASED_FROM_HOLD", "PROCESS_COMPLETED"}
              => e.step = StepBefore(l, i)

\* A lot some command could still advance has a step left to run, and every
\* other created lot has run the whole route: PROCESS_ROUTE[lot.step_index] in
\* advance_lot is never out of range.
StepMatchesStatus ==
  \A l \in Created :
    IF lot[l].status \in Advanceable THEN lot[l].step < RouteLength
                                     ELSE lot[l].step = RouteLength

\* The state machine refuses the advance of a lot (ValueError, answered 500)
\* in one situation only: it was sent back to the last step by a rework
\* release.  A lot held at the last step, in particular, is not refused.
RefusedOnlyAfterRework ==
  \A l \in Created :
    lot[l].status \in Advanceable =>
      \/ TransitionAllowed(lot[l].status, StatusAfterStep(lot[l].step))
      \/ /\ lot[l].step = LastStep
         /\ events[l][Len(events[l])].type = "LOT_REWORK_RELEASED"

\* A lot some command could advance can be advanced: "rather than being stuck
\* forever" (advance_lot, main.py:744).
AdvanceNeverRefused ==
  \A l \in Created :
    lot[l].status \in Advanceable =>
      TransitionAllowed(lot[l].status, StatusAfterStep(lot[l].step))

-----------------------------------------------------------------------------
(* The quality record of a lot.                                            *)

\* Attempts are numbered 1, 2, ... in the order they were made, although the
\* number is read before the transaction that writes it.
AttemptsAreContiguous ==
  \A l \in Lots : \A i \in DOMAIN inspections[l] : inspections[l][i].attempt = i

\* Only the newest inspection may await its disposition, and the lot then
\* stays on QUALITY_HOLD: a failure is never inspected over, nor decided twice.
OneUndecidedFailure ==
  \A l \in Lots :
    /\ PendingFailures(l) \subseteq {Len(inspections[l])}
    /\ PendingFailures(l) # {} => lot[l].status = "QUALITY_HOLD"

\* A lot is sent through at most MAX_REWORK_CYCLES corrective cycles, although
\* the cycles are counted before the transaction that adds one.
ReworkBounded == \A l \in Lots : Cardinality(Reworks(l)) <= MaxReworkCycles

\* DONE, SCRAPPED and REWORK are the statuses of lots whose newest inspection
\* passed, was scrapped or was sent to rework, and of no others.
VerdictDecidesStatus ==
  \A l \in Lots :
    LET rows == inspections[l]
        newest == rows[Len(rows)]
        decided(s) == rows # <<>> /\ newest.disposition = s
    IN /\ lot[l].status = "DONE" <=> (rows # <<>> /\ newest.result = "PASS")
       /\ lot[l].status = "SCRAPPED" <=> decided("SCRAP")
       /\ lot[l].status = "REWORK" => decided("REWORK")

\* An inspection blames the tool that last ran INSPECT on the lot, up to the
\* moment the lot is run through the route again.
InspectionBlamesLastTool ==
  \A l \in Lots :
    LET rows == inspections[l] IN
    /\ rows # <<>>
    /\ rows[Len(rows)].disposition # "REWORK" \/ lot[l].status = "REWORK"
    => /\ InspectRuns(l) # {}
       /\ rows[Len(rows)].tool = events[l][Max(InspectRuns(l))].tool

\* No request, however stale, changes the row, the journal or the inspections
\* of a lot that is DONE or SCRAPPED.
TerminalIsFinal ==
  [][\A l \in Lots : lot[l].status \in Terminal =>
       <<lot[l], events[l], inspections[l]>>' = <<lot[l], events[l], inspections[l]>>]_vars

\* The lot commands, for all their reads and stale snapshots, are atomic: each
\* commit is one step of LotProtocol on the lot's current state.
Protocol ==
  INSTANCE LotProtocol WITH
    status   <- [l \in Lots |-> lot[l].status],
    step     <- [l \in Lots |-> lot[l].step],
    verdicts <- [l \in Lots |->
                  [i \in DOMAIN inspections[l] |->
                    [result      |-> inspections[l][i].result,
                     disposition |-> inspections[l][i].disposition]]]

CommandsAreAtomic == Protocol!Spec

-----------------------------------------------------------------------------
(* The equipment.                                                          *)

\* PROCESS_COMPLETED events that name the tool.
RunsOf(t) ==
  UNION {{<<l, i>> : i \in {j \in DOMAIN events[l] :
            events[l][j].type = "PROCESS_COMPLETED" /\ events[l][j].tool = t}} : l \in Lots}

\* dispatch_count is the number of dispatches (advance_lot, main.py:755: "Use
\* completed dispatch count as the primary fairness signal").
DispatchCountIsExact == \A t \in Tools : tool[t].dispatched = Cardinality(RunsOf(t))

\* Whatever races, the count never exceeds the dispatches: writes can be lost,
\* none is counted twice.
DispatchNeverOvercounted == \A t \in Tools : tool[t].dispatched <= Cardinality(RunsOf(t))

\* Tools of one step that were never down share the work evenly, to within one
\* dispatch (docs/architecture/domain-model-and-state-machines.md:88).
DispatchIsEven ==
  \A t, u \in Tools :
    ToolStep[t] = ToolStep[u] /\ outages[t] = <<>> /\ outages[u] = <<>>
      => tool[t].dispatched <= tool[u].dispatched + 1

\* A lot is put on HOLD only when no tool of its step is available
\* (docs/architecture/domain-model-and-state-machines.md:84).
HoldOnlyWhenStarved ==
  [][\A l \in Lots : lot'[l].status = "HOLD" /\ lot[l].status # "HOLD"
       => \A t \in Tools : ToolStep[t] = lot[l].step => tool[t].status = "DOWN"]_vars

\* A tool that is down has an outage on record that is still open: the newest.
DownHasOpenOutage ==
  \A t \in Tools : tool[t].status = "DOWN" =>
    outages[t] # <<>> /\ outages[t][Len(outages[t])]

\* One DOWN stretch is one row (models.py:158): exactly one row is open while
\* the tool is down, none otherwise.
OutageOpenIffDown ==
  \A t \in Tools :
    Cardinality(OpenOutages(t)) = IF tool[t].status = "DOWN" THEN 1 ELSE 0

-----------------------------------------------------------------------------
(* The work orders.                                                        *)

\* The units a set of lots is made of, each its lot and a number.
Units(ls) == UNION {{l} \X (1 .. membership[l].quantity) : l \in ls}
Quantity(ls) == Cardinality(Units(ls))
LotsOf(w) == {l \in Created : membership[l].order = w}

\* An order's two counters are the quantities of its lots and of its finished
\* lots, and stay within the plan.
OrderCountsItsLots ==
  \A w \in Orders :
    /\ order[w].released = Quantity(LotsOf(w))
    /\ order[w].completed = Quantity({l \in LotsOf(w) : lot[l].status = "DONE"})
    /\ order[w].released <= order[w].planned

\* An order is COMPLETED when, and only when, all it planned is DONE; scrapped
\* quantity never counts.
CompletedIffBuilt ==
  \A w \in Orders :
    order[w].status = "COMPLETED" <=>
      /\ order[w].planned > 0
      /\ Quantity({l \in LotsOf(w) : lot[l].status = "DONE"}) = order[w].planned

\* Nothing is released into, finished in or reopened on a COMPLETED order.
CompletedIsFinal ==
  [][\A w \in Orders : order[w].status = "COMPLETED" => order'[w] = order[w]]_vars
=============================================================================
