------------------------- MODULE EquipmentHandlers --------------------------
(***************************************************************************)
(* set_equipment_status: an operator, or the simulated plant, reports that *)
(* a tool runs, idles or is down.  The handler writes the row it has read, *)
(* with no condition on what the row holds by then.                        *)
(***************************************************************************)
EXTENDS Tables

EntersDown(seen, status) == seen.status # "DOWN" /\ status = "DOWN"
LeavesDown(seen, status) == seen.status = "DOWN" /\ status # "DOWN"

\* Only a handler that leaves DOWN goes on to look for the open outage.
ReceiveStatus(c, t, status) ==
  /\ Receives(c, "equipment-status")
  /\ EntersDown(tool[t], status) => Len(outages[t]) < MaxOutages
  /\ Becomes(c, IF LeavesDown(tool[t], status)
                  THEN [pc |-> "outage", tool |-> t, toolSeen |-> tool[t],
                        status |-> status]
                  ELSE [pc |-> "status", tool |-> t, toolSeen |-> tool[t],
                        status |-> status, row |-> 0])
  /\ UNCHANGED <<lotTables, toolTables, orderTables>>

OpenOutages(t) == {i \in DOMAIN outages[t] : outages[t][i]}

\* The open outage with the latest started_at.  Timestamps are taken before
\* the rows are written, so with several open rows it may be any of them.
FindOutage(c) ==
  LET r == req[c] IN
  /\ r.pc = "outage"
  /\ \E row \in IF OpenOutages(r.tool) = {} THEN {0} ELSE OpenOutages(r.tool) :
       Becomes(c, [pc |-> "status", tool |-> r.tool, toolSeen |-> r.toolSeen,
                   status |-> r.status, row |-> row])
  /\ UNCHANGED <<lotTables, toolTables, orderTables>>

\* Mutant: leaving DOWN does not close the outage.
NothingClosed(t, seen, status, row) ==
  IF EntersDown(seen, status) THEN Append(outages[t], TRUE) ELSE outages[t]

\* The rows flushed: one inserted on entering DOWN, the one found closed on
\* leaving it.
OutagesWritten(t, seen, status, row) ==
  IF EntersDown(seen, status) THEN Append(outages[t], TRUE)
  ELSE IF row # 0 THEN [outages[t] EXCEPT ![row] = FALSE]
  ELSE outages[t]

\* Mutant: the row is written whether or not its status changed.
StatusAlwaysWritten(t, seen, status) == status

\* The status column is in the UPDATE only when it differs from the snapshot.
StatusWritten(t, seen, status) ==
  IF status = seen.status THEN tool[t].status ELSE status

CommitStatus(c) ==
  LET r == req[c] IN
  /\ r.pc = "status"
  /\ EntersDown(r.toolSeen, r.status) => Len(outages[r.tool]) < MaxOutages
  /\ tool' = [tool EXCEPT ![r.tool].status = StatusWritten(r.tool, r.toolSeen, r.status)]
  /\ outages' = [outages EXCEPT
                   ![r.tool] = OutagesWritten(r.tool, r.toolSeen, r.status, r.row)]
  /\ Answers(c)
  /\ UNCHANGED <<lotTables, orderTables>>

EquipmentStep(c) ==
  \/ \E t \in Tools, status \in Reports : ReceiveStatus(c, t, status)
  \/ FindOutage(c)
  \/ CommitStatus(c)
=============================================================================
