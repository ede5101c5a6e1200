----------------------------- MODULE WorkOrders -----------------------------
(***************************************************************************)
(* Work orders and the creation of lots.  Every handler here decides       *)
(* inside its write transaction (a conditional UPDATE), so each is one     *)
(* action.                                                                 *)
(***************************************************************************)
EXTENDS Tables

\* create_lot and the second half of create_work_order_lot: the row and its
\* first journal entry in one transaction.
InsertLot(l) ==
  /\ lot[l].status = Absent
  /\ SetLot(l, "WAITING", 0)
  /\ AppendLotEvent(l, Event("LOT_CREATED", NoStatus, "WAITING", NoStep, NoTool))
  /\ UNCHANGED inspections

CreateLot(c, l, q) ==
  /\ Receives(c, "lots")
  /\ InsertLot(l)
  /\ membership' = [membership EXCEPT ![l].quantity = q]
  /\ UNCHANGED <<order, toolTables, req>>

CreateWorkOrder(c, w, q) ==
  /\ Receives(c, "work-orders")
  /\ order[w].status = Absent
  /\ order' = [order EXCEPT ![w].status = "CREATED", ![w].planned = q]
  /\ UNCHANGED <<lotTables, toolTables, membership, req>>

ReleaseWorkOrder(c, w) ==
  /\ Receives(c, "work-orders")
  /\ order[w].status = "CREATED"
  /\ order' = [order EXCEPT ![w].status = "RELEASED"]
  /\ UNCHANGED <<lotTables, toolTables, membership, req>>

\* Mutant: the remaining quantity is not checked in the UPDATE's condition.
OpenForAnyQuantity(w, q) == order[w].status \in {"RELEASED", "IN_PROGRESS"}

\* The condition of the UPDATE that reserves q of the order.
OpenForQuantity(w, q) ==
  /\ order[w].status \in {"RELEASED", "IN_PROGRESS"}
  /\ order[w].released + q <= order[w].planned

CreateWorkOrderLot(c, w, l, q) ==
  /\ Receives(c, "work-orders")
  /\ OpenForQuantity(w, q)
  /\ order' = [order EXCEPT ![w].released = @ + q, ![w].status = "IN_PROGRESS"]
  /\ InsertLot(l)
  /\ membership' = [membership EXCEPT ![l] = [order |-> w, quantity |-> q]]
  /\ UNCHANGED <<toolTables, req>>

\* Mutant: the order is closed when the quantity released, not the quantity
\* built, reaches the plan.
ClosedByRelease(row) == row.released >= row.planned

\* Mutant: the order is closed only when more than planned is built.
BuiltInExcess(row) == row.completed > row.planned

BuiltInFull(row) == row.completed >= row.planned

\* _complete_work_order_for_lot: an atomic increment, then the comparison on
\* the refreshed row.
CompleteWorkOrderFor(l) ==
  LET w == membership[l].order
      grown == [order[w] EXCEPT !.completed = @ + membership[l].quantity]
  IN  IF w = NoOrder
        THEN UNCHANGED order
        ELSE order' = [order EXCEPT ![w] =
               IF BuiltInFull(grown) THEN [grown EXCEPT !.status = "COMPLETED"]
                                     ELSE grown]

WorkOrderStep(c) ==
  \/ \E l \in Lots, q \in Quantities : CreateLot(c, l, q)
  \/ \E w \in Orders, q \in Quantities : CreateWorkOrder(c, w, q)
  \/ \E w \in Orders : ReleaseWorkOrder(c, w)
  \/ \E w \in Orders, l \in Lots, q \in Quantities : CreateWorkOrderLot(c, w, l, q)
=============================================================================
