------------------------------ MODULE LotStates ------------------------------
(***************************************************************************)
(* The explicit lot state machine (app/state_machine.py) and the           *)
(* enumerations of app/models.py it is written over.                       *)
(***************************************************************************)

LotStatus == {"WAITING", "PROCESSING", "DONE", "HOLD", "QUALITY_HOLD",
              "REWORK", "SCRAPPED"}

EquipmentStatus == {"RUN", "IDLE", "DOWN"}

InspectionResult == {"PASS", "FAIL"}

QualityDisposition == {"NONE", "PENDING", "SCRAP", "REWORK"}

WorkOrderStatus == {"CREATED", "RELEASED", "IN_PROGRESS", "COMPLETED",
                    "CANCELLED"}

LotEventType == {"LOT_CREATED", "LOT_HELD", "LOT_RELEASED_FROM_HOLD",
                 "PROCESS_COMPLETED", "LOT_COMPLETED", "DEFECT_RECORDED",
                 "LOT_SCRAPPED", "LOT_REWORKED", "LOT_REWORK_RELEASED"}

\* The table of moves, one field per source status.
ALLOWED_LOT_TRANSITIONS ==
  [WAITING      |-> {"PROCESSING", "HOLD"},
   PROCESSING   |-> {"PROCESSING", "HOLD", "QUALITY_HOLD"},
   HOLD         |-> {"PROCESSING", "QUALITY_HOLD"},
   QUALITY_HOLD |-> {"DONE", "REWORK", "SCRAPPED"},
   REWORK       |-> {"WAITING"},
   SCRAPPED     |-> {},
   DONE         |-> {}]

\* Mutant: a lot held at the last step is not allowed on to its inspection.
NoQualityHoldFromHold(from, to) ==
  to \in ALLOWED_LOT_TRANSITIONS[from] /\ <<from, to>> # <<"HOLD", "QUALITY_HOLD">>

\* ensure_lot_transition(from, to) returns; otherwise it raises ValueError.
TransitionAllowed(from, to) == to \in ALLOWED_LOT_TRANSITIONS[from]

\* The statuses advance_lot accepts; every other one is answered 409.
Advanceable == {"WAITING", "PROCESSING", "HOLD"}

\* The statuses no command of the API ever leaves.
Terminal == {"DONE", "SCRAPPED"}
=============================================================================
