------------------------------- MODULE Tables -------------------------------
(***************************************************************************)
(* The MES database and the requests in flight against it.                 *)
(*                                                                         *)
(* A request handler of app/main.py reads rows with plain SELECTs, each of *)
(* which sees whatever is committed at that moment, decides, and then      *)
(* writes everything in ONE SQLite transaction (the first UPDATE or INSERT *)
(* takes the single write lock, db.commit() releases it).  So a handler is *)
(* one action per read and one action for its write transaction; between   *)
(* them it carries, in req[c], the rows it has seen.                       *)
(***************************************************************************)
EXTENDS Integers, Sequences, FiniteSets, LotStates

CONSTANTS
  Lots,             \* lot ids that may be created
  Tools,            \* the seeded equipment
  Orders,           \* work-order ids that may be created
  Clients,          \* threads serving API requests
  Endpoints,        \* the endpoints the clients of an instance call
  Reports,          \* the statuses they report of equipment
  RouteLength,      \* len(PROCESS_ROUTE)
  ToolStep,         \* the index in the route of each tool's process_step
  MaxReworkCycles,  \* MAX_REWORK_CYCLES
  Quantities,       \* the quantities orders and lots are created with
  MaxOutages,       \* bound: downtime rows written per tool
  NoTool, NoOrder   \* SQL NULL in equipment_id, and no work_order_lots row

AllEndpoints == {"lots", "advance", "inspections", "quality-disposition",
                 "rework-release", "equipment-status", "work-orders"}

ASSUME TablesAssumption ==
  /\ RouteLength \in Nat /\ RouteLength >= 2
  /\ ToolStep \in [Tools -> 0 .. RouteLength - 1]
  /\ MaxReworkCycles \in Nat
  /\ Quantities \subseteq Nat \ {0}
  /\ MaxOutages \in Nat
  /\ Endpoints \subseteq AllEndpoints
  /\ Reports \subseteq EquipmentStatus
  /\ NoTool \notin Tools
  /\ NoOrder \notin Orders

VARIABLES
  lot,          \* lots: status, step_index and updated_at
  events,       \* lot_events of each lot; the index is sequence_number
  inspections,  \* quality_inspections of each lot in insertion order
  tool,         \* equipment: status and dispatch_count
  outages,      \* equipment_downtime_events: TRUE while ended_at is NULL
  order,        \* work_orders
  membership,   \* work_order_lots joined with the lot's quantity
  req           \* what each client's handler has read so far

lotTables  == <<lot, events, inspections>>
toolTables == <<tool, outages>>
orderTables == <<order, membership>>
vars == <<lotTables, toolTables, orderTables, req>>

-----------------------------------------------------------------------------
(* Row types.                                                              *)

Absent == "ABSENT"      \* the row has not been inserted yet
NoStatus == "NONE"      \* from_status of LOT_CREATED is NULL
NoStep == -1            \* process_step of LOT_CREATED is NULL

Steps == 0 .. RouteLength - 1
LastStep == RouteLength - 1

\* updated_at is a microsecond timestamp compared only for equality: stamp is
\* a value no earlier commit gave this row.
LotRow == [status : LotStatus \cup {Absent}, step : 0 .. RouteLength, stamp : Nat]

LotEvent == [type : LotEventType,
             from : LotStatus \cup {NoStatus},
             to   : LotStatus,
             step : Steps \cup {NoStep},
             tool : Tools \cup {NoTool}]

Inspection == [attempt     : Nat \ {0},
               result      : InspectionResult,
               disposition : QualityDisposition,
               tool        : Tools \cup {NoTool}]

ToolRow == [status : EquipmentStatus, dispatched : Nat]

OrderRow == [status    : WorkOrderStatus \cup {Absent},
             planned   : Nat,
             released  : Nat,
             completed : Nat]

\* What disposition_lot accepts; any other value is answered 422.
Dispositions == {"SCRAP", "REWORK"}

Membership == [order : Orders \cup {NoOrder}, quantity : Nat]

\* A handler between two of its database calls.  pc names the call it makes
\* next; seen and toolSeen are the ORM snapshots it decided on.
Request ==
       [pc : {"idle"}]
  \cup [pc : {"pick"}, lot : Lots, seen : LotRow]
  \cup [pc : {"hold"}, lot : Lots, seen : LotRow]
  \cup [pc : {"dispatch"}, lot : Lots, seen : LotRow, tool : Tools, toolSeen : ToolRow]
  \cup [pc : {"history", "blame"}, lot : Lots, seen : LotRow, result : InspectionResult]
  \cup [pc : {"number"}, lot : Lots, seen : LotRow, result : InspectionResult,
        tool : Tools \cup {NoTool}]
  \cup [pc : {"inspect"}, lot : Lots, seen : LotRow, result : InspectionResult,
        tool : Tools \cup {NoTool}, attempt : Nat \ {0}]
  \cup [pc : {"failure"}, lot : Lots, seen : LotRow, disposition : Dispositions]
  \cup [pc : {"cycles", "dispose"}, lot : Lots, seen : LotRow,
        disposition : Dispositions, row : Nat \ {0}]
  \cup [pc : {"release"}, lot : Lots, seen : LotRow, step : Steps]
  \cup [pc : {"outage"}, tool : Tools, toolSeen : ToolRow, status : EquipmentStatus]
  \cup [pc : {"status"}, tool : Tools, toolSeen : ToolRow, status : EquipmentStatus,
        row : Nat]

Idle == [pc |-> "idle"]

TypeOK ==
  /\ lot \in [Lots -> LotRow]
  /\ events \in [Lots -> Seq(LotEvent)]
  /\ inspections \in [Lots -> Seq(Inspection)]
  /\ tool \in [Tools -> ToolRow]
  /\ outages \in [Tools -> Seq(BOOLEAN)]
  /\ order \in [Orders -> OrderRow]
  /\ membership \in [Lots -> Membership]
  /\ req \in [Clients -> Request]

\* After seed_equipment: idle tools, no lot and no work order.
Init ==
  /\ lot = [l \in Lots |-> [status |-> Absent, step |-> 0, stamp |-> 0]]
  /\ events = [l \in Lots |-> <<>>]
  /\ inspections = [l \in Lots |-> <<>>]
  /\ tool = [t \in Tools |-> [status |-> "IDLE", dispatched |-> 0]]
  /\ outages = [t \in Tools |-> <<>>]
  /\ order = [w \in Orders |-> [status |-> Absent, planned |-> 0,
                                released |-> 0, completed |-> 0]]
  /\ membership = [l \in Lots |-> [order |-> NoOrder, quantity |-> 0]]
  /\ req = [c \in Clients |-> Idle]

-----------------------------------------------------------------------------
(* Shared steps of the handlers.                                           *)

\* Client c sends a request to an endpoint.
Receives(c, endpoint) == req[c] = Idle /\ endpoint \in Endpoints

Becomes(c, r) == req' = [req EXCEPT ![c] = r]
Answers(c) == Becomes(c, Idle)

\* WHERE id AND status AND step_index: the part of _compare_and_set_lot's
\* condition every caller gives.
RowMatches(l, seen) == lot[l].status = seen.status /\ lot[l].step = seen.step

\* ... AND updated_at: given by the inspection, disposition and rework release.
RowUnchanged(l, seen) == RowMatches(l, seen) /\ lot[l].stamp = seen.stamp

\* The UPDATE of _compare_and_set_lot.
SetLot(l, status, step) ==
  lot' = [lot EXCEPT ![l] = [status |-> status, step |-> step,
                             stamp |-> lot[l].stamp + 1]]

Event(type, from, to, step, t) ==
  [type |-> type, from |-> from, to |-> to, step |-> step, tool |-> t]

\* _append_lot_event: max(sequence_number) + 1 is read inside the write
\* transaction, so the new event takes the next index.
AppendLotEvent(l, e) == events' = [events EXCEPT ![l] = Append(events[l], e)]

\* Mutant: a dispatch that loses its compare-and-set is not rolled back, so the
\* incremented count of its tool is written by the session's next commit.
AbandonWithoutRollback(c) ==
  LET r == req[c] IN
  /\ r # Idle
  /\ Answers(c)
  /\ tool' = IF r.pc = "dispatch"
               THEN [tool EXCEPT ![r.tool].dispatched = r.toolSeen.dispatched + 1]
               ELSE tool
  /\ UNCHANGED <<lotTables, outages, orderTables>>

\* A request ends without writing: a compare-and-set that matches no row is
\* rolled back and answered 409; so does a violated UNIQUE constraint, a lock
\* that stays busy past its timeout, a lost connection or a server crash.
Abandon(c) ==
  /\ req[c] # Idle
  /\ Answers(c)
  /\ UNCHANGED <<lotTables, toolTables, orderTables>>
=============================================================================
