--------------------------- MODULE ShopFloorTypes ---------------------------
(***************************************************************************)
(* The row types hold in every reachable state, for any number of lots,    *)
(* tools, orders and clients and a route of any length.                    *)
(*                                                                         *)
(* TypeOK is not inductive: that a dispatch leaves step_index within the   *)
(* route depends on what the handler saw of the lot, and the tool a        *)
(* disposition blames on the inspection it found.  Typed adds both.        *)
(***************************************************************************)
EXTENDS ShopFloor, FiniteSetTheorems, WellFoundedInduction, TLAPS

\* What the status a handler saw says of the step it saw, and the inspection a
\* disposition found is still on record.
SnapshotFits(r) ==
  /\ r.pc \in {"pick", "hold", "dispatch"} =>
       r.seen.status \in Advanceable /\ r.seen.step < RouteLength
  /\ r.pc \in {"history", "blame", "number", "inspect", "failure", "cycles", "dispose"} =>
       r.seen.status = "QUALITY_HOLD" /\ r.seen.step = RouteLength
  /\ r.pc = "release" => r.seen.status = "REWORK" /\ r.seen.step = RouteLength
  /\ r.pc \in {"cycles", "dispose"} => r.row \in DOMAIN inspections[r.lot]

SnapshotsFit == \A c \in Clients : SnapshotFits(req[c])

Typed == TypeOK /\ StepMatchesStatus /\ SnapshotsFit

-----------------------------------------------------------------------------
(* Maxima.  A finite non-empty set of integers has one: the least of the    *)
(* sets {y \in S : y >= x} in the well-founded order of strict inclusion.   *)

LEMMA MaxIsMember ==
  ASSUME NEW S \in SUBSET Int, IsFiniteSet(S), S # {}
  PROVE  Max(S) \in S /\ \A y \in S : Max(S) >= y
PROOF
  <1> DEFINE R == StrictSubsetOrdering(S)
             up(x) == {y \in S : y >= x}
             F == {up(x) : x \in S}
  <1>1. IsWellFoundedOn(R, FiniteSubsetsOf(S))
    BY FS_StrictSubsetOrderingWellFounded
  <1>2. FiniteSubsetsOf(S) = SUBSET S
    BY FS_FiniteSubsetsOfFinite
  <1>3. F \subseteq FiniteSubsetsOf(S) /\ F # {}
    <2>1. \A x \in S : up(x) \in SUBSET S OBVIOUS
    <2>2. \A x \in S : up(x) \in FiniteSubsetsOf(S) BY <1>2, <2>1
    <2>3. F # {} OBVIOUS
    <2> QED BY <2>2, <2>3
  <1>4. \E f \in F : \A g \in F : <<g, f>> \notin R
    <2> HIDE DEF F, R
    <2> QED BY <1>1, <1>3, WFMin
  <1>5. PICK x \in S : \A y \in S : <<up(y), up(x)>> \notin R
    BY <1>4
  <1>6. \A y \in S : x < y => <<up(y), up(x)>> \in R
    <2> SUFFICES ASSUME NEW y \in S, x < y
                 PROVE  <<up(y), up(x)>> \in R
      OBVIOUS
    <2>1. \A z \in S : z >= y => z >= x
      OBVIOUS
    <2>2. x \in up(x) /\ x \notin up(y)
      OBVIOUS
    <2>3. up(y) # up(x)
      <3> HIDE DEF up
      <3> QED BY <2>2
    <2>4. <<up(y), up(x)>> \in (SUBSET S) \X (SUBSET S)
      OBVIOUS
    <2>5. up(y) \subseteq up(x)
      BY <2>1
    <2> HIDE DEF up
    <2> QED BY <2>3, <2>4, <2>5 DEF StrictSubsetOrdering
  <1>7. \A y \in S : x >= y
    <2> TAKE y \in S
    <2>1. ~ (x < y)
      <3> HIDE DEF R, up
      <3> QED BY <1>5, <1>6
    <2> QED BY <2>1
  <1> QED BY <1>7 DEF Max

LEMMA MaxIndex ==
  ASSUME NEW n \in Nat, NEW S \in SUBSET (1 .. n), S # {}
  PROVE  Max(S) \in S /\ \A y \in S : Max(S) >= y
PROOF
  <1>1. IsFiniteSet(S)
    <2>1. 1 \in Int /\ n \in Int OBVIOUS
    <2>2. IsFiniteSet(1 .. n) BY <2>1, FS_Interval
    <2> QED BY <2>2, FS_Subset
  <1>2. S \in SUBSET Int
    OBVIOUS
  <1> QED BY <1>1, <1>2, MaxIsMember

-----------------------------------------------------------------------------
(* The shapes of the requests.                                             *)

LEMMA RequestFields ==
  ASSUME NEW r \in Request
  PROVE  /\ r.pc \in {"pick", "hold"} => r.lot \in Lots /\ r.seen \in LotRow
         /\ r.pc = "dispatch" =>
              r.lot \in Lots /\ r.seen \in LotRow /\ r.tool \in Tools /\ r.toolSeen \in ToolRow
         /\ r.pc \in {"history", "blame"} =>
              r.lot \in Lots /\ r.seen \in LotRow /\ r.result \in InspectionResult
         /\ r.pc = "number" =>
              /\ r.lot \in Lots /\ r.seen \in LotRow /\ r.result \in InspectionResult
              /\ r.tool \in Tools \cup {NoTool}
         /\ r.pc = "inspect" =>
              /\ r.lot \in Lots /\ r.seen \in LotRow /\ r.result \in InspectionResult
              /\ r.tool \in Tools \cup {NoTool} /\ r.attempt \in Nat \ {0}
         /\ r.pc = "failure" =>
              r.lot \in Lots /\ r.seen \in LotRow /\ r.disposition \in Dispositions
         /\ r.pc \in {"cycles", "dispose"} =>
              /\ r.lot \in Lots /\ r.seen \in LotRow /\ r.disposition \in Dispositions
              /\ r.row \in Nat \ {0}
         /\ r.pc = "release" => r.lot \in Lots /\ r.seen \in LotRow /\ r.step \in Steps
         /\ r.pc = "outage" =>
              r.tool \in Tools /\ r.toolSeen \in ToolRow /\ r.status \in EquipmentStatus
         /\ r.pc = "status" =>
              /\ r.tool \in Tools /\ r.toolSeen \in ToolRow /\ r.status \in EquipmentStatus
              /\ r.row \in Nat
PROOF
  BY DEF Request

LEMMA RequestShapes ==
  ASSUME NEW l \in Lots, NEW seen \in LotRow
  PROVE  /\ [pc |-> "pick", lot |-> l, seen |-> seen] \in Request
         /\ [pc |-> "hold", lot |-> l, seen |-> seen] \in Request
         /\ \A t \in Tools, toolSeen \in ToolRow :
              [pc |-> "dispatch", lot |-> l, seen |-> seen, tool |-> t,
               toolSeen |-> toolSeen] \in Request
         /\ \A result \in InspectionResult :
              /\ [pc |-> "history", lot |-> l, seen |-> seen, result |-> result] \in Request
              /\ [pc |-> "blame", lot |-> l, seen |-> seen, result |-> result] \in Request
              /\ \A t \in Tools \cup {NoTool} :
                   /\ [pc |-> "number", lot |-> l, seen |-> seen, result |-> result,
                       tool |-> t] \in Request
                   /\ \A a \in Nat \ {0} :
                        [pc |-> "inspect", lot |-> l, seen |-> seen, result |-> result,
                         tool |-> t, attempt |-> a] \in Request
         /\ \A d \in Dispositions :
              /\ [pc |-> "failure", lot |-> l, seen |-> seen, disposition |-> d] \in Request
              /\ \A i \in Nat \ {0} :
                   /\ [pc |-> "cycles", lot |-> l, seen |-> seen, disposition |-> d,
                       row |-> i] \in Request
                   /\ [pc |-> "dispose", lot |-> l, seen |-> seen, disposition |-> d,
                       row |-> i] \in Request
         /\ \A s \in Steps :
              [pc |-> "release", lot |-> l, seen |-> seen, step |-> s] \in Request
PROOF
  BY DEF Request

-----------------------------------------------------------------------------
(* A step that only reads, and one that writes.                            *)

LEMMA ReadOnly ==
  ASSUME Typed, NEW c \in Clients, NEW r \in Request, SnapshotFits(r), Becomes(c, r),
         UNCHANGED <<lotTables, toolTables, orderTables>>
  PROVE  Typed'
PROOF
  <1> USE DEF lotTables, toolTables, orderTables
  <1>1. req' \in [Clients -> Request]
    BY DEF Typed, TypeOK, Becomes
  <1>2. TypeOK'
    BY <1>1 DEF Typed, TypeOK
  <1>3. StepMatchesStatus'
    BY DEF Typed, StepMatchesStatus, Created
  <1>4. SnapshotsFit'
    <2> SUFFICES ASSUME NEW d \in Clients
                 PROVE  SnapshotFits(req[d])'
      BY DEF SnapshotsFit
    <2>1. SnapshotFits(req'[d])
      BY DEF Typed, TypeOK, SnapshotsFit, Becomes
    <2> QED BY <2>1 DEF SnapshotFits
  <1> QED BY <1>2, <1>3, <1>4 DEF Typed

LEMMA IdleFits == Idle \in Request /\ SnapshotFits(Idle)
PROOF
  BY DEF Idle, Request, SnapshotFits

LEMMA RefusalType ==
  ASSUME Typed, NEW c \in Clients, Answers(c),
         UNCHANGED <<lotTables, toolTables, orderTables>>
  PROVE  Typed'
PROOF
  BY IdleFits, ReadOnly DEF Answers

LEMMA ReceiveLotType ==
  ASSUME Typed, NEW c \in Clients, NEW l \in Lots,
         \/ ReceiveAdvance(c, l)
         \/ \E result \in InspectionResult : ReceiveInspection(c, l, result)
         \/ \E d \in Dispositions : ReceiveDisposition(c, l, d)
         \/ \E step \in Steps : ReceiveReworkRelease(c, l, step)
  PROVE  Typed'
PROOF
  <1>1. lot[l] \in LotRow
    BY DEF Typed, TypeOK
  <1>2. lot[l].status \in Advanceable => lot[l].step < RouteLength
    BY DEF Typed, StepMatchesStatus, Created, Advanceable, Absent
  <1>3. lot[l].status \in {"QUALITY_HOLD", "REWORK"} => lot[l].step = RouteLength
    BY DEF Typed, StepMatchesStatus, Created, Advanceable, Absent
  <1>4. CASE ReceiveAdvance(c, l)
    <2> DEFINE r == [pc |-> "pick", lot |-> l, seen |-> lot[l]]
    <2>1. r \in Request BY <1>1, RequestShapes
    <2>2. SnapshotFits(r) BY <1>2, <1>4 DEF SnapshotFits, ReceiveAdvance
    <2> QED BY <1>4, <2>1, <2>2, ReadOnly DEF ReceiveAdvance
  <1>5. ASSUME NEW result \in InspectionResult, ReceiveInspection(c, l, result)
        PROVE  Typed'
    <2> DEFINE r == [pc |-> "history", lot |-> l, seen |-> lot[l], result |-> result]
    <2>1. r \in Request BY <1>1, RequestShapes
    <2>2. SnapshotFits(r) BY <1>3, <1>5 DEF SnapshotFits, ReceiveInspection
    <2> QED BY <1>5, <2>1, <2>2, ReadOnly DEF ReceiveInspection
  <1>6. ASSUME NEW d \in Dispositions, ReceiveDisposition(c, l, d)
        PROVE  Typed'
    <2> DEFINE r == [pc |-> "failure", lot |-> l, seen |-> lot[l], disposition |-> d]
    <2>1. r \in Request BY <1>1, RequestShapes
    <2>2. SnapshotFits(r) BY <1>3, <1>6 DEF SnapshotFits, ReceiveDisposition
    <2> QED BY <1>6, <2>1, <2>2, ReadOnly DEF ReceiveDisposition
  <1>7. ASSUME NEW step \in Steps, ReceiveReworkRelease(c, l, step)
        PROVE  Typed'
    <2> DEFINE r == [pc |-> "release", lot |-> l, seen |-> lot[l], step |-> step]
    <2>1. r \in Request BY <1>1, RequestShapes
    <2>2. SnapshotFits(r) BY <1>3, <1>7 DEF SnapshotFits, ReceiveReworkRelease
    <2> QED BY <1>7, <2>1, <2>2, ReadOnly DEF ReceiveReworkRelease
  <1> QED BY <1>4, <1>5, <1>6, <1>7

LEMMA PickToolType ==
  ASSUME Typed, NEW c \in Clients, PickTool(c)
  PROVE  Typed'
PROOF
  <1> DEFINE r == req[c]
  <1>1. r \in Request /\ SnapshotFits(r) /\ r.pc = "pick"
    BY DEF Typed, TypeOK, SnapshotsFit, PickTool
  <1>2. /\ r.lot \in Lots /\ r.seen \in LotRow
        /\ r.seen.status \in Advanceable /\ r.seen.step < RouteLength
    BY <1>1, RequestFields DEF SnapshotFits
  <1>3. UNCHANGED <<lotTables, toolTables, orderTables>>
    BY DEF PickTool
  <1>4. CASE Answers(c)
    BY <1>3, <1>4, RefusalType
  <1>5. CASE Becomes(c, [pc |-> "hold", lot |-> r.lot, seen |-> r.seen])
    <2> DEFINE s == [pc |-> "hold", lot |-> r.lot, seen |-> r.seen]
    <2>1. s \in Request BY <1>2, RequestShapes
    <2>2. SnapshotFits(s) BY <1>2 DEF SnapshotFits
    <2> QED BY <1>3, <1>5, <2>1, <2>2, ReadOnly
  <1>6. ASSUME NEW t \in Tools,
               Becomes(c, [pc |-> "dispatch", lot |-> r.lot, seen |-> r.seen,
                           tool |-> t, toolSeen |-> tool[t]])
        PROVE  Typed'
    <2> DEFINE s == [pc |-> "dispatch", lot |-> r.lot, seen |-> r.seen,
                     tool |-> t, toolSeen |-> tool[t]]
    <2>1. tool[t] \in ToolRow BY DEF Typed, TypeOK
    <2>2. s \in Request BY <1>2, <2>1, RequestShapes
    <2>3. SnapshotFits(s) BY <1>2 DEF SnapshotFits
    <2> QED BY <1>3, <1>6, <2>2, <2>3, ReadOnly
  <1> QED
    BY <1>4, <1>5, <1>6 DEF PickTool, ChooseTool, NoToolFree, LeastDispatched, Candidates

LEMMA PendingIsRow ==
  ASSUME Typed, NEW l \in Lots, PendingFailures(l) # {}
  PROVE  Max(PendingFailures(l)) \in DOMAIN inspections[l]
PROOF
  <1>1. inspections[l] \in Seq(Inspection)
    BY DEF Typed, TypeOK
  <1>2. PendingFailures(l) \in SUBSET (1 .. Len(inspections[l])) /\ Len(inspections[l]) \in Nat
    BY <1>1 DEF PendingFailures
  <1> QED BY <1>2, MaxIndex DEF PendingFailures

LEMMA LastInspectToolType ==
  ASSUME Typed, NEW l \in Lots
  PROVE  LastInspectTool(l) \in Tools \cup {NoTool}
PROOF
  <1>1. events[l] \in Seq(LotEvent)
    BY DEF Typed, TypeOK
  <1>2. InspectRuns(l) \in SUBSET (1 .. Len(events[l])) /\ Len(events[l]) \in Nat
    BY <1>1 DEF InspectRuns
  <1>3. ASSUME InspectRuns(l) # {}
        PROVE  events[l][Max(InspectRuns(l))].tool \in Tools \cup {NoTool}
    <2>1. Max(InspectRuns(l)) \in 1 .. Len(events[l])
      BY <1>2, <1>3, MaxIndex
    <2>2. events[l][Max(InspectRuns(l))] \in LotEvent
      BY <1>1, <2>1
    <2> QED BY <2>2 DEF LotEvent
  <1> QED BY <1>3 DEF LastInspectTool

LEMMA NextAttemptType ==
  ASSUME Typed, NEW l \in Lots
  PROVE  NextAttempt(l) \in Nat \ {0}
PROOF
  <1> DEFINE f == [i \in DOMAIN inspections[l] |-> inspections[l][i].attempt]
  <1>1. inspections[l] \in Seq(Inspection)
    BY DEF Typed, TypeOK
  <1>2. AttemptsOf(l) \in SUBSET (Nat \ {0})
    <2>1. \A i \in DOMAIN inspections[l] : inspections[l][i] \in Inspection
      BY <1>1
    <2>2. \A i \in DOMAIN inspections[l] : inspections[l][i].attempt \in Nat \ {0}
      BY <2>1 DEF Inspection
    <2> QED BY <2>2 DEF AttemptsOf
  <1>3. IsFiniteSet(AttemptsOf(l))
    <2>1. IsFiniteSet(DOMAIN inspections[l])
      <3>1. 1 \in Int /\ Len(inspections[l]) \in Int BY <1>1
      <3>2. IsFiniteSet(1 .. Len(inspections[l])) BY <3>1, FS_Interval
      <3> QED BY <1>1, <3>2
    <2>2. f \in Surjection(DOMAIN inspections[l], AttemptsOf(l))
      BY DEF AttemptsOf, Surjection
    <2> HIDE DEF f
    <2> QED BY <2>1, <2>2, FS_Surjection
  <1>4. CASE AttemptsOf(l) # {}
    <2>1. Max(AttemptsOf(l)) \in AttemptsOf(l)
      BY <1>2, <1>3, <1>4, MaxIsMember
    <2> QED BY <1>2, <1>4, <2>1 DEF NextAttempt
  <1> QED BY <1>4 DEF NextAttempt

LEMMA InspectionReadType ==
  ASSUME Typed, NEW c \in Clients, ReadPending(c) \/ ReadLastProcess(c) \/ ReadAttempts(c)
  PROVE  Typed'
PROOF
  <1> DEFINE r == req[c]
  <1>1. /\ r \in Request /\ SnapshotFits(r) /\ r.pc \in {"history", "blame", "number"}
        /\ UNCHANGED <<lotTables, toolTables, orderTables>>
    BY DEF Typed, TypeOK, SnapshotsFit, ReadPending, ReadLastProcess, ReadAttempts
  <1>2. /\ r.lot \in Lots /\ r.seen \in LotRow /\ r.result \in InspectionResult
        /\ r.seen.status = "QUALITY_HOLD" /\ r.seen.step = RouteLength
    BY <1>1, RequestFields DEF SnapshotFits
  <1>3. CASE ReadPending(c)
    <2> DEFINE s == [pc |-> "blame", lot |-> r.lot, seen |-> r.seen, result |-> r.result]
    <2>1. s \in Request BY <1>2, RequestShapes
    <2>2. SnapshotFits(s) BY <1>2 DEF SnapshotFits
    <2>3. Answers(c) \/ Becomes(c, s) BY <1>3 DEF ReadPending
    <2> QED BY <1>1, <2>1, <2>2, <2>3, ReadOnly, RefusalType
  <1>4. CASE ReadLastProcess(c)
    <2> DEFINE s == [pc |-> "number", lot |-> r.lot, seen |-> r.seen, result |-> r.result,
                     tool |-> LastInspectTool(r.lot)]
    <2>1. s \in Request BY <1>2, RequestShapes, LastInspectToolType
    <2>2. SnapshotFits(s) BY <1>2 DEF SnapshotFits
    <2>3. Becomes(c, s) BY <1>4 DEF ReadLastProcess
    <2> QED BY <1>1, <2>1, <2>2, <2>3, ReadOnly
  <1>5. CASE ReadAttempts(c)
    <2> DEFINE s == [pc |-> "inspect", lot |-> r.lot, seen |-> r.seen, result |-> r.result,
                     tool |-> r.tool, attempt |-> NextAttempt(r.lot)]
    <2>1. r.tool \in Tools \cup {NoTool}
      <3>1. r.pc = "number" BY <1>5 DEF ReadAttempts
      <3> QED BY <1>1, <3>1, RequestFields
    <2>2. s \in Request BY <1>2, <2>1, RequestShapes, NextAttemptType
    <2>3. SnapshotFits(s) BY <1>2 DEF SnapshotFits
    <2>4. Becomes(c, s) BY <1>5 DEF ReadAttempts
    <2> QED BY <1>1, <2>2, <2>3, <2>4, ReadOnly
  <1> QED BY <1>3, <1>4, <1>5

LEMMA DispositionReadType ==
  ASSUME Typed, NEW c \in Clients, ReadFailure(c) \/ CountReworks(c)
  PROVE  Typed'
PROOF
  <1> DEFINE r == req[c]
  <1>1. /\ r \in Request /\ SnapshotFits(r) /\ r.pc \in {"failure", "cycles"}
        /\ UNCHANGED <<lotTables, toolTables, orderTables>>
    BY DEF Typed, TypeOK, SnapshotsFit, ReadFailure, CountReworks
  <1>2. /\ r.lot \in Lots /\ r.seen \in LotRow /\ r.disposition \in Dispositions
        /\ r.seen.status = "QUALITY_HOLD" /\ r.seen.step = RouteLength
    BY <1>1, RequestFields DEF SnapshotFits
  <1>3. CASE ReadFailure(c)
    <2>1. CASE NoneUndecided(r.lot)
      BY <1>1, <1>3, <2>1, RefusalType DEF ReadFailure
    <2>2. CASE ~ NoneUndecided(r.lot)
      <3> DEFINE s == [pc |-> IF r.disposition = "REWORK" THEN "cycles" ELSE "dispose",
                       lot |-> r.lot, seen |-> r.seen, disposition |-> r.disposition,
                       row |-> Max(PendingFailures(r.lot))]
      <3>1. Max(PendingFailures(r.lot)) \in DOMAIN inspections[r.lot]
        BY <1>2, <2>2, PendingIsRow DEF NoneUndecided
      <3>2. Max(PendingFailures(r.lot)) \in Nat \ {0}
        BY <1>2, <3>1 DEF Typed, TypeOK
      <3>3. s \in Request
        <4>1. CASE r.disposition = "REWORK" BY <1>2, <3>2, <4>1, RequestShapes
        <4>2. CASE r.disposition # "REWORK" BY <1>2, <3>2, <4>2, RequestShapes
        <4> QED BY <4>1, <4>2
      <3>4. SnapshotFits(s)
        BY <1>2, <3>1 DEF SnapshotFits
      <3>5. Becomes(c, s) BY <1>3, <2>2 DEF ReadFailure
      <3> QED BY <1>1, <3>3, <3>4, <3>5, ReadOnly
    <2> QED BY <2>1, <2>2
  <1>4. CASE CountReworks(c)
    <2> DEFINE s == [r EXCEPT !.pc = "dispose"]
    <2>1. r.pc = "cycles" BY <1>4 DEF CountReworks
    <2>2. s \in Request BY <1>1, <2>1 DEF Request
    <2>3. s.pc = "dispose" /\ s.lot = r.lot /\ s.seen = r.seen /\ s.row = r.row
      BY <1>1, <2>1 DEF Request
    <2>4. SnapshotFits(s) BY <1>1, <1>2, <2>1, <2>3 DEF SnapshotFits
    <2>5. Answers(c) \/ Becomes(c, s) BY <1>4 DEF CountReworks
    <2> QED BY <1>1, <2>2, <2>4, <2>5, ReadOnly, RefusalType
  <1> QED BY <1>3, <1>4

LEMMA LotWriteType ==
  ASSUME Typed, NEW l \in Lots, NEW s \in LotStatus, NEW k \in 0 .. RouteLength,
         IF s \in Advanceable THEN k < RouteLength ELSE k = RouteLength,
         SetLot(l, s, k)
  PROVE  lot' \in [Lots -> LotRow] /\ StepMatchesStatus'
PROOF
  <1>1. [status |-> s, step |-> k, stamp |-> lot[l].stamp + 1] \in LotRow
    BY DEF Typed, TypeOK, LotRow
  <1>2. lot' \in [Lots -> LotRow]
    BY <1>1 DEF Typed, TypeOK, SetLot
  <1>3. StepMatchesStatus'
    BY DEF Typed, TypeOK, StepMatchesStatus, Created, SetLot
  <1> QED BY <1>2, <1>3

LEMMA AnswerType ==
  ASSUME Typed, NEW c \in Clients, Answers(c) \/ UNCHANGED req,
         \A l \in Lots : DOMAIN inspections[l] \subseteq DOMAIN inspections'[l]
  PROVE  req' \in [Clients -> Request] /\ SnapshotsFit'
PROOF
  <1>1. \A d \in Clients : req'[d] = req[d] \/ req'[d] = Idle
    BY DEF Typed, TypeOK, Answers, Becomes
  <1>2. req' \in [Clients -> Request]
    BY IdleFits DEF Typed, TypeOK, Answers, Becomes
  <1>3. SnapshotsFit'
    <2> SUFFICES ASSUME NEW d \in Clients
                 PROVE  SnapshotFits(req[d])'
      BY DEF SnapshotsFit
    <2>1. CASE req'[d] = Idle
      BY <2>1 DEF Idle, SnapshotFits
    <2>2. CASE req'[d] = req[d]
      <3>1. req[d] \in Request /\ SnapshotFits(req[d])
        BY DEF Typed, TypeOK, SnapshotsFit
      <3>2. req[d].pc \in {"cycles", "dispose"} => req[d].lot \in Lots
        BY <3>1, RequestFields
      <3> QED BY <2>2, <3>1, <3>2 DEF SnapshotFits
    <2> QED BY <1>1, <2>1, <2>2
  <1> QED BY <1>2, <1>3

LEMMA JournalType ==
  ASSUME Typed, NEW l \in Lots, NEW e \in LotEvent, AppendLotEvent(l, e)
  PROVE  events' \in [Lots -> Seq(LotEvent)]
PROOF
  <1>1. events[l] \in Seq(LotEvent) BY DEF Typed, TypeOK
  <1>2. Append(events[l], e) \in Seq(LotEvent) BY <1>1
  <1> QED BY <1>2 DEF Typed, TypeOK, AppendLotEvent

-----------------------------------------------------------------------------
(* The commits of the lot commands.                                        *)

LEMMA CommitHoldType ==
  ASSUME Typed, NEW c \in Clients, CommitHold(c)
  PROVE  Typed'
PROOF
  <1> DEFINE r == req[c]
             e == Event("LOT_HELD", r.seen.status, "HOLD", r.seen.step, NoTool)
  <1>1. /\ r.pc = "hold" /\ r.lot \in Lots /\ r.seen \in LotRow
        /\ r.seen.status \in Advanceable /\ r.seen.step < RouteLength
    BY RequestFields DEF Typed, TypeOK, SnapshotsFit, SnapshotFits, CommitHold
  <1>2. lot' \in [Lots -> LotRow] /\ StepMatchesStatus'
    <2>1. r.seen.step \in 0 .. RouteLength BY <1>1 DEF LotRow
    <2>2. "HOLD" \in LotStatus /\ "HOLD" \in Advanceable BY DEF LotStatus, Advanceable
    <2>3. SetLot(r.lot, "HOLD", r.seen.step) BY DEF CommitHold
    <2> QED BY <1>1, <2>1, <2>2, <2>3, LotWriteType
  <1>3. e \in LotEvent
    BY <1>1, TablesAssumption
    DEF Event, LotEvent, LotRow, LotEventType, LotStatus, Advanceable, Steps
  <1>4. events' \in [Lots -> Seq(LotEvent)]
    BY <1>1, <1>3, JournalType DEF CommitHold
  <1>5. req' \in [Clients -> Request] /\ SnapshotsFit'
    BY AnswerType DEF CommitHold
  <1> QED
    BY <1>2, <1>4, <1>5 DEF Typed, TypeOK, CommitHold, toolTables, orderTables

LEMMA DispatchEventsType ==
  ASSUME Typed, NEW l \in Lots, NEW seen \in LotRow, NEW t \in Tools,
         seen.status \in Advanceable, seen.step < RouteLength
  PROVE  DispatchEvents(l, seen, t) \in Seq(LotEvent)
PROOF
  <1> DEFINE released ==
               Event("LOT_RELEASED_FROM_HOLD", "HOLD", "PROCESSING", seen.step, t)
             from == IF seen.status = "HOLD" THEN "PROCESSING" ELSE seen.status
             completed ==
               Event("PROCESS_COMPLETED", from, StatusAfterStep(seen.step), seen.step, t)
  <1>1. seen.step \in Steps
    BY TablesAssumption DEF LotRow, Steps
  <1>2. released \in LotEvent
    BY <1>1 DEF Event, LotEvent, LotEventType, LotStatus
  <1>3. completed \in LotEvent
    <2>1. from \in LotStatus /\ StatusAfterStep(seen.step) \in LotStatus
      BY DEF Advanceable, LotStatus, StatusAfterStep
    <2> HIDE DEF from
    <2> QED BY <1>1, <2>1 DEF Event, LotEvent, LotEventType
  <1>4. events[l] \in Seq(LotEvent)
    BY DEF Typed, TypeOK
  <1>5. Append(events[l], completed) \in Seq(LotEvent)
    <2> HIDE DEF completed
    <2> QED BY <1>3, <1>4
  <1>6. Append(Append(events[l], released), completed) \in Seq(LotEvent)
    <2> HIDE DEF completed, released
    <2> QED BY <1>2, <1>3, <1>4
  <1>7. DispatchEvents(l, seen, t) =
          IF seen.status = "HOLD" THEN Append(Append(events[l], released), completed)
                                  ELSE Append(events[l], completed)
    BY DEF DispatchEvents
  <1> QED BY <1>5, <1>6, <1>7

LEMMA CommitDispatchType ==
  ASSUME Typed, NEW c \in Clients, CommitDispatch(c)
  PROVE  Typed'
PROOF
  <1> DEFINE r == req[c]
  <1>1. /\ r.pc = "dispatch" /\ r.lot \in Lots /\ r.seen \in LotRow
        /\ r.tool \in Tools /\ r.toolSeen \in ToolRow
        /\ r.seen.status \in Advanceable /\ r.seen.step < RouteLength
    BY RequestFields DEF Typed, TypeOK, SnapshotsFit, SnapshotFits, CommitDispatch
  <1>2. r.seen.step \in Nat /\ RouteLength \in Nat
    BY <1>1, TablesAssumption DEF LotRow
  <1>3. lot' \in [Lots -> LotRow] /\ StepMatchesStatus'
    <2>1. r.seen.step + 1 \in 0 .. RouteLength BY <1>1, <1>2
    <2>2. StatusAfterStep(r.seen.step) \in LotStatus BY DEF StatusAfterStep, LotStatus
    <2>3. IF StatusAfterStep(r.seen.step) \in Advanceable
            THEN r.seen.step + 1 < RouteLength ELSE r.seen.step + 1 = RouteLength
      BY <1>1, <1>2 DEF StatusAfterStep, Advanceable
    <2>4. SetLot(r.lot, StatusAfterStep(r.seen.step), r.seen.step + 1)
      BY DEF CommitDispatch
    <2> QED BY <1>1, <2>1, <2>2, <2>3, <2>4, LotWriteType
  <1>4. events' \in [Lots -> Seq(LotEvent)]
    BY <1>1, DispatchEventsType DEF Typed, TypeOK, CommitDispatch
  <1>5. tool' \in [Tools -> ToolRow]
    <2>1. tool[r.tool] \in ToolRow BY <1>1 DEF Typed, TypeOK
    <2>2. ToolDispatched(r.tool, r.toolSeen) \in ToolRow
      BY <1>1, <2>1 DEF ToolDispatched, ToolRow, EquipmentStatus
    <2> QED BY <2>2 DEF Typed, TypeOK, CommitDispatch
  <1>6. req' \in [Clients -> Request] /\ SnapshotsFit'
    BY AnswerType DEF CommitDispatch
  <1> QED
    BY <1>3, <1>4, <1>5, <1>6 DEF Typed, TypeOK, CommitDispatch, orderTables

LEMMA CompleteWorkOrderType ==
  ASSUME Typed, NEW l \in Lots, CompleteWorkOrderFor(l) \/ UNCHANGED order
  PROVE  order' \in [Orders -> OrderRow]
PROOF
  <1> DEFINE w == membership[l].order
             grown == [order[w] EXCEPT !.completed = @ + membership[l].quantity]
  <1>1. CASE w = NoOrder \/ UNCHANGED order
    BY <1>1 DEF Typed, TypeOK, CompleteWorkOrderFor
  <1>2. CASE w # NoOrder /\ CompleteWorkOrderFor(l)
    <2>1. w \in Orders /\ membership[l].quantity \in Nat
      BY <1>2 DEF Typed, TypeOK, Membership
    <2>2. order[w] \in OrderRow BY <2>1 DEF Typed, TypeOK
    <2>3. grown \in OrderRow BY <2>1, <2>2 DEF OrderRow
    <2>4. [grown EXCEPT !.status = "COMPLETED"] \in OrderRow
      <3> HIDE DEF grown
      <3> QED BY <2>3 DEF OrderRow, WorkOrderStatus
    <2>5. order' = [order EXCEPT ![w] =
            IF BuiltInFull(grown) THEN [grown EXCEPT !.status = "COMPLETED"] ELSE grown]
      BY <1>2 DEF CompleteWorkOrderFor
    <2> HIDE DEF grown, w
    <2> QED BY <2>3, <2>4, <2>5 DEF Typed, TypeOK
  <1> QED BY <1>1, <1>2

LEMMA CommitInspectionType ==
  ASSUME Typed, NEW c \in Clients, CommitInspection(c)
  PROVE  Typed'
PROOF
  <1> DEFINE r == req[c]
             row == [attempt     |-> r.attempt,
                     result      |-> r.result,
                     disposition |-> IF r.result = "PASS" THEN "NONE" ELSE "PENDING",
                     tool        |-> r.tool]
  <1>1. /\ r.pc = "inspect" /\ r.lot \in Lots /\ r.result \in InspectionResult
        /\ r.attempt \in Nat \ {0} /\ r.tool \in Tools \cup {NoTool}
        /\ r.seen.step = RouteLength
    BY RequestFields DEF Typed, TypeOK, SnapshotsFit, SnapshotFits, CommitInspection
  <1>2. lot' \in [Lots -> LotRow] /\ StepMatchesStatus'
    <2> DEFINE s == IF r.result = "PASS" THEN "DONE" ELSE "QUALITY_HOLD"
    <2>1. s \in LotStatus /\ s \notin Advanceable BY DEF LotStatus, Advanceable
    <2>2. r.seen.step \in 0 .. RouteLength BY <1>1, TablesAssumption
    <2>3. SetLot(r.lot, s, r.seen.step) BY DEF CommitInspection
    <2> HIDE DEF s
    <2> QED BY <1>1, <2>1, <2>2, <2>3, LotWriteType
  <1>3. InspectionEvent(r.result, r.tool) \in LotEvent
    <2>1. LastStep \in Steps BY TablesAssumption DEF LastStep, Steps
    <2> QED BY <1>1, <2>1 DEF InspectionEvent, Event, LotEvent, LotEventType, LotStatus
  <1>4. events' \in [Lots -> Seq(LotEvent)]
    BY <1>1, <1>3, JournalType DEF CommitInspection
  <1>5. /\ inspections' \in [Lots -> Seq(Inspection)]
        /\ \A l \in Lots : DOMAIN inspections[l] \subseteq DOMAIN inspections'[l]
    <2>1. row \in Inspection
      BY <1>1 DEF Inspection, QualityDisposition
    <2>2. inspections[r.lot] \in Seq(Inspection)
      BY <1>1 DEF Typed, TypeOK
    <2>3. inspections' = [inspections EXCEPT ![r.lot] = Append(@, row)]
      BY DEF CommitInspection
    <2> HIDE DEF row
    <2>4. /\ Append(inspections[r.lot], row) \in Seq(Inspection)
          /\ DOMAIN inspections[r.lot] \subseteq DOMAIN Append(inspections[r.lot], row)
      BY <2>1, <2>2
    <2> QED BY <2>3, <2>4 DEF Typed, TypeOK
  <1>6. order' \in [Orders -> OrderRow]
    BY <1>1, CompleteWorkOrderType DEF CommitInspection
  <1>7. req' \in [Clients -> Request] /\ SnapshotsFit'
    BY <1>5, AnswerType DEF CommitInspection
  <1> QED
    BY <1>2, <1>4, <1>5, <1>6, <1>7 DEF Typed, TypeOK, CommitInspection, toolTables

LEMMA CommitDispositionType ==
  ASSUME Typed, NEW c \in Clients, CommitDisposition(c)
  PROVE  Typed'
PROOF
  <1> DEFINE r == req[c]
             s == StatusAfter(r.disposition)
             found == inspections[r.lot][r.row]
  <1>1. /\ r.pc = "dispose" /\ r.lot \in Lots /\ r.disposition \in Dispositions
        /\ r.seen.step = RouteLength /\ r.row \in DOMAIN inspections[r.lot]
    BY RequestFields DEF Typed, TypeOK, SnapshotsFit, SnapshotFits, CommitDisposition
  <1>2. s \in LotStatus /\ s \notin Advanceable
    BY DEF StatusAfter, LotStatus, Advanceable
  <1>3. lot' \in [Lots -> LotRow] /\ StepMatchesStatus'
    <2>1. r.seen.step \in 0 .. RouteLength BY <1>1, TablesAssumption
    <2>2. SetLot(r.lot, s, r.seen.step) BY DEF CommitDisposition
    <2> HIDE DEF s
    <2> QED BY <1>1, <1>2, <2>1, <2>2, LotWriteType
  <1>4. inspections[r.lot] \in Seq(Inspection) /\ found \in Inspection
    BY <1>1 DEF Typed, TypeOK
  <1>5. DispositionEvent(r.disposition, found.tool) \in LotEvent
    <2>1. LastStep \in Steps BY TablesAssumption DEF LastStep, Steps
    <2>2. found.tool \in Tools \cup {NoTool} BY <1>4 DEF Inspection
    <2> HIDE DEF found
    <2> QED
      BY <1>2, <2>1, <2>2 DEF DispositionEvent, Event, LotEvent, LotEventType, LotStatus
  <1>6. events' \in [Lots -> Seq(LotEvent)]
    BY <1>1, <1>5, JournalType DEF CommitDisposition
  <1>7. /\ inspections' \in [Lots -> Seq(Inspection)]
        /\ \A l \in Lots : DOMAIN inspections[l] \subseteq DOMAIN inspections'[l]
    <2> DEFINE decided == [found EXCEPT !.disposition = r.disposition]
               rows == [inspections[r.lot] EXCEPT ![r.row] = decided]
    <2>1. decided \in Inspection
      BY <1>1, <1>4 DEF Inspection, Dispositions, QualityDisposition
    <2>2. rows \in Seq(Inspection) /\ DOMAIN rows = DOMAIN inspections[r.lot]
      <3> HIDE DEF decided
      <3> QED BY <1>1, <1>4, <2>1
    <2>3. inspections' = [inspections EXCEPT ![r.lot] = rows]
      BY DEF CommitDisposition
    <2> HIDE DEF rows
    <2> QED BY <2>2, <2>3 DEF Typed, TypeOK
  <1>8. req' \in [Clients -> Request] /\ SnapshotsFit'
    BY <1>7, AnswerType DEF CommitDisposition
  <1> QED
    BY <1>3, <1>6, <1>7, <1>8
    DEF Typed, TypeOK, CommitDisposition, toolTables, orderTables

LEMMA CommitReworkReleaseType ==
  ASSUME Typed, NEW c \in Clients, CommitReworkRelease(c)
  PROVE  Typed'
PROOF
  <1> DEFINE r == req[c]
             e == Event("LOT_REWORK_RELEASED", "REWORK", "WAITING", r.step, NoTool)
  <1>1. r.pc = "release" /\ r.lot \in Lots /\ r.step \in Steps
    BY RequestFields DEF Typed, TypeOK, CommitReworkRelease
  <1>2. lot' \in [Lots -> LotRow] /\ StepMatchesStatus'
    <2>1. r.step \in 0 .. RouteLength /\ r.step < RouteLength
      BY <1>1, TablesAssumption DEF Steps
    <2>2. "WAITING" \in LotStatus /\ "WAITING" \in Advanceable
      BY DEF LotStatus, Advanceable
    <2>3. SetLot(r.lot, "WAITING", r.step) BY DEF CommitReworkRelease
    <2> QED BY <1>1, <2>1, <2>2, <2>3, LotWriteType
  <1>3. e \in LotEvent
    BY <1>1 DEF Event, LotEvent, LotEventType, LotStatus
  <1>4. events' \in [Lots -> Seq(LotEvent)]
    BY <1>1, <1>3, JournalType DEF CommitReworkRelease
  <1>5. req' \in [Clients -> Request] /\ SnapshotsFit'
    BY AnswerType DEF CommitReworkRelease
  <1> QED
    BY <1>2, <1>4, <1>5 DEF Typed, TypeOK, CommitReworkRelease, toolTables, orderTables

LEMMA LotStepType ==
  ASSUME Typed, NEW c \in Clients, LotStep(c)
  PROVE  Typed'
PROOF
  BY ReceiveLotType, PickToolType, CommitHoldType, CommitDispatchType,
     InspectionReadType, CommitInspectionType, DispositionReadType,
     CommitDispositionType, CommitReworkReleaseType
  DEF LotStep

-----------------------------------------------------------------------------
(* The other commands.                                                     *)

LEMMA ClosedIsSeq ==
  ASSUME NEW rows \in Seq(BOOLEAN), NEW i
  PROVE  /\ [rows EXCEPT ![i] = FALSE] \in Seq(BOOLEAN)
         /\ Len([rows EXCEPT ![i] = FALSE]) = Len(rows)
PROOF
  <1> DEFINE n == Len(rows)
             closed == [rows EXCEPT ![i] = FALSE]
  <1>1. n \in Nat /\ rows \in [1 .. n -> BOOLEAN]
    OBVIOUS
  <1>2. closed \in [1 .. n -> BOOLEAN]
    <2> HIDE DEF n
    <2> QED BY <1>1, Zenon
  <1>3. closed \in Seq(BOOLEAN) /\ Len(closed) = n
    <2> HIDE DEF n, closed
    <2> QED BY <1>1, <1>2
  <1> QED BY <1>3

LEMMA ReceiveStatusType ==
  ASSUME Typed, NEW c \in Clients, NEW t \in Tools, NEW status \in EquipmentStatus,
         ReceiveStatus(c, t, status)
  PROVE  Typed'
PROOF
  <1> DEFINE a == [pc |-> "outage", tool |-> t, toolSeen |-> tool[t], status |-> status]
             b == [pc |-> "status", tool |-> t, toolSeen |-> tool[t], status |-> status,
                   row |-> 0]
  <1>1. tool[t] \in ToolRow BY DEF Typed, TypeOK
  <1>2. a \in Request /\ b \in Request BY <1>1 DEF Request
  <1>3. SnapshotFits(a) /\ SnapshotFits(b) BY DEF SnapshotFits
  <1>4. Becomes(c, a) \/ Becomes(c, b) BY DEF ReceiveStatus
  <1>5. UNCHANGED <<lotTables, toolTables, orderTables>> BY DEF ReceiveStatus
  <1> QED BY <1>2, <1>3, <1>4, <1>5, ReadOnly

LEMMA EquipmentStepType ==
  ASSUME Typed, NEW c \in Clients, EquipmentStep(c)
  PROVE  Typed'
PROOF
  <1> DEFINE r == req[c]
  <1>1. r \in Request
    BY DEF Typed, TypeOK
  <1>2. ASSUME NEW t \in Tools, NEW status \in Reports, ReceiveStatus(c, t, status)
        PROVE  Typed'
    BY <1>2, ReceiveStatusType, TablesAssumption
  <1>3. CASE FindOutage(c)
    <2>1. r.pc = "outage" BY <1>3 DEF FindOutage
    <2>2. PICK row \in OpenOutages(r.tool) \cup {0} :
            Becomes(c, [pc |-> "status", tool |-> r.tool, toolSeen |-> r.toolSeen,
                        status |-> r.status, row |-> row])
      BY <1>3 DEF FindOutage
    <2> DEFINE s == [pc |-> "status", tool |-> r.tool, toolSeen |-> r.toolSeen,
                     status |-> r.status, row |-> row]
    <2>3. r.tool \in Tools /\ r.toolSeen \in ToolRow /\ r.status \in EquipmentStatus
      BY <1>1, <2>1, RequestFields
    <2>4. row \in Nat
      BY <2>3 DEF OpenOutages, Typed, TypeOK
    <2>5. s \in Request BY <2>3, <2>4 DEF Request
    <2>6. SnapshotFits(s) BY DEF SnapshotFits
    <2> QED BY <1>3, <2>2, <2>5, <2>6, ReadOnly DEF FindOutage
  <1>4. CASE CommitStatus(c)
    <2>1. r.pc = "status" BY <1>4 DEF CommitStatus
    <2>2. /\ r.tool \in Tools /\ r.toolSeen \in ToolRow /\ r.status \in EquipmentStatus
          /\ r.row \in Nat
      BY <1>1, <2>1, RequestFields
    <2>3. tool' \in [Tools -> ToolRow]
      <3>1. tool[r.tool] \in ToolRow BY <2>2 DEF Typed, TypeOK
      <3>2. StatusWritten(r.tool, r.toolSeen, r.status) \in EquipmentStatus
        BY <2>2, <3>1 DEF StatusWritten, ToolRow
      <3>3. [tool[r.tool] EXCEPT !.status = StatusWritten(r.tool, r.toolSeen, r.status)]
              \in ToolRow
        BY <3>1, <3>2 DEF ToolRow
      <3> QED BY <1>4, <2>2, <3>3 DEF Typed, TypeOK, CommitStatus
    <2>4. outages' \in [Tools -> Seq(BOOLEAN)]
      <3>1. outages[r.tool] \in Seq(BOOLEAN) BY <2>2 DEF Typed, TypeOK
      <3>2. Append(outages[r.tool], TRUE) \in Seq(BOOLEAN) BY <3>1
      <3>3. [outages[r.tool] EXCEPT ![r.row] = FALSE] \in Seq(BOOLEAN)
        BY <3>1, ClosedIsSeq
      <3>4. OutagesWritten(r.tool, r.toolSeen, r.status, r.row) \in Seq(BOOLEAN)
        BY <3>1, <3>2, <3>3 DEF OutagesWritten
      <3> QED BY <1>4, <2>2, <3>4 DEF Typed, TypeOK, CommitStatus
    <2>5. req' \in [Clients -> Request] /\ SnapshotsFit'
      BY <1>4, AnswerType DEF CommitStatus, lotTables
    <2>6. StepMatchesStatus'
      BY <1>4 DEF Typed, StepMatchesStatus, Created, CommitStatus, lotTables
    <2> QED
      BY <1>4, <2>3, <2>4, <2>5, <2>6
      DEF Typed, TypeOK, CommitStatus, lotTables, orderTables
  <1> QED BY <1>2, <1>3, <1>4 DEF EquipmentStep

LEMMA InsertLotType ==
  ASSUME Typed, NEW l \in Lots, InsertLot(l)
  PROVE  /\ lot' \in [Lots -> LotRow] /\ StepMatchesStatus'
         /\ events' \in [Lots -> Seq(LotEvent)]
         /\ inspections' = inspections
PROOF
  <1>1. 0 \in 0 .. RouteLength /\ 0 < RouteLength
    BY TablesAssumption
  <1>2. "WAITING" \in LotStatus /\ "WAITING" \in Advanceable
    BY DEF LotStatus, Advanceable
  <1>3. Event("LOT_CREATED", NoStatus, "WAITING", NoStep, NoTool) \in LotEvent
    BY DEF Event, LotEvent, LotEventType, LotStatus
  <1>4. lot' \in [Lots -> LotRow] /\ StepMatchesStatus'
    BY <1>1, <1>2, LotWriteType DEF InsertLot
  <1>5. events' \in [Lots -> Seq(LotEvent)]
    BY <1>3, JournalType DEF InsertLot
  <1> QED BY <1>4, <1>5 DEF InsertLot

LEMMA WorkOrderStepType ==
  ASSUME Typed, NEW c \in Clients, WorkOrderStep(c)
  PROVE  Typed'
PROOF
  <1>1. ASSUME NEW l \in Lots, NEW q \in Quantities, CreateLot(c, l, q)
        PROVE  Typed'
    <2>1. /\ lot' \in [Lots -> LotRow] /\ StepMatchesStatus'
          /\ events' \in [Lots -> Seq(LotEvent)] /\ inspections' = inspections
      BY <1>1, InsertLotType DEF CreateLot
    <2>2. membership' \in [Lots -> Membership]
      <3>1. q \in Nat BY TablesAssumption
      <3>2. membership[l] \in Membership BY DEF Typed, TypeOK
      <3>3. [membership[l] EXCEPT !.quantity = q] \in Membership
        BY <3>1, <3>2 DEF Membership
      <3> QED BY <1>1, <3>3 DEF Typed, TypeOK, CreateLot
    <2>3. req' \in [Clients -> Request] /\ SnapshotsFit'
      BY <1>1, <2>1, AnswerType DEF CreateLot
    <2> QED BY <1>1, <2>1, <2>2, <2>3 DEF Typed, TypeOK, CreateLot, toolTables
  <1>2. ASSUME NEW w \in Orders, NEW q \in Quantities, CreateWorkOrder(c, w, q)
        PROVE  Typed'
    <2>1. order' \in [Orders -> OrderRow]
      <3>1. q \in Nat BY TablesAssumption
      <3>2. order[w] \in OrderRow BY DEF Typed, TypeOK
      <3>3. [order[w] EXCEPT !.status = "CREATED", !.planned = q] \in OrderRow
        BY <3>1, <3>2 DEF OrderRow, WorkOrderStatus
      <3>4. order' = [order EXCEPT ![w] = [order[w] EXCEPT !.status = "CREATED",
                                                           !.planned = q]]
        BY <1>2 DEF CreateWorkOrder, Typed, TypeOK
      <3> QED BY <3>3, <3>4 DEF Typed, TypeOK
    <2>2. req' \in [Clients -> Request] /\ SnapshotsFit'
      BY <1>2, AnswerType DEF CreateWorkOrder, lotTables
    <2>3. StepMatchesStatus'
      BY <1>2 DEF Typed, StepMatchesStatus, Created, CreateWorkOrder, lotTables
    <2> QED
      BY <1>2, <2>1, <2>2, <2>3 DEF Typed, TypeOK, CreateWorkOrder, lotTables, toolTables
  <1>3. ASSUME NEW w \in Orders, ReleaseWorkOrder(c, w)
        PROVE  Typed'
    <2>1. order' \in [Orders -> OrderRow]
      <3>1. order[w] \in OrderRow BY DEF Typed, TypeOK
      <3>2. [order[w] EXCEPT !.status = "RELEASED"] \in OrderRow
        BY <3>1 DEF OrderRow, WorkOrderStatus
      <3> QED BY <1>3, <3>2 DEF Typed, TypeOK, ReleaseWorkOrder
    <2>2. req' \in [Clients -> Request] /\ SnapshotsFit'
      BY <1>3, AnswerType DEF ReleaseWorkOrder, lotTables
    <2>3. StepMatchesStatus'
      BY <1>3 DEF Typed, StepMatchesStatus, Created, ReleaseWorkOrder, lotTables
    <2> QED
      BY <1>3, <2>1, <2>2, <2>3 DEF Typed, TypeOK, ReleaseWorkOrder, lotTables, toolTables
  <1>4. ASSUME NEW w \in Orders, NEW l \in Lots, NEW q \in Quantities,
               CreateWorkOrderLot(c, w, l, q)
        PROVE  Typed'
    <2>1. q \in Nat BY TablesAssumption
    <2>2. /\ lot' \in [Lots -> LotRow] /\ StepMatchesStatus'
          /\ events' \in [Lots -> Seq(LotEvent)] /\ inspections' = inspections
      BY <1>4, InsertLotType DEF CreateWorkOrderLot
    <2>3. order' \in [Orders -> OrderRow]
      <3>1. order[w] \in OrderRow BY DEF Typed, TypeOK
      <3>2. [order[w] EXCEPT !.released = @ + q, !.status = "IN_PROGRESS"] \in OrderRow
        <4>1. order[w].released + q \in Nat BY <2>1, <3>1 DEF OrderRow
        <4>2. \A n \in Nat : [order[w] EXCEPT !.released = n, !.status = "IN_PROGRESS"]
                             \in OrderRow
          BY <3>1 DEF OrderRow, WorkOrderStatus
        <4> QED BY <4>1, <4>2
      <3>3. order' = [order EXCEPT ![w] = [order[w] EXCEPT !.released = @ + q,
                                                           !.status = "IN_PROGRESS"]]
        BY <1>4 DEF CreateWorkOrderLot, Typed, TypeOK
      <3> QED BY <3>2, <3>3 DEF Typed, TypeOK
    <2>4. membership' \in [Lots -> Membership]
      <3>1. [order |-> w, quantity |-> q] \in Membership BY <2>1 DEF Membership
      <3> QED BY <1>4, <3>1 DEF Typed, TypeOK, CreateWorkOrderLot
    <2>5. req' \in [Clients -> Request] /\ SnapshotsFit'
      BY <1>4, <2>2, AnswerType DEF CreateWorkOrderLot
    <2> QED
      BY <1>4, <2>2, <2>3, <2>4, <2>5 DEF Typed, TypeOK, CreateWorkOrderLot, toolTables
  <1> QED BY <1>1, <1>2, <1>3, <1>4 DEF WorkOrderStep

-----------------------------------------------------------------------------

LEMMA InitTyped == Init => Typed
PROOF
  <1> SUFFICES ASSUME Init PROVE Typed
    OBVIOUS
  <1>1. TypeOK
    <2>1. lot \in [Lots -> LotRow]
      BY TablesAssumption DEF Init, LotRow
    <2>2. tool \in [Tools -> ToolRow]
      BY DEF Init, ToolRow, EquipmentStatus
    <2>3. order \in [Orders -> OrderRow] /\ membership \in [Lots -> Membership]
      BY DEF Init, OrderRow, Membership
    <2>4. req \in [Clients -> Request]
      BY IdleFits DEF Init
    <2>5. /\ events \in [Lots -> Seq(LotEvent)]
          /\ inspections \in [Lots -> Seq(Inspection)]
          /\ outages \in [Tools -> Seq(BOOLEAN)]
      BY DEF Init
    <2> QED BY <2>1, <2>2, <2>3, <2>4, <2>5 DEF TypeOK
  <1>2. StepMatchesStatus
    BY DEF Init, StepMatchesStatus, Created
  <1>3. SnapshotsFit
    BY DEF Init, SnapshotsFit, SnapshotFits, Idle
  <1> QED BY <1>1, <1>2, <1>3 DEF Typed

LEMMA NextTyped == Typed /\ [Next]_vars => Typed'
PROOF
  <1> SUFFICES ASSUME Typed, [Next]_vars PROVE Typed'
    OBVIOUS
  <1>1. CASE UNCHANGED vars
    BY <1>1
    DEF Typed, TypeOK, StepMatchesStatus, Created, SnapshotsFit, SnapshotFits,
        vars, lotTables, toolTables, orderTables
  <1>2. ASSUME NEW c \in Clients, Abandon(c)
        PROVE  Typed'
    BY <1>2, RefusalType DEF Abandon
  <1> QED
    BY <1>1, <1>2, LotStepType, EquipmentStepType, WorkOrderStepType DEF Next

\* Every reachable database is well typed: in particular step_index never runs
\* past PROCESS_ROUTE and every event names a step and a tool that exist.
THEOREM TypeCorrect == Spec => []TypeOK
PROOF
  <1>1. Typed => TypeOK BY DEF Typed
  <1> QED BY <1>1, InitTyped, NextTyped, PTL DEF Spec

\* Whatever snapshots the racing handlers act on, a lot that can be advanced
\* has a step of the route left and every other lot has run it to the end.
THEOREM StepsMatchStatuses == Spec => []StepMatchesStatus
PROOF
  <1>1. Typed => StepMatchesStatus BY DEF Typed
  <1> QED BY <1>1, InitTyped, NextTyped, PTL DEF Spec

-----------------------------------------------------------------------------
(* What a step does to the lots: nothing, or one of six writes.            *)

LotCommit(c) ==
  \/ CommitHold(c) \/ CommitDispatch(c) \/ CommitInspection(c)
  \/ CommitDisposition(c) \/ CommitReworkRelease(c)

LEMMA LotWrites ==
  ASSUME [Next]_vars
  PROVE  \/ UNCHANGED lotTables
         \/ \E l \in Lots : InsertLot(l)
         \/ \E c \in Clients : LotCommit(c)
<1>1. CASE UNCHANGED vars  BY <1>1 DEF vars
<1>2. ASSUME NEW c \in Clients, LotStep(c) \/ EquipmentStep(c)
      PROVE  UNCHANGED lotTables \/ LotCommit(c)
  BY <1>2
  DEF LotCommit, LotStep, ReceiveAdvance, PickTool, ReceiveInspection, ReadPending,
      ReadLastProcess, ReadAttempts, ReceiveDisposition, ReadFailure, CountReworks,
      ReceiveReworkRelease, EquipmentStep, ReceiveStatus, FindOutage, CommitStatus
<1>3. ASSUME NEW c \in Clients, WorkOrderStep(c) \/ Abandon(c)
      PROVE  UNCHANGED lotTables \/ \E l \in Lots : InsertLot(l)
  BY <1>3
  DEF WorkOrderStep, CreateLot, CreateWorkOrder, ReleaseWorkOrder, CreateWorkOrderLot, Abandon
<1>4. QED  BY <1>1, <1>2, <1>3 DEF Next

LotCalls == {"pick", "hold", "dispatch", "history", "blame", "number", "inspect",
             "failure", "cycles", "dispose", "release"}

LEMMA LotCallFields ==
  ASSUME NEW r \in Request, r.pc \in LotCalls
  PROVE  r.lot \in Lots /\ r.seen \in LotRow
PROOF
  BY RequestFields DEF LotCalls

\* A commit writes the lot its handler saw, as the handler saw it.
LEMMA CommitOnSeen ==
  ASSUME Typed, NEW c \in Clients, LotCommit(c)
  PROVE  /\ req[c] \in Request /\ req[c].pc \in LotCalls
         /\ req[c].lot \in Lots /\ req[c].seen \in LotRow
         /\ lot[req[c].lot] \in LotRow
         /\ lot[req[c].lot].status = req[c].seen.status
         /\ lot[req[c].lot].step = req[c].seen.step
         /\ SnapshotFits(req[c]) /\ Answers(c)
<1>1. /\ req[c] \in Request /\ req[c].pc \in LotCalls
      /\ lot[req[c].lot].status = req[c].seen.status
      /\ lot[req[c].lot].step = req[c].seen.step
      /\ SnapshotFits(req[c]) /\ Answers(c)
  BY DEF Typed, TypeOK, SnapshotsFit, LotCommit, LotCalls, CommitHold, CommitDispatch,
         CommitInspection, CommitDisposition, CommitReworkRelease, StillWhereItWas,
         StillAsRead, RowUnchanged, RowMatches
<1>2. req[c].lot \in Lots /\ req[c].seen \in LotRow  BY <1>1, LotCallFields
<1>3. QED  BY <1>1, <1>2 DEF Typed, TypeOK

LEMMA RowWritten ==
  ASSUME Typed, NEW l \in Lots, NEW s, NEW k, SetLot(l, s, k)
  PROVE  /\ lot'[l].status = s /\ lot'[l].step = k
         /\ lot'[l].stamp = lot[l].stamp + 1
         /\ \A m \in Lots \ {l} : lot'[m] = lot[m]
BY DEF Typed, TypeOK, SetLot

\* The tools are written by a dispatch or a status report.
LEMMA ToolWrites ==
  ASSUME [Next]_vars
  PROVE  UNCHANGED toolTables \/ \E c \in Clients : CommitDispatch(c) \/ CommitStatus(c)
<1>1. CASE UNCHANGED vars  BY <1>1 DEF vars
<1>2. ASSUME NEW c \in Clients, LotStep(c) \/ EquipmentStep(c)
      PROVE  UNCHANGED toolTables \/ CommitDispatch(c) \/ CommitStatus(c)
  BY <1>2
  DEF LotStep, ReceiveAdvance, PickTool, CommitHold, ReceiveInspection, ReadPending,
      ReadLastProcess, ReadAttempts, CommitInspection, ReceiveDisposition, ReadFailure,
      CountReworks, CommitDisposition, ReceiveReworkRelease, CommitReworkRelease,
      EquipmentStep, ReceiveStatus, FindOutage
<1>3. ASSUME NEW c \in Clients, WorkOrderStep(c) \/ Abandon(c)
      PROVE  UNCHANGED toolTables
  BY <1>3
  DEF WorkOrderStep, CreateLot, CreateWorkOrder, ReleaseWorkOrder, CreateWorkOrderLot, Abandon
<1>4. QED  BY <1>1, <1>2, <1>3 DEF Next

\* A request that is about to write a tool, or to hold a lot for want of one,
\* was so before the step or has just read the tools.
LEMMA ToolReads ==
  ASSUME Typed, [Next]_vars, NEW c \in Clients,
         req'[c].pc \in {"hold", "dispatch", "outage", "status"}
  PROVE  \/ req'[c] = req[c]
         \/ PickTool(c) \/ FindOutage(c)
         \/ \E t \in Tools, status \in Reports : ReceiveStatus(c, t, status)
<1>1. CASE UNCHANGED vars  BY <1>1 DEF vars
<1>2. ASSUME NEW d \in Clients, NEW r, Becomes(d, r),
             r.pc \notin {"hold", "dispatch", "outage", "status"}
      PROVE  req'[c] = req[c]
  BY <1>2 DEF Typed, TypeOK, Becomes
<1>3. ASSUME NEW d \in Clients, Answers(d)
      PROVE  req'[c] = req[c]
  BY <1>2, <1>3 DEF Answers, Idle
<1>4. ASSUME NEW d \in Clients, NEW r, Becomes(d, r), d # c
      PROVE  req'[c] = req[c]
  BY <1>4 DEF Typed, TypeOK, Becomes
<1>5. ASSUME NEW d \in Clients, LotStep(d)
      PROVE  req'[c] = req[c] \/ (d = c /\ PickTool(c))
  <2>1. CASE LotCommit(d)
    BY <1>3, <2>1
    DEF LotCommit, CommitHold, CommitDispatch, CommitInspection, CommitDisposition,
        CommitReworkRelease
  <2>2. CASE \E l \in Lots : ReceiveAdvance(d, l)
    BY <1>2, <2>2 DEF ReceiveAdvance
  <2>3. CASE \E l \in Lots, result \in InspectionResult : ReceiveInspection(d, l, result)
    BY <1>2, <2>3 DEF ReceiveInspection
  <2>4. CASE \E l \in Lots, disposition \in Dispositions : ReceiveDisposition(d, l, disposition)
    BY <1>2, <2>4 DEF ReceiveDisposition
  <2>5. CASE \E l \in Lots, step \in Steps : ReceiveReworkRelease(d, l, step)
    BY <1>2, <2>5 DEF ReceiveReworkRelease
  <2>6. CASE PickTool(d)
    <3>1. Answers(d) \/ \E r : Becomes(d, r)  BY <2>6 DEF PickTool, ChooseTool, NoToolFree
    <3>2. QED  BY <1>3, <1>4, <2>6, <3>1
  <2>7. CASE ReadPending(d)  BY <1>2, <1>3, <2>7 DEF ReadPending
  <2>8. CASE ReadLastProcess(d)  BY <1>2, <2>8 DEF ReadLastProcess
  <2>9. CASE ReadAttempts(d)  BY <1>2, <2>9 DEF ReadAttempts
  <2>10. CASE ReadFailure(d)
    <3> DEFINE r == [pc |-> IF req[d].disposition = "REWORK" THEN "cycles" ELSE "dispose",
                     lot |-> req[d].lot, seen |-> req[d].seen,
                     disposition |-> req[d].disposition,
                     row |-> Max(PendingFailures(req[d].lot))]
    <3>1. r.pc \notin {"hold", "dispatch", "outage", "status"}  OBVIOUS
    <3>2. Answers(d) \/ Becomes(d, r)  BY <2>10 DEF ReadFailure
    <3> HIDE DEF r
    <3>3. QED  BY <1>2, <1>3, <3>1, <3>2
  <2>11. CASE CountReworks(d)
    <3>1. req[d] \in Request /\ req[d].pc = "cycles"
      BY <2>11 DEF Typed, TypeOK, CountReworks
    <3>2. [req[d] EXCEPT !.pc = "dispose"].pc = "dispose"  BY <3>1 DEF Request
    <3>3. QED  BY <1>2, <1>3, <2>11, <3>2 DEF CountReworks
  <2>12. QED
    BY <1>5, <2>1, <2>2, <2>3, <2>4, <2>5, <2>6, <2>7, <2>8, <2>9, <2>10, <2>11
    DEF LotStep, LotCommit
<1>6. ASSUME NEW d \in Clients, EquipmentStep(d)
      PROVE  \/ req'[c] = req[c]
             \/ /\ d = c
                /\ \/ FindOutage(c)
                   \/ \E t \in Tools, status \in Reports : ReceiveStatus(c, t, status)
  <2>1. CASE CommitStatus(d)  BY <1>3, <2>1 DEF CommitStatus
  <2>2. CASE FindOutage(d)
    <3>1. \E r : Becomes(d, r)  BY <2>2 DEF FindOutage
    <3>2. QED  BY <1>4, <2>2, <3>1
  <2>3. CASE \E t \in Tools, status \in Reports : ReceiveStatus(d, t, status)
    <3>1. \E r : Becomes(d, r)  BY <2>3 DEF ReceiveStatus
    <3>2. QED  BY <1>4, <2>3, <3>1
  <2>4. QED  BY <1>6, <2>1, <2>2, <2>3 DEF EquipmentStep
<1>7. ASSUME NEW d \in Clients, WorkOrderStep(d) \/ Abandon(d)
      PROVE  req'[c] = req[c]
  BY <1>3, <1>7
  DEF WorkOrderStep, CreateLot, CreateWorkOrder, ReleaseWorkOrder, CreateWorkOrderLot, Abandon
<1>8. QED  BY <1>1, <1>5, <1>6, <1>7 DEF Next
=============================================================================
