--------------------------- MODULE ShopFloorLots ---------------------------
(***************************************************************************)
(* Proofs about the lots of the shop floor, for any clients, lots, tools and*)
(* orders: the quality record of a lot, its journal, and the atomicity of the*)
(* commands that change it.                                                *)
(***************************************************************************)
EXTENDS ShopFloorTypes, SequenceTheorems

-----------------------------------------------------------------------------
(***************************************************************************)
(* The quality record of a lot: attempts are numbered without gaps, one    *)
(* failure at most awaits its disposition, and rework cycles are bounded,  *)
(* although inspect_lot and disposition_lot read all three before their    *)
(* write transactions.                                                     *)
(*                                                                         *)
(* The strengthening is the reason: every write to a lot's inspections     *)
(* renews its updated_at, so what a handler read is still true whenever    *)
(* its compare-and-set on updated_at succeeds.                             *)
(***************************************************************************)

\* What a handler read, if updated_at has not moved since.
StillTrue(r) ==
  /\ r.pc \in {"blame", "number", "inspect"} => PendingFailures(r.lot) = {}
  /\ r.pc = "inspect" => r.attempt = Len(inspections[r.lot]) + 1
  /\ r.pc \in {"cycles", "dispose"} =>
       r.row = Len(inspections[r.lot]) /\ PendingFailures(r.lot) = {r.row}
  /\ r.pc = "dispose" /\ r.disposition = "REWORK" => ReworkPermitted(r.lot)

Fresh(r) ==
  r.pc \in LotCalls =>
    /\ r.seen.stamp <= lot[r.lot].stamp
    /\ r.seen.stamp = lot[r.lot].stamp => StillTrue(r)

AllFresh == \A c \in Clients : Fresh(req[c])

QualityInv ==
  AttemptsAreContiguous /\ OneUndecidedFailure /\ ReworkBounded /\ AllFresh

-----------------------------------------------------------------------------
(* Steps that leave the lots and the inspections alone.                    *)

LEMMA QualityRead ==
  ASSUME Typed, QualityInv, NEW c \in Clients, NEW r, Fresh(r), Becomes(c, r),
         UNCHANGED <<lot, inspections>>
  PROVE  QualityInv'
PROOF
  <1>1. AttemptsAreContiguous' /\ OneUndecidedFailure' /\ ReworkBounded'
    BY DEF QualityInv, AttemptsAreContiguous, OneUndecidedFailure, PendingFailures,
           ReworkBounded, Reworks
  <1>2. AllFresh'
    <2> SUFFICES ASSUME NEW d \in Clients
                 PROVE  Fresh(req[d])'
      BY DEF AllFresh
    <2>1. Fresh(req'[d])
      BY DEF Typed, TypeOK, QualityInv, AllFresh, Becomes
    <2> QED BY <2>1 DEF Fresh, StillTrue, PendingFailures, ReworkPermitted, Reworks
  <1> QED BY <1>1, <1>2 DEF QualityInv

LEMMA QualityAnswer ==
  ASSUME Typed, QualityInv, NEW c \in Clients, Answers(c) \/ UNCHANGED req,
         UNCHANGED <<lot, inspections>>
  PROVE  QualityInv'
PROOF
  <1>1. Fresh(Idle) BY DEF Fresh, Idle, LotCalls
  <1>2. CASE Answers(c) BY <1>1, <1>2, QualityRead DEF Answers
  <1>3. CASE UNCHANGED req
    BY <1>3
    DEF QualityInv, AttemptsAreContiguous, OneUndecidedFailure, PendingFailures,
        ReworkBounded, Reworks, ReworkPermitted, AllFresh, Fresh, StillTrue
  <1> QED BY <1>2, <1>3

-----------------------------------------------------------------------------
(* Steps that write one lot: every snapshot of it becomes stale.           *)

LEMMA WriteKeepsFresh ==
  ASSUME Typed, QualityInv, NEW c \in Clients, Answers(c) \/ UNCHANGED req,
         NEW l \in Lots, NEW s, NEW k, SetLot(l, s, k),
         \A m \in Lots \ {l} : inspections'[m] = inspections[m]
  PROVE  AllFresh'
PROOF
  <1> SUFFICES ASSUME NEW d \in Clients
               PROVE  Fresh(req[d])'
    BY DEF AllFresh
  <1>1. req'[d] = req[d] \/ req'[d] = Idle
    BY DEF Typed, TypeOK, Answers, Becomes
  <1>2. CASE req'[d] = Idle
    BY <1>2 DEF Fresh, Idle, LotCalls
  <1>3. CASE req'[d] = req[d] /\ req[d].pc \notin LotCalls
    BY <1>3 DEF Fresh
  <1>4. CASE req'[d] = req[d] /\ req[d].pc \in LotCalls
    <2> DEFINE r == req[d]
    <2>1. r \in Request /\ Fresh(r)
      BY DEF Typed, TypeOK, QualityInv, AllFresh
    <2>2. r.lot \in Lots /\ r.seen.stamp \in Nat /\ lot[r.lot].stamp \in Nat
      BY <1>4, <2>1, LotCallFields DEF Typed, TypeOK, LotRow
    <2>3. CASE r.lot = l
      <3>1. lot'[r.lot].stamp = lot[r.lot].stamp + 1
        BY <2>2, <2>3 DEF Typed, TypeOK, SetLot
      <3>2. r.seen.stamp < lot'[r.lot].stamp
        BY <1>4, <2>1, <2>2, <3>1 DEF Fresh
      <3>3. r.seen.stamp <= lot'[r.lot].stamp /\ r.seen.stamp # lot'[r.lot].stamp
        BY <2>2, <3>1, <3>2
      <3> QED BY <1>4, <3>3 DEF Fresh
    <2>4. CASE r.lot # l
      <3>1. lot'[r.lot] = lot[r.lot] /\ inspections'[r.lot] = inspections[r.lot]
        BY <2>2, <2>4 DEF Typed, TypeOK, SetLot
      <3> QED
        BY <1>4, <2>1, <3>1
        DEF Fresh, StillTrue, PendingFailures, ReworkPermitted, Reworks
    <2> QED BY <2>3, <2>4
  <1> QED BY <1>1, <1>2, <1>3, <1>4

\* A write that leaves the inspections alone, of a lot with none undecided.
LEMMA QualityWrite ==
  ASSUME Typed, QualityInv, NEW c \in Clients, Answers(c) \/ UNCHANGED req,
         NEW l \in Lots, NEW s, NEW k, SetLot(l, s, k), UNCHANGED inspections,
         lot[l].status # "QUALITY_HOLD"
  PROVE  QualityInv'
PROOF
  <1>1. AllFresh' BY WriteKeepsFresh
  <1>2. AttemptsAreContiguous' /\ ReworkBounded'
    BY DEF QualityInv, AttemptsAreContiguous, ReworkBounded, Reworks
  <1>3. OneUndecidedFailure'
    BY DEF Typed, TypeOK, QualityInv, OneUndecidedFailure, PendingFailures, SetLot
  <1> QED BY <1>1, <1>2, <1>3 DEF QualityInv

-----------------------------------------------------------------------------
(* The reads.                                                              *)

LEMMA NextAttemptIsNext ==
  ASSUME Typed, AttemptsAreContiguous, NEW l \in Lots
  PROVE  NextAttempt(l) = Len(inspections[l]) + 1
PROOF
  <1> DEFINE n == Len(inspections[l])
  <1>1. inspections[l] \in Seq(Inspection) /\ n \in Nat
    BY DEF Typed, TypeOK
  <1>2. AttemptsOf(l) = 1 .. n
    BY <1>1 DEF AttemptsOf, AttemptsAreContiguous
  <1>3. CASE n = 0
    BY <1>2, <1>3 DEF NextAttempt
  <1>4. CASE n > 0
    <2> HIDE DEF n
    <2>1. n \in 1 .. n BY <1>1, <1>4
    <2>2. Max(1 .. n) \in 1 .. n /\ Max(1 .. n) >= n
      BY <1>1, <2>1, MaxIndex
    <2>3. Max(1 .. n) = n BY <1>1, <2>2
    <2> QED BY <1>2, <2>1, <2>3 DEF NextAttempt, n
  <1> QED BY <1>1, <1>3, <1>4

LEMMA InspectionReadQuality ==
  ASSUME Typed, QualityInv, NEW c \in Clients,
         ReadPending(c) \/ ReadLastProcess(c) \/ ReadAttempts(c)
  PROVE  QualityInv'
PROOF
  <1> DEFINE r == req[c]
  <1>1. /\ r \in Request /\ Fresh(r) /\ UNCHANGED <<lot, inspections>>
        /\ r.pc \in {"history", "blame", "number"}
    BY DEF Typed, TypeOK, QualityInv, AllFresh, ReadPending, ReadLastProcess, ReadAttempts,
           lotTables
  <1>2. r.lot \in Lots /\ r.seen.stamp <= lot[r.lot].stamp
    BY <1>1, LotCallFields DEF Fresh, LotCalls
  <1>3. CASE ReadPending(c)
    <2> DEFINE s == [pc |-> "blame", lot |-> r.lot, seen |-> r.seen, result |-> r.result]
    <2>1. Answers(c) \/ (NoneUndecided(r.lot) /\ Becomes(c, s))
      BY <1>3 DEF ReadPending
    <2>2. NoneUndecided(r.lot) => Fresh(s)
      BY <1>2 DEF Fresh, StillTrue, NoneUndecided
    <2> HIDE DEF s
    <2> QED BY <1>1, <2>1, <2>2, QualityAnswer, QualityRead
  <1>4. CASE ReadLastProcess(c)
    <2> DEFINE s == [pc |-> "number", lot |-> r.lot, seen |-> r.seen, result |-> r.result,
                     tool |-> LastInspectTool(r.lot)]
    <2>1. r.pc = "blame" /\ Becomes(c, s) BY <1>4 DEF ReadLastProcess
    <2>2. Fresh(s) BY <1>1, <1>2, <2>1 DEF Fresh, StillTrue, LotCalls
    <2> HIDE DEF s
    <2> QED BY <1>1, <2>1, <2>2, QualityRead
  <1>5. CASE ReadAttempts(c)
    <2> DEFINE s == [pc |-> "inspect", lot |-> r.lot, seen |-> r.seen, result |-> r.result,
                     tool |-> r.tool, attempt |-> NextAttempt(r.lot)]
    <2>1. r.pc = "number" /\ Becomes(c, s) BY <1>5 DEF ReadAttempts
    <2>2. NextAttempt(r.lot) = Len(inspections[r.lot]) + 1
      BY <1>2, NextAttemptIsNext DEF QualityInv
    <2>3. Fresh(s) BY <1>1, <1>2, <2>1, <2>2 DEF Fresh, StillTrue, LotCalls
    <2> HIDE DEF s
    <2> QED BY <1>1, <2>1, <2>3, QualityRead
  <1> QED BY <1>3, <1>4, <1>5

LEMMA DispositionReadQuality ==
  ASSUME Typed, QualityInv, NEW c \in Clients, ReadFailure(c) \/ CountReworks(c)
  PROVE  QualityInv'
PROOF
  <1> DEFINE r == req[c]
  <1>1. /\ r \in Request /\ Fresh(r) /\ UNCHANGED <<lot, inspections>>
        /\ r.pc \in {"failure", "cycles"}
    BY DEF Typed, TypeOK, QualityInv, AllFresh, ReadFailure, CountReworks, lotTables
  <1>2. r.lot \in Lots /\ r.seen.stamp <= lot[r.lot].stamp
    BY <1>1, LotCallFields DEF Fresh, LotCalls
  <1>3. CASE ReadFailure(c) /\ NoneUndecided(r.lot)
    BY <1>1, <1>3, QualityAnswer DEF ReadFailure
  <1>4. CASE ReadFailure(c) /\ ~ NoneUndecided(r.lot)
    <2> DEFINE s == [pc |-> IF r.disposition = "REWORK" THEN "cycles" ELSE "dispose",
                     lot |-> r.lot, seen |-> r.seen, disposition |-> r.disposition,
                     row |-> Max(PendingFailures(r.lot))]
    <2>1. Becomes(c, s) BY <1>4 DEF ReadFailure
    <2>2. /\ Max(PendingFailures(r.lot)) = Len(inspections[r.lot])
          /\ PendingFailures(r.lot) = {Len(inspections[r.lot])}
      <3>1. PendingFailures(r.lot) = {Len(inspections[r.lot])}
        BY <1>2, <1>4 DEF QualityInv, OneUndecidedFailure, NoneUndecided
      <3>2. Len(inspections[r.lot]) \in Nat
        BY <1>2 DEF Typed, TypeOK
      <3>3. \A n \in Nat : Max({n}) = n
        BY DEF Max
      <3> QED BY <3>1, <3>2, <3>3
    <2>3. Fresh(s) BY <1>2, <2>2 DEF Fresh, StillTrue
    <2> HIDE DEF s
    <2> QED BY <1>1, <2>1, <2>3, QualityRead
  <1>5. CASE CountReworks(c)
    <2> DEFINE s == [r EXCEPT !.pc = "dispose"]
    <2>1. r.pc = "cycles" BY <1>5 DEF CountReworks
    <2>2. /\ s.pc = "dispose" /\ s.lot = r.lot /\ s.seen = r.seen
          /\ s.row = r.row /\ s.disposition = r.disposition
      BY <1>1, <2>1 DEF Request
    <2>3. Answers(c) \/ (ReworkPermitted(r.lot) /\ Becomes(c, s))
      BY <1>5 DEF CountReworks
    <2> HIDE DEF s
    <2>4. ReworkPermitted(r.lot) => Fresh(s)
      BY <1>1, <1>2, <2>1, <2>2 DEF Fresh, StillTrue, LotCalls
    <2> QED BY <1>1, <2>3, <2>4, QualityAnswer, QualityRead
  <1> QED BY <1>3, <1>4, <1>5

\* What a request holds before its first read of the inspections is fresh.
LEMMA LotReadQuality ==
  ASSUME Typed, QualityInv, NEW c \in Clients,
         \/ \E l \in Lots :
              \/ ReceiveAdvance(c, l)
              \/ \E result \in InspectionResult : ReceiveInspection(c, l, result)
              \/ \E d \in Dispositions : ReceiveDisposition(c, l, d)
              \/ \E step \in Steps : ReceiveReworkRelease(c, l, step)
         \/ PickTool(c)
  PROVE  QualityInv'
PROOF
  <1>1. UNCHANGED <<lot, inspections>>
    BY DEF ReceiveAdvance, ReceiveInspection, ReceiveDisposition, ReceiveReworkRelease,
           PickTool, lotTables
  <1>2. ASSUME NEW l \in Lots,
               \/ ReceiveAdvance(c, l)
               \/ \E result \in InspectionResult : ReceiveInspection(c, l, result)
               \/ \E d \in Dispositions : ReceiveDisposition(c, l, d)
               \/ \E step \in Steps : ReceiveReworkRelease(c, l, step)
        PROVE  QualityInv'
    <2>1. lot[l].stamp \in Nat BY DEF Typed, TypeOK, LotRow
    <2>2. ASSUME NEW r, r.pc \in {"pick", "history", "failure", "release"},
                 r.lot = l, r.seen = lot[l], Becomes(c, r)
          PROVE  QualityInv'
      <3>1. Fresh(r) BY <2>1, <2>2 DEF Fresh, StillTrue
      <3> QED BY <1>1, <2>2, <3>1, QualityRead
    <2>3. CASE ReceiveAdvance(c, l)
      BY <2>2, <2>3 DEF ReceiveAdvance
    <2>4. ASSUME NEW result \in InspectionResult, ReceiveInspection(c, l, result)
          PROVE  QualityInv'
      BY <2>2, <2>4 DEF ReceiveInspection
    <2>5. ASSUME NEW d \in Dispositions, ReceiveDisposition(c, l, d)
          PROVE  QualityInv'
      BY <2>2, <2>5 DEF ReceiveDisposition
    <2>6. ASSUME NEW step \in Steps, ReceiveReworkRelease(c, l, step)
          PROVE  QualityInv'
      BY <2>2, <2>6 DEF ReceiveReworkRelease
    <2> QED BY <1>2, <2>3, <2>4, <2>5, <2>6
  <1>3. CASE PickTool(c)
    <2> DEFINE r == req[c]
    <2>1. r \in Request /\ Fresh(r) /\ r.pc = "pick"
      BY <1>3 DEF Typed, TypeOK, QualityInv, AllFresh, PickTool
    <2>2. r.seen.stamp <= lot[r.lot].stamp
      BY <2>1 DEF Fresh, LotCalls
    <2>3. \/ Answers(c)
          \/ \E s : /\ s.pc \in {"hold", "dispatch"} /\ s.lot = r.lot /\ s.seen = r.seen
                   /\ Becomes(c, s)
      BY <1>3 DEF PickTool, ChooseTool, NoToolFree
    <2>4. ASSUME NEW s, s.pc \in {"hold", "dispatch"}, s.lot = r.lot, s.seen = r.seen
          PROVE  Fresh(s)
      BY <2>2, <2>4 DEF Fresh, StillTrue
    <2> QED BY <1>1, <2>3, <2>4, QualityAnswer, QualityRead
  <1> QED BY <1>2, <1>3

-----------------------------------------------------------------------------
(* The commits.                                                            *)

\* Advancing, holding, releasing and creating a lot: its inspections are all
\* decided and stay as they are.
LEMMA LotCommitQuality ==
  ASSUME Typed, QualityInv, NEW c \in Clients,
         CommitHold(c) \/ CommitDispatch(c) \/ CommitReworkRelease(c)
  PROVE  QualityInv'
PROOF
  <1> DEFINE r == req[c]
  <1>1. /\ r \in Request /\ SnapshotFits(r)
        /\ r.pc \in {"hold", "dispatch", "release"} /\ lot[r.lot].status = r.seen.status
    BY DEF Typed, TypeOK, SnapshotsFit, CommitHold, CommitDispatch, CommitReworkRelease,
           StillWhereItWas, StillAsRead, RowUnchanged, RowMatches
  <1>2. r.lot \in Lots BY <1>1, LotCallFields DEF LotCalls
  <1>3. lot[r.lot].status # "QUALITY_HOLD"
    BY <1>1 DEF SnapshotFits, Advanceable
  <1>4. Answers(c) /\ UNCHANGED inspections /\ \E s, k : SetLot(r.lot, s, k)
    BY DEF CommitHold, CommitDispatch, CommitReworkRelease
  <1> QED BY <1>2, <1>3, <1>4, QualityWrite

LEMMA InsertQuality ==
  ASSUME Typed, QualityInv, NEW c \in Clients, WorkOrderStep(c)
  PROVE  QualityInv'
PROOF
  <1>1. ASSUME NEW l \in Lots, InsertLot(l), UNCHANGED req
        PROVE  QualityInv'
    <2>1. lot[l].status # "QUALITY_HOLD" BY <1>1 DEF InsertLot, Absent
    <2> QED BY <1>1, <2>1, QualityWrite DEF InsertLot
  <1>2. CASE UNCHANGED <<lotTables, req>>
    BY <1>2, QualityAnswer DEF lotTables
  <1> QED
    BY <1>1, <1>2
    DEF WorkOrderStep, CreateLot, CreateWorkOrder, ReleaseWorkOrder, CreateWorkOrderLot

LEMMA CommitInspectionQuality ==
  ASSUME Typed, QualityInv, NEW c \in Clients, CommitInspection(c)
  PROVE  QualityInv'
PROOF
  <1> DEFINE r == req[c]
             row == [attempt     |-> r.attempt,
                     result      |-> r.result,
                     disposition |-> IF r.result = "PASS" THEN "NONE" ELSE "PENDING",
                     tool        |-> r.tool]
  <1>1. /\ r \in Request /\ r.pc = "inspect" /\ Fresh(r)
        /\ lot[r.lot].stamp = r.seen.stamp
    BY DEF Typed, TypeOK, QualityInv, AllFresh, CommitInspection, StillAsRead, RowUnchanged
  <1>2. PICK l \in Lots : l = r.lot
    BY <1>1, RequestFields
  <1> DEFINE rows == Append(inspections[l], row)
  <1>3. PendingFailures(l) = {} /\ r.attempt = Len(inspections[l]) + 1
    BY <1>1, <1>2 DEF Fresh, StillTrue, LotCalls
  <1>4. inspections[l] \in Seq(Inspection)
    BY <1>2 DEF Typed, TypeOK
  <1>5. /\ inspections' = [inspections EXCEPT ![l] = rows]
        /\ SetLot(l, IF r.result = "PASS" THEN "DONE" ELSE "QUALITY_HOLD", r.seen.step)
    BY <1>2 DEF CommitInspection
  <1>6. /\ inspections'[l] = rows
        /\ \A m \in Lots \ {l} : inspections'[m] = inspections[m]
    BY <1>2, <1>5 DEF Typed, TypeOK
  <1>7. /\ Len(rows) = Len(inspections[l]) + 1 /\ DOMAIN rows = 1 .. Len(rows)
        /\ \A i \in DOMAIN inspections[l] : rows[i] = inspections[l][i]
        /\ rows[Len(rows)] = row
        /\ DOMAIN inspections[l] = 1 .. Len(inspections[l])
    <2> HIDE DEF row
    <2> QED BY <1>4
  <1>8. AllFresh'
    <2>1. \E s, k : SetLot(l, s, k) BY <1>5
    <2>2. Answers(c) BY DEF CommitInspection
    <2> HIDE DEF rows
    <2> QED BY <1>2, <1>6, <2>1, <2>2, WriteKeepsFresh
  <1>9. AttemptsAreContiguous'
    <2> SUFFICES ASSUME NEW m \in Lots, NEW i \in DOMAIN inspections'[m]
                 PROVE  inspections'[m][i].attempt = i
      BY DEF AttemptsAreContiguous
    <2>1. CASE m # l
      BY <1>6, <2>1 DEF QualityInv, AttemptsAreContiguous
    <2>2. CASE m = l /\ i \in DOMAIN inspections[l]
      <3> HIDE DEF rows
      <3> QED BY <1>2, <1>6, <1>7, <2>2 DEF QualityInv, AttemptsAreContiguous
    <2>3. CASE m = l /\ i \notin DOMAIN inspections[l]
      <3>1. i = Len(rows)
        <4> HIDE DEF rows
        <4> QED BY <1>4, <1>6, <1>7, <2>3
      <3>2. row.attempt = Len(rows) BY <1>3, <1>7
      <3> HIDE DEF rows, row
      <3> QED BY <1>6, <1>7, <2>3, <3>1, <3>2
    <2> QED BY <2>1, <2>2, <2>3
  <1>10. OneUndecidedFailure'
    <2> SUFFICES ASSUME NEW m \in Lots
                 PROVE  /\ PendingFailures(m)' \subseteq {Len(inspections'[m])}
                        /\ PendingFailures(m)' # {} => lot'[m].status = "QUALITY_HOLD"
      BY DEF OneUndecidedFailure
    <2>1. CASE m # l
      <3>1. PendingFailures(m)' = PendingFailures(m) /\ lot'[m] = lot[m]
        BY <1>5, <1>6, <2>1 DEF PendingFailures, Typed, TypeOK, SetLot
      <3> QED BY <1>6, <2>1, <3>1 DEF QualityInv, OneUndecidedFailure
    <2>2. CASE m = l
      <3>1. \A i \in DOMAIN inspections[l] : i \notin PendingFailures(l)'
        <4> HIDE DEF rows
        <4> QED BY <1>3, <1>6, <1>7 DEF PendingFailures
      <3>2. PendingFailures(l)' \subseteq {Len(rows)}
        <4> HIDE DEF rows
        <4> QED BY <1>4, <1>6, <1>7, <3>1 DEF PendingFailures
      <3>3. PendingFailures(l)' # {} => r.result = "FAIL"
        <4>1. Len(rows) \in PendingFailures(l)' => row.result = "FAIL"
          <5> HIDE DEF rows, row
          <5> QED BY <1>6, <1>7 DEF PendingFailures
        <4> HIDE DEF rows
        <4> QED BY <3>2, <4>1
      <3>4. r.result = "FAIL" => lot'[l].status = "QUALITY_HOLD"
        <4>1. r.result \in InspectionResult BY <1>1, RequestFields
        <4> QED BY <1>5, <4>1 DEF Typed, TypeOK, SetLot
      <3> HIDE DEF rows
      <3> QED BY <1>6, <2>2, <3>2, <3>3, <3>4
    <2> QED BY <2>1, <2>2
  <1>11. ReworkBounded'
    <2> SUFFICES ASSUME NEW m \in Lots
                 PROVE  Reworks(m)' = Reworks(m)
      BY DEF QualityInv, ReworkBounded
    <2>1. CASE m # l BY <1>6, <2>1 DEF Reworks
    <2>2. CASE m = l
      <3>1. row.disposition # "REWORK" OBVIOUS
      <3> HIDE DEF rows, row
      <3> QED BY <1>4, <1>6, <1>7, <2>2, <3>1 DEF Reworks
    <2> QED BY <2>1, <2>2
  <1> QED BY <1>8, <1>9, <1>10, <1>11 DEF QualityInv

LEMMA ReworksFinite ==
  ASSUME Typed, NEW l \in Lots
  PROVE  IsFiniteSet(Reworks(l)) /\ Cardinality(Reworks(l)) \in Nat
PROOF
  <1>1. inspections[l] \in Seq(Inspection) BY DEF Typed, TypeOK
  <1>2. 1 \in Int /\ Len(inspections[l]) \in Int BY <1>1
  <1>3. IsFiniteSet(1 .. Len(inspections[l])) BY <1>2, FS_Interval
  <1>4. Reworks(l) \in SUBSET (1 .. Len(inspections[l])) BY <1>1 DEF Reworks
  <1>5. IsFiniteSet(Reworks(l)) BY <1>3, <1>4, FS_Subset
  <1> QED BY <1>5, FS_CardinalityType

LEMMA CommitDispositionQuality ==
  ASSUME Typed, QualityInv, NEW c \in Clients, CommitDisposition(c)
  PROVE  QualityInv'
PROOF
  <1> DEFINE r == req[c]
  <1>1. /\ r \in Request /\ r.pc = "dispose" /\ Fresh(r) /\ SnapshotFits(r)
        /\ lot[r.lot].stamp = r.seen.stamp
    BY DEF Typed, TypeOK, SnapshotsFit, QualityInv, AllFresh, CommitDisposition,
           StillAsRead, RowUnchanged
  <1>2. PICK l \in Lots : l = r.lot
    BY <1>1, RequestFields
  <1>3. PICK d \in Dispositions : d = r.disposition
    BY <1>1, RequestFields
  <1> DEFINE n == Len(inspections[l])
             rows == [inspections[l] EXCEPT ![n].disposition = d]
  <1>4. r.row = n /\ (d = "REWORK" => ReworkPermitted(l)) /\ n \in DOMAIN inspections[l]
    BY <1>1, <1>2, <1>3 DEF Fresh, StillTrue, LotCalls, SnapshotFits
  <1>5. inspections[l] \in Seq(Inspection)
    BY DEF Typed, TypeOK
  <1>6. /\ inspections' = [inspections EXCEPT ![l] = rows]
        /\ \E s, k : SetLot(l, s, k)
    BY <1>2, <1>3, <1>4 DEF CommitDisposition
  <1>7. /\ inspections'[l] = rows
        /\ \A m \in Lots \ {l} : inspections'[m] = inspections[m]
    BY <1>6 DEF Typed, TypeOK
  <1>8. /\ Len(rows) = n /\ DOMAIN rows = DOMAIN inspections[l]
        /\ \A i \in DOMAIN inspections[l] :
             /\ rows[i].attempt = inspections[l][i].attempt
             /\ rows[i].disposition = IF i = n THEN d ELSE inspections[l][i].disposition
    BY <1>4, <1>5 DEF Inspection
  <1>9. AllFresh'
    <2>1. Answers(c) BY DEF CommitDisposition
    <2> HIDE DEF rows, n
    <2> QED BY <1>6, <1>7, <2>1, WriteKeepsFresh
  <1>10. AttemptsAreContiguous'
    <2> SUFFICES ASSUME NEW m \in Lots, NEW i \in DOMAIN inspections'[m]
                 PROVE  inspections'[m][i].attempt = i
      BY DEF AttemptsAreContiguous
    <2> HIDE DEF rows
    <2> QED BY <1>7, <1>8 DEF QualityInv, AttemptsAreContiguous
  <1>11. OneUndecidedFailure'
    <2> SUFFICES ASSUME NEW m \in Lots
                 PROVE  /\ PendingFailures(m)' \subseteq {Len(inspections'[m])}
                        /\ PendingFailures(m)' # {} => lot'[m].status = "QUALITY_HOLD"
      BY DEF OneUndecidedFailure
    <2>1. CASE m # l
      <3>1. PendingFailures(m)' = PendingFailures(m) /\ lot'[m] = lot[m]
        BY <1>6, <1>7, <2>1 DEF PendingFailures, Typed, TypeOK, SetLot
      <3> QED BY <1>7, <2>1, <3>1 DEF QualityInv, OneUndecidedFailure
    <2>2. CASE m = l
      <3>1. \A i \in DOMAIN inspections[l] : i # n => inspections[l][i].disposition # "PENDING"
                                                   \/ inspections[l][i].result # "FAIL"
        BY DEF QualityInv, OneUndecidedFailure, PendingFailures
      <3>2. \A i \in DOMAIN inspections[l] : rows[i].result = inspections[l][i].result
        BY <1>4, <1>5 DEF Inspection
      <3>3. d # "PENDING" BY DEF Dispositions
      <3>4. PendingFailures(l)' = {}
        <4> HIDE DEF rows, n
        <4> QED BY <1>7, <1>8, <3>1, <3>2, <3>3 DEF PendingFailures
      <3> QED BY <2>2, <3>4
    <2> QED BY <2>1, <2>2
  <1>12. ReworkBounded'
    <2> SUFFICES ASSUME NEW m \in Lots
                 PROVE  Cardinality(Reworks(m)') <= MaxReworkCycles
      BY DEF ReworkBounded
    <2>1. IsFiniteSet(Reworks(m)) /\ Cardinality(Reworks(m)) \in Nat
      BY ReworksFinite
    <2>2. Cardinality(Reworks(m)) <= MaxReworkCycles
      BY DEF QualityInv, ReworkBounded
    <2>3. CASE m # l
      <3>1. Reworks(m)' = Reworks(m) BY <1>7, <2>3 DEF Reworks
      <3> QED BY <2>2, <3>1
    <2>4. CASE m = l /\ d # "REWORK"
      <3>1. Reworks(m)' \in SUBSET Reworks(m)
        <4> HIDE DEF rows, n
        <4> QED BY <1>7, <1>8, <2>4 DEF Reworks
      <3>2. Cardinality(Reworks(m)') <= Cardinality(Reworks(m))
        BY <2>1, <3>1, FS_Subset
      <3>3. Cardinality(Reworks(m)') \in Nat
        BY <2>1, <3>1, FS_Subset, FS_CardinalityType
      <3> QED BY <2>1, <2>2, <3>2, <3>3, TablesAssumption
    <2>5. CASE m = l /\ d = "REWORK"
      <3>1. Reworks(m)' = Reworks(m) \cup {n}
        <4> HIDE DEF rows, n
        <4> QED BY <1>4, <1>7, <1>8, <2>5 DEF Reworks
      <3>2. Cardinality(Reworks(m)') \in {Cardinality(Reworks(m)), Cardinality(Reworks(m)) + 1}
        <4> HIDE DEF n
        <4> QED BY <2>1, <3>1, FS_AddElement
      <3>3. Cardinality(Reworks(m)) < MaxReworkCycles
        BY <1>4, <2>5 DEF ReworkPermitted
      <3> QED BY <2>1, <3>2, <3>3, TablesAssumption
    <2> QED BY <2>3, <2>4, <2>5
  <1> QED BY <1>9, <1>10, <1>11, <1>12 DEF QualityInv

-----------------------------------------------------------------------------

LEMMA InitQuality == Init => QualityInv
PROOF
  <1> SUFFICES ASSUME Init PROVE QualityInv
    OBVIOUS
  <1>1. AttemptsAreContiguous /\ OneUndecidedFailure
    BY DEF Init, AttemptsAreContiguous, OneUndecidedFailure, PendingFailures
  <1>2. ReworkBounded
    <2>1. \A l \in Lots : Reworks(l) = {} BY DEF Init, Reworks
    <2>2. Cardinality({}) = 0 BY FS_EmptySet
    <2>3. \A l \in Lots : Cardinality(Reworks(l)) = 0 BY <2>1, <2>2
    <2>4. 0 <= MaxReworkCycles BY TablesAssumption
    <2> QED BY <2>3, <2>4 DEF ReworkBounded
  <1>3. AllFresh
    BY DEF Init, AllFresh, Fresh, Idle, LotCalls
  <1> QED BY <1>1, <1>2, <1>3 DEF QualityInv

LEMMA NextQuality == Typed /\ QualityInv /\ [Next]_vars => QualityInv'
PROOF
  <1> SUFFICES ASSUME Typed, QualityInv, [Next]_vars PROVE QualityInv'
    OBVIOUS
  <1>1. CASE UNCHANGED vars
    BY <1>1
    DEF vars, lotTables, QualityInv, AttemptsAreContiguous, OneUndecidedFailure,
        PendingFailures, ReworkBounded, Reworks, ReworkPermitted, AllFresh, Fresh, StillTrue
  <1>2. ASSUME NEW c \in Clients, LotStep(c)
        PROVE  QualityInv'
    BY <1>2, LotReadQuality, LotCommitQuality, InspectionReadQuality,
       CommitInspectionQuality, DispositionReadQuality, CommitDispositionQuality
    DEF LotStep
  <1>3. ASSUME NEW c \in Clients, EquipmentStep(c) \/ Abandon(c)
        PROVE  QualityInv'
    <2>1. CASE Abandon(c)
      BY <2>1, QualityAnswer DEF Abandon, lotTables
    <2>2. CASE CommitStatus(c)
      BY <2>2, QualityAnswer DEF CommitStatus, lotTables
    <2>3. ASSUME NEW t \in Tools, NEW status \in Reports, ReceiveStatus(c, t, status)
          PROVE  QualityInv'
      <3>1. PICK r : r.pc \in {"outage", "status"} /\ Becomes(c, r)
        BY <2>3 DEF ReceiveStatus
      <3>2. Fresh(r) BY <3>1 DEF Fresh, LotCalls
      <3> QED BY <2>3, <3>1, <3>2, QualityRead DEF ReceiveStatus, lotTables
    <2>4. CASE FindOutage(c)
      <3>1. PICK r : r.pc = "status" /\ Becomes(c, r)
        BY <2>4 DEF FindOutage
      <3>2. Fresh(r) BY <3>1 DEF Fresh, LotCalls
      <3> QED BY <2>4, <3>1, <3>2, QualityRead DEF FindOutage, lotTables
    <2> QED BY <1>3, <2>1, <2>2, <2>3, <2>4 DEF EquipmentStep
  <1> QED
    BY <1>1, <1>2, <1>3, InsertQuality DEF Next

\* inspect_lot numbers a lot's attempts 1, 2, 3 ... for any number of racing
\* inspectors: a stale number never reaches the table.
THEOREM AttemptsContiguous == Spec => []AttemptsAreContiguous
PROOF
  <1>1. QualityInv => AttemptsAreContiguous BY DEF QualityInv
  <1> QED BY <1>1, InitTyped, NextTyped, InitQuality, NextQuality, PTL DEF Spec

\* No lot has two failures awaiting disposition, and one that has one stays on
\* QUALITY_HOLD until disposition_lot decides it.
THEOREM FailuresDecidedInTurn == Spec => []OneUndecidedFailure
PROOF
  <1>1. QualityInv => OneUndecidedFailure BY DEF QualityInv
  <1> QED BY <1>1, InitTyped, NextTyped, InitQuality, NextQuality, PTL DEF Spec

\* No lot is reworked more than MAX_REWORK_CYCLES times, whoever races.
THEOREM ReworksBounded == Spec => []ReworkBounded
PROOF
  <1>1. QualityInv => ReworkBounded BY DEF QualityInv
  <1> QED BY <1>1, InitTyped, NextTyped, InitQuality, NextQuality, PTL DEF Spec

-----------------------------------------------------------------------------
(* Finished lots.                                                          *)

\* A commit on a lot needs the status its handler saw, and no handler has gone
\* on after seeing a lot that is DONE or SCRAPPED.
LEMMA TerminalStep ==
  ASSUME Typed, [Next]_vars, NEW l \in Lots, lot[l].status \in Terminal
  PROVE  lot'[l] = lot[l] /\ events'[l] = events[l] /\ inspections'[l] = inspections[l]
PROOF
  <1>1. CASE UNCHANGED vars
    BY <1>1 DEF vars, lotTables
  <1>2. ASSUME NEW c \in Clients,
               \/ CommitHold(c) \/ CommitDispatch(c) \/ CommitInspection(c)
               \/ CommitDisposition(c) \/ CommitReworkRelease(c)
        PROVE  lot'[l] = lot[l] /\ events'[l] = events[l] /\ inspections'[l] = inspections[l]
    <2> DEFINE r == req[c]
    <2>1. SnapshotFits(r) BY DEF Typed, SnapshotsFit
    <2>2. /\ lot[r.lot].status = r.seen.status
          /\ r.pc \in {"hold", "dispatch", "inspect", "dispose", "release"}
      BY <1>2
      DEF CommitHold, CommitDispatch, CommitInspection, CommitDisposition,
          CommitReworkRelease, StillWhereItWas, StillAsRead, RowUnchanged, RowMatches
    <2>3. l # r.lot
      BY <2>1, <2>2 DEF SnapshotFits, Terminal, Advanceable
    <2> QED
      BY <1>2, <2>3
      DEF Typed, TypeOK, CommitHold, CommitDispatch, CommitInspection, CommitDisposition,
          CommitReworkRelease, SetLot, AppendLotEvent
  <1>3. ASSUME NEW m \in Lots, InsertLot(m)
        PROVE  lot'[l] = lot[l] /\ events'[l] = events[l] /\ inspections'[l] = inspections[l]
    <2>1. l # m BY <1>3 DEF InsertLot, Absent, Terminal
    <2> QED BY <1>3, <2>1 DEF Typed, TypeOK, InsertLot, SetLot, AppendLotEvent
  <1>4. CASE UNCHANGED lotTables
    BY <1>4 DEF lotTables
  <1>5. ASSUME NEW c \in Clients, LotStep(c) \/ EquipmentStep(c)
        PROVE  \/ UNCHANGED lotTables
               \/ CommitHold(c) \/ CommitDispatch(c) \/ CommitInspection(c)
               \/ CommitDisposition(c) \/ CommitReworkRelease(c)
    BY <1>5
    DEF LotStep, ReceiveAdvance, PickTool, ReceiveInspection, ReadPending, ReadLastProcess,
        ReadAttempts, ReceiveDisposition, ReadFailure, CountReworks, ReceiveReworkRelease,
        EquipmentStep, ReceiveStatus, FindOutage, CommitStatus
  <1>6. ASSUME NEW c \in Clients, WorkOrderStep(c) \/ Abandon(c)
        PROVE  UNCHANGED lotTables \/ \E m \in Lots : InsertLot(m)
    BY <1>6
    DEF WorkOrderStep, CreateLot, CreateWorkOrder, ReleaseWorkOrder, CreateWorkOrderLot,
        Abandon
  <1> QED BY <1>1, <1>2, <1>3, <1>4, <1>5, <1>6 DEF Next

\* No request ever changes a finished lot: not its row, its journal or its
\* inspections.
THEOREM FinishedLotsFrozen == Spec => TerminalIsFinal
PROOF
  <1>1. Typed /\ [Next]_vars =>
          [\A l \in Lots : lot[l].status \in Terminal =>
             <<lot[l], events[l], inspections[l]>>' = <<lot[l], events[l], inspections[l]>>]_vars
    BY TerminalStep
  <1> QED BY <1>1, InitTyped, NextTyped, PTL DEF Spec, TerminalIsFinal

-----------------------------------------------------------------------------
(***************************************************************************)
(* The journal of a lot: a chain of allowed moves whose replay gives the   *)
(* lot's row, although advance_lot compares status and step only and the   *)
(* journal entries are made from what the handler saw.                     *)
(*                                                                         *)
(* JournalInv joins the three properties, and adds what a handler has      *)
(* found out before its commit: that the state machine allows the move.    *)
(***************************************************************************)

SetsStep(e) == e.type \in {"PROCESS_COMPLETED", "LOT_REWORK_RELEASED"}
MarksBefore(ev, n) == {i \in DOMAIN ev : SetsStep(ev[i]) /\ i < n}

\* StepBefore and the links of JournalIsChain, of any journal.
StepIn(ev, n) ==
  IF MarksBefore(ev, n) = {} THEN 0 ELSE StepSetBy(ev[Max(MarksBefore(ev, n))])

NamesStep(e) == e.type \in {"LOT_HELD", "LOT_RELEASED_FROM_HOLD", "PROCESS_COMPLETED"}

Link(ev, i) ==
  IF i = 1 THEN ev[i].type = "LOT_CREATED"
  ELSE /\ ev[i].from = ev[i - 1].to
       /\ ev[i].type # "DEFECT_RECORDED" => TransitionAllowed(ev[i].from, ev[i].to)
       /\ NamesStep(ev[i]) => ev[i].step = StepIn(ev, i)

Chain(ev) == \A i \in DOMAIN ev : Link(ev, i)

Tells(ev, status, step) ==
  /\ ev # <<>> /\ Chain(ev)
  /\ ev[Len(ev)].to = status
  /\ StepIn(ev, Len(ev) + 1) = step
  /\ status = "WAITING" => step = 0 \/ ev[Len(ev)].type = "LOT_REWORK_RELEASED"

LotTold(l) ==
  IF lot[l].status = Absent THEN events[l] = <<>>
                            ELSE Tells(events[l], lot[l].status, lot[l].step)

\* What pick has found out of the state machine.
MayMove(r) ==
  /\ r.pc = "hold" => r.seen.status # "HOLD"
  /\ r.pc = "dispatch" => TransitionAllowed(r.seen.status, StatusAfterStep(r.seen.step))

JournalInv == (\A l \in Lots : LotTold(l)) /\ (\A c \in Clients : MayMove(req[c]))

-----------------------------------------------------------------------------
(* Journals.                                                               *)

LEMMA MarksAreIndices ==
  ASSUME NEW ev \in Seq(LotEvent), NEW n
  PROVE  MarksBefore(ev, n) \in SUBSET (1 .. Len(ev)) /\ Len(ev) \in Nat
BY DEF MarksBefore

\* What comes after an entry does not change the step before it.
LEMMA StepKept ==
  ASSUME NEW ev \in Seq(LotEvent), NEW e \in LotEvent, NEW n \in 1 .. Len(ev) + 1
  PROVE  StepIn(Append(ev, e), n) = StepIn(ev, n)
<1> DEFINE new == Append(ev, e)
<1>1. /\ Len(ev) \in Nat /\ DOMAIN ev = 1 .. Len(ev)
      /\ DOMAIN new = 1 .. Len(ev) + 1
      /\ \A i \in DOMAIN ev : new[i] = ev[i]
  OBVIOUS
<1> HIDE DEF new
<1>2. MarksBefore(new, n) = MarksBefore(ev, n)
  BY <1>1 DEF MarksBefore
<1>3. ASSUME MarksBefore(ev, n) # {}
      PROVE  new[Max(MarksBefore(ev, n))] = ev[Max(MarksBefore(ev, n))]
  <2>1. Max(MarksBefore(ev, n)) \in DOMAIN ev
    BY <1>1, <1>3, MarksAreIndices, MaxIndex
  <2>2. QED  BY <1>1, <2>1
<1>4. QED  BY <1>2, <1>3 DEF StepIn, new

\* After a journal's last entry the lot stands where that entry says, if it
\* says anything, and else where it stood.
LEMMA StepAfter ==
  ASSUME NEW ev \in Seq(LotEvent), NEW e \in LotEvent
  PROVE  StepIn(Append(ev, e), Len(ev) + 2) =
           IF SetsStep(e) THEN StepSetBy(e) ELSE StepIn(ev, Len(ev) + 1)
<1> DEFINE new == Append(ev, e)
           marks == MarksBefore(new, Len(ev) + 2)
<1>1. /\ Len(ev) \in Nat /\ DOMAIN ev = 1 .. Len(ev)
      /\ DOMAIN new = 1 .. Len(ev) + 1
      /\ \A i \in DOMAIN ev : new[i] = ev[i]
      /\ new[Len(ev) + 1] = e /\ new \in Seq(LotEvent) /\ Len(new) = Len(ev) + 1
  OBVIOUS
<1> HIDE DEF new
<1>2. CASE SetsStep(e)
  <2>1. Len(ev) + 1 \in marks  BY <1>1, <1>2 DEF MarksBefore
  <2>2. marks \in SUBSET (1 .. Len(ev) + 1)  BY <1>1 DEF MarksBefore
  <2>3. Max(marks) \in marks /\ \A y \in marks : Max(marks) >= y
    <3> HIDE DEF marks
    <3>1. Len(ev) + 1 \in Nat /\ marks # {}  BY <1>1, <2>1
    <3>2. QED  BY <2>2, <3>1, MaxIndex
  <2>4. Max(marks) = Len(ev) + 1
    <3> HIDE DEF marks
    <3>1. Max(marks) \in 1 .. Len(ev) + 1 /\ Max(marks) >= Len(ev) + 1  BY <2>1, <2>2, <2>3
    <3>2. QED  BY <1>1, <3>1
  <2>5. StepIn(new, Len(ev) + 2) = StepSetBy(new[Max(marks)])
    BY <2>1 DEF StepIn
  <2>6. QED  BY <1>1, <1>2, <2>4, <2>5 DEF new
<1>3. CASE ~ SetsStep(e)
  <2>1. marks = MarksBefore(new, Len(ev) + 1)
    BY <1>1, <1>3 DEF MarksBefore
  <2>2. StepIn(new, Len(ev) + 2) = StepIn(new, Len(ev) + 1)  BY <2>1 DEF StepIn
  <2>3. Len(ev) + 1 \in 1 .. Len(ev) + 1  BY <1>1
  <2>4. StepIn(new, Len(ev) + 1) = StepIn(ev, Len(ev) + 1)  BY <2>3, StepKept DEF new
  <2>5. QED  BY <1>3, <2>2, <2>4 DEF new
<1>4. QED  BY <1>2, <1>3

\* One entry more: it starts where the journal ended and is an allowed move
\* from the step the lot stood at.
LEMMA Extended ==
  ASSUME NEW ev \in Seq(LotEvent), ev # <<>>, Chain(ev), NEW e \in LotEvent,
         e.from = ev[Len(ev)].to,
         e.type # "DEFECT_RECORDED" => TransitionAllowed(e.from, e.to),
         NamesStep(e) => e.step = StepIn(ev, Len(ev) + 1)
  PROVE  /\ Append(ev, e) \in Seq(LotEvent) /\ Append(ev, e) # <<>>
         /\ Chain(Append(ev, e))
         /\ Append(ev, e)[Len(Append(ev, e))] = e
         /\ StepIn(Append(ev, e), Len(Append(ev, e)) + 1) =
              IF SetsStep(e) THEN StepSetBy(e) ELSE StepIn(ev, Len(ev) + 1)
<1> DEFINE new == Append(ev, e)
           n == Len(ev)
<1>1. /\ n \in Nat /\ n # 0 /\ DOMAIN ev = 1 .. n
      /\ DOMAIN new = 1 .. n + 1
      /\ \A i \in DOMAIN ev : new[i] = ev[i]
      /\ new[n + 1] = e /\ new \in Seq(LotEvent) /\ Len(new) = n + 1 /\ new # <<>>
  OBVIOUS
<1>2. ASSUME NEW i \in 1 .. n + 1
      PROVE  StepIn(new, i) = StepIn(ev, i)
  BY StepKept
<1>3. StepIn(new, n + 2) = IF SetsStep(e) THEN StepSetBy(e) ELSE StepIn(ev, n + 1)
  BY StepAfter
<1> HIDE DEF new, n
<1>4. ASSUME NEW i \in DOMAIN new
      PROVE  Link(new, i)
  <2>1. CASE i \in DOMAIN ev
    <3>1. Link(ev, i) /\ new[i] = ev[i]  BY <1>1, <2>1 DEF Chain
    <3>2. i \in 1 .. n /\ (i # 1 => i - 1 \in DOMAIN ev)  BY <1>1, <2>1
    <3>3. StepIn(new, i) = StepIn(ev, i) /\ (i # 1 => new[i - 1] = ev[i - 1])
      BY <1>1, <1>2, <3>2
    <3>4. QED  BY <3>1, <3>3 DEF Link
  <2>2. CASE i = n + 1
    <3>1. i # 1 /\ i - 1 = n /\ n \in DOMAIN ev  BY <1>1, <2>2
    <3>2. new[i] = e /\ new[i - 1] = ev[n]  BY <1>1, <2>2, <3>1
    <3>3. StepIn(new, i) = StepIn(ev, n + 1)  BY <1>1, <1>2, <2>2
    <3>4. QED  BY <3>1, <3>2, <3>3 DEF Link, n
  <2>3. QED  BY <1>1, <2>1, <2>2
<1>5. Chain(new)  BY <1>4 DEF Chain
<1>6. StepIn(new, Len(new) + 1) = StepIn(new, n + 2)
  <2>1. Len(new) + 1 = n + 2  BY <1>1
  <2>2. QED  BY <2>1
<1>7. QED  BY <1>1, <1>3, <1>5, <1>6 DEF new, n
-----------------------------------------------------------------------------
(* Steps that read, answer or write.                                       *)

LEMMA JournalRead ==
  ASSUME Typed, JournalInv, NEW c \in Clients, NEW r, MayMove(r), Becomes(c, r),
         UNCHANGED lotTables
  PROVE  JournalInv'
<1>1. \A d \in Clients : MayMove(req'[d])
  BY DEF Typed, TypeOK, JournalInv, Becomes
<1>2. \A d \in Clients : MayMove(req[d])'  BY <1>1 DEF MayMove
<1>3. \A l \in Lots : LotTold(l)'  BY DEF JournalInv, LotTold, lotTables
<1>4. QED  BY <1>2, <1>3 DEF JournalInv

LEMMA IdleMoves == MayMove(Idle)
BY DEF MayMove, Idle

LEMMA OthersMove ==
  ASSUME Typed, JournalInv, NEW c \in Clients, Answers(c) \/ UNCHANGED req
  PROVE  \A d \in Clients : MayMove(req[d])'
<1>1. \A d \in Clients : req'[d] = req[d] \/ req'[d] = Idle
  BY DEF Typed, TypeOK, Answers, Becomes
<1>2. \A d \in Clients : MayMove(req'[d])  BY <1>1, IdleMoves DEF JournalInv
<1>3. QED  BY <1>2 DEF MayMove

LEMMA JournalQuiet ==
  ASSUME Typed, JournalInv, NEW c \in Clients, Answers(c) \/ UNCHANGED req,
         UNCHANGED lotTables
  PROVE  JournalInv'
<1>1. \A l \in Lots : LotTold(l)'  BY DEF JournalInv, LotTold, lotTables
<1>2. QED  BY <1>1, OthersMove DEF JournalInv

\* A commit writes the row and the journal of one lot, alike.
LEMMA JournalWrite ==
  ASSUME Typed, JournalInv, NEW c \in Clients, Answers(c) \/ UNCHANGED req,
         NEW l \in Lots, NEW s \in LotStatus, NEW k, NEW ev, Tells(ev, s, k),
         SetLot(l, s, k), events' = [events EXCEPT ![l] = ev]
  PROVE  JournalInv'
<1>1. lot'[l].status = s /\ lot'[l].step = k /\ events'[l] = ev
  BY DEF Typed, TypeOK, SetLot
<1>2. \A m \in Lots \ {l} : lot'[m] = lot[m] /\ events'[m] = events[m]
  BY DEF Typed, TypeOK, SetLot
<1>3. s # Absent  BY DEF LotStatus, Absent
<1>4. LotTold(l)'  BY <1>1, <1>3 DEF LotTold
<1>5. \A m \in Lots \ {l} : LotTold(m)'  BY <1>2 DEF LotTold, JournalInv
<1>6. QED  BY <1>4, <1>5, OthersMove DEF JournalInv

\* The lot a matching compare-and-set writes, and its journal.
LEMMA Matched ==
  ASSUME Typed, JournalInv, NEW l \in Lots, NEW seen \in LotRow, seen.status # Absent,
         RowMatches(l, seen)
  PROVE  /\ events[l] \in Seq(LotEvent)
         /\ Tells(events[l], seen.status, seen.step)
<1>1. lot[l].status = seen.status /\ lot[l].step = seen.step  BY DEF RowMatches
<1>2. LotTold(l)  BY DEF JournalInv
<1>3. QED  BY <1>1, <1>2 DEF LotTold, Typed, TypeOK

\* One allowed entry that ends in the status and step written.
LEMMA Recorded ==
  ASSUME NEW ev \in Seq(LotEvent), NEW status, NEW step, Tells(ev, status, step),
         NEW e \in LotEvent, e.from = status,
         e.type # "DEFECT_RECORDED" => TransitionAllowed(e.from, e.to),
         NamesStep(e) => e.step = step,
         e.to # "WAITING" \/ e.type = "LOT_REWORK_RELEASED"
  PROVE  Tells(Append(ev, e), e.to, IF SetsStep(e) THEN StepSetBy(e) ELSE step)
<1>1. /\ ev # <<>> /\ Chain(ev) /\ ev[Len(ev)].to = status
      /\ StepIn(ev, Len(ev) + 1) = step
  BY DEF Tells
<1> DEFINE new == Append(ev, e)
<1>2. /\ new # <<>> /\ Chain(new) /\ new[Len(new)] = e
      /\ StepIn(new, Len(new) + 1) = IF SetsStep(e) THEN StepSetBy(e) ELSE step
  BY <1>1, Extended
<1> HIDE DEF new
<1>3. Tells(new, e.to, IF SetsStep(e) THEN StepSetBy(e) ELSE step)
  BY <1>2 DEF Tells
<1>4. QED  BY <1>3 DEF new

-----------------------------------------------------------------------------
(* The reads of the handlers.                                              *)

LEMMA ReceiveMoves ==
  ASSUME Typed, JournalInv, NEW c \in Clients, NEW l \in Lots,
         \/ ReceiveAdvance(c, l)
         \/ \E result \in InspectionResult : ReceiveInspection(c, l, result)
         \/ \E d \in Dispositions : ReceiveDisposition(c, l, d)
         \/ \E step \in Steps : ReceiveReworkRelease(c, l, step)
  PROVE  JournalInv'
<1>1. \E r : /\ r.pc \in {"pick", "history", "failure", "release"}
             /\ Becomes(c, r) /\ UNCHANGED lotTables
  <2>1. CASE ReceiveAdvance(c, l)
    <3> DEFINE r == [pc |-> "pick", lot |-> l, seen |-> lot[l]]
    <3>1. r.pc = "pick" /\ Becomes(c, r) /\ UNCHANGED lotTables
      BY <2>1 DEF ReceiveAdvance
    <3>2. QED  BY <3>1
  <2>2. ASSUME NEW result \in InspectionResult, ReceiveInspection(c, l, result)
        PROVE  \E r : /\ r.pc \in {"pick", "history", "failure", "release"}
                      /\ Becomes(c, r) /\ UNCHANGED lotTables
    <3> DEFINE r == [pc |-> "history", lot |-> l, seen |-> lot[l], result |-> result]
    <3>1. r.pc = "history" /\ Becomes(c, r) /\ UNCHANGED lotTables
      BY <2>2 DEF ReceiveInspection
    <3>2. QED  BY <3>1
  <2>3. ASSUME NEW d \in Dispositions, ReceiveDisposition(c, l, d)
        PROVE  \E r : /\ r.pc \in {"pick", "history", "failure", "release"}
                      /\ Becomes(c, r) /\ UNCHANGED lotTables
    <3> DEFINE r == [pc |-> "failure", lot |-> l, seen |-> lot[l], disposition |-> d]
    <3>1. r.pc = "failure" /\ Becomes(c, r) /\ UNCHANGED lotTables
      BY <2>3 DEF ReceiveDisposition
    <3>2. QED  BY <3>1
  <2>4. ASSUME NEW step \in Steps, ReceiveReworkRelease(c, l, step)
        PROVE  \E r : /\ r.pc \in {"pick", "history", "failure", "release"}
                      /\ Becomes(c, r) /\ UNCHANGED lotTables
    <3> DEFINE r == [pc |-> "release", lot |-> l, seen |-> lot[l], step |-> step]
    <3>1. r.pc = "release" /\ Becomes(c, r) /\ UNCHANGED lotTables
      BY <2>4 DEF ReceiveReworkRelease
    <3>2. QED  BY <3>1
  <2>5. QED  BY <2>1, <2>2, <2>3, <2>4
<1>2. PICK r : /\ r.pc \in {"pick", "history", "failure", "release"}
              /\ Becomes(c, r) /\ UNCHANGED lotTables
  BY <1>1
<1>3. MayMove(r)  BY <1>2 DEF MayMove
<1>4. QED  BY <1>2, <1>3, JournalRead

LEMMA PickMoves ==
  ASSUME Typed, JournalInv, NEW c \in Clients, PickTool(c)
  PROVE  JournalInv'
<1> DEFINE r == req[c]
<1>1. UNCHANGED lotTables  BY DEF PickTool
<1>2. CASE Answers(c)  BY <1>1, <1>2, JournalQuiet
<1>3. CASE /\ r.seen.status # "HOLD"
           /\ Becomes(c, [pc |-> "hold", lot |-> r.lot, seen |-> r.seen])
  <2> DEFINE s == [pc |-> "hold", lot |-> r.lot, seen |-> r.seen]
  <2>1. MayMove(s)  BY <1>3 DEF MayMove
  <2>2. QED  BY <1>1, <1>3, <2>1, JournalRead
<1>4. ASSUME NEW t \in Tools,
             TransitionAllowed(r.seen.status, StatusAfterStep(r.seen.step)),
             Becomes(c, [pc |-> "dispatch", lot |-> r.lot, seen |-> r.seen,
                         tool |-> t, toolSeen |-> tool[t]])
      PROVE  JournalInv'
  <2> DEFINE s == [pc |-> "dispatch", lot |-> r.lot, seen |-> r.seen,
                   tool |-> t, toolSeen |-> tool[t]]
  <2>1. MayMove(s)  BY <1>4 DEF MayMove
  <2>2. QED  BY <1>1, <1>4, <2>1, JournalRead
<1>5. QED
  BY <1>2, <1>3, <1>4 DEF PickTool, ChooseTool, NoToolFree, LeastDispatched, Candidates

LEMMA OtherReads ==
  ASSUME Typed, JournalInv, NEW c \in Clients,
         \/ ReadPending(c) \/ ReadLastProcess(c) \/ ReadAttempts(c)
         \/ ReadFailure(c) \/ CountReworks(c)
  PROVE  JournalInv'
<1> DEFINE r == req[c]
<1>1. UNCHANGED lotTables
  BY DEF ReadPending, ReadLastProcess, ReadAttempts, ReadFailure, CountReworks
<1>2. CASE Answers(c)  BY <1>1, <1>2, JournalQuiet
<1>3. ASSUME NEW s, s.pc \notin {"hold", "dispatch"}, Becomes(c, s)
      PROVE  JournalInv'
  <2>1. MayMove(s)  BY <1>3 DEF MayMove
  <2>2. QED  BY <1>1, <1>3, <2>1, JournalRead
<1>4. CASE ReadPending(c)
  <2> DEFINE s == [pc |-> "blame", lot |-> r.lot, seen |-> r.seen, result |-> r.result]
  <2>1. s.pc = "blame" /\ (Answers(c) \/ Becomes(c, s))  BY <1>4 DEF ReadPending
  <2>2. QED  BY <1>2, <1>3, <2>1
<1>5. CASE ReadLastProcess(c)
  <2> DEFINE s == [pc |-> "number", lot |-> r.lot, seen |-> r.seen, result |-> r.result,
                   tool |-> LastInspectTool(r.lot)]
  <2>1. s.pc = "number" /\ Becomes(c, s)  BY <1>5 DEF ReadLastProcess
  <2>2. QED  BY <1>3, <2>1
<1>6. CASE ReadAttempts(c)
  <2> DEFINE s == [pc |-> "inspect", lot |-> r.lot, seen |-> r.seen, result |-> r.result,
                   tool |-> r.tool, attempt |-> NextAttempt(r.lot)]
  <2>1. s.pc = "inspect" /\ Becomes(c, s)  BY <1>6 DEF ReadAttempts
  <2>2. QED  BY <1>3, <2>1
<1>7. CASE ReadFailure(c)
  <2> DEFINE s == [pc |-> IF r.disposition = "REWORK" THEN "cycles" ELSE "dispose",
                   lot |-> r.lot, seen |-> r.seen, disposition |-> r.disposition,
                   row |-> Max(PendingFailures(r.lot))]
  <2>1. s.pc \in {"cycles", "dispose"} /\ (Answers(c) \/ Becomes(c, s))
    BY <1>7 DEF ReadFailure
  <2>2. QED  BY <1>2, <1>3, <2>1
<1>8. CASE CountReworks(c)
  <2> DEFINE s == [r EXCEPT !.pc = "dispose"]
  <2>1. r \in Request /\ r.pc = "cycles"  BY <1>8 DEF CountReworks, Typed, TypeOK
  <2>2. s.pc = "dispose" /\ (Answers(c) \/ Becomes(c, s))
    BY <1>8, <2>1 DEF CountReworks, Request
  <2>3. QED  BY <1>2, <1>3, <2>2
<1>9. QED  BY <1>4, <1>5, <1>6, <1>7, <1>8

-----------------------------------------------------------------------------
(* The commits.                                                            *)

LEMMA HoldMoves ==
  ASSUME Typed, JournalInv, NEW c \in Clients, CommitHold(c)
  PROVE  JournalInv'
<1> DEFINE r == req[c]
           e == Event("LOT_HELD", r.seen.status, "HOLD", r.seen.step, NoTool)
<1>1. /\ r.lot \in Lots /\ r.seen \in LotRow /\ r.seen.step < RouteLength
      /\ r.seen.status \in Advanceable /\ r.seen.status # "HOLD"
  BY RequestFields DEF Typed, TypeOK, SnapshotsFit, SnapshotFits, CommitHold,
                       JournalInv, MayMove
<1>2. events[r.lot] \in Seq(LotEvent) /\ Tells(events[r.lot], r.seen.status, r.seen.step)
  BY <1>1, Matched DEF CommitHold, StillWhereItWas, Advanceable, Absent
<1>3. e \in LotEvent
  BY <1>1, TablesAssumption
  DEF Event, LotEvent, LotRow, LotEventType, LotStatus, Advanceable, Steps
<1>4. /\ e.from = r.seen.status /\ e.to = "HOLD" /\ e.type = "LOT_HELD"
      /\ e.step = r.seen.step /\ ~ SetsStep(e)
      /\ TransitionAllowed(e.from, e.to)
  BY <1>1 DEF Event, SetsStep, TransitionAllowed, ALLOWED_LOT_TRANSITIONS, Advanceable
<1> HIDE DEF e
<1>5. Tells(Append(events[r.lot], e), "HOLD", r.seen.step)
  BY <1>2, <1>3, <1>4, Recorded
<1>6. /\ events' = [events EXCEPT ![r.lot] = Append(events[r.lot], e)]
      /\ SetLot(r.lot, "HOLD", r.seen.step) /\ Answers(c)
  BY DEF CommitHold, AppendLotEvent, e
<1>7. "HOLD" \in LotStatus  BY DEF LotStatus
<1>8. QED  BY <1>1, <1>5, <1>6, <1>7, JournalWrite

LEMMA DispatchMoves ==
  ASSUME Typed, JournalInv, NEW c \in Clients, CommitDispatch(c)
  PROVE  JournalInv'
<1> DEFINE r == req[c]
           s == StatusAfterStep(r.seen.step)
           from == IF r.seen.status = "HOLD" THEN "PROCESSING" ELSE r.seen.status
           released == Event("LOT_RELEASED_FROM_HOLD", "HOLD", "PROCESSING", r.seen.step, r.tool)
           completed == Event("PROCESS_COMPLETED", from, s, r.seen.step, r.tool)
           before == IF r.seen.status = "HOLD" THEN Append(events[r.lot], released)
                                               ELSE events[r.lot]
<1>1. /\ r.lot \in Lots /\ r.seen \in LotRow /\ r.tool \in Tools
      /\ r.seen.step < RouteLength /\ r.seen.status \in Advanceable
      /\ TransitionAllowed(r.seen.status, s)
  BY RequestFields DEF Typed, TypeOK, SnapshotsFit, SnapshotFits, CommitDispatch,
                       JournalInv, MayMove
<1>2. events[r.lot] \in Seq(LotEvent) /\ Tells(events[r.lot], r.seen.status, r.seen.step)
  BY <1>1, Matched DEF CommitDispatch, StillWhereItWas, Advanceable, Absent
<1>3. r.seen.step \in Steps  BY <1>1, TablesAssumption DEF LotRow, Steps
<1>4. s \in {"PROCESSING", "QUALITY_HOLD"}  BY DEF StatusAfterStep
<1>5. from \in LotStatus /\ TransitionAllowed(from, s)
  BY <1>1, <1>4 DEF Advanceable, LotStatus, TransitionAllowed, ALLOWED_LOT_TRANSITIONS
<1>6. before \in Seq(LotEvent) /\ Tells(before, from, r.seen.step)
  <2>1. CASE r.seen.status # "HOLD"  BY <1>2, <2>1
  <2>2. CASE r.seen.status = "HOLD"
    <3>1. released \in LotEvent
      BY <1>1, <1>3 DEF Event, LotEvent, LotEventType, LotStatus
    <3>2. /\ released.from = "HOLD" /\ released.to = "PROCESSING"
          /\ released.step = r.seen.step /\ ~ SetsStep(released)
          /\ TransitionAllowed(released.from, released.to)
      BY DEF Event, SetsStep, TransitionAllowed, ALLOWED_LOT_TRANSITIONS
    <3> HIDE DEF released
    <3>3. Tells(Append(events[r.lot], released), "PROCESSING", r.seen.step)
      BY <1>2, <2>2, <3>1, <3>2, Recorded
    <3>4. QED  BY <1>2, <2>2, <3>1, <3>3
  <2>3. QED  BY <2>1, <2>2
<1>7. completed \in LotEvent
  <2> HIDE DEF from, s
  <2>1. s \in LotStatus  BY <1>4 DEF LotStatus
  <2>2. QED  BY <1>1, <1>3, <1>5, <2>1 DEF Event, LotEvent, LotEventType
<1>8. /\ completed.from = from /\ completed.to = s /\ completed.step = r.seen.step
      /\ SetsStep(completed) /\ StepSetBy(completed) = r.seen.step + 1
  BY DEF Event, SetsStep, StepSetBy
<1>9. /\ events' = [events EXCEPT ![r.lot] = Append(before, completed)]
      /\ SetLot(r.lot, s, r.seen.step + 1) /\ Answers(c)
  BY DEF CommitDispatch, DispatchEvents
<1> HIDE DEF before, completed, from, s
<1>10. Tells(Append(before, completed), s, r.seen.step + 1)
  <2>1. completed.to # "WAITING"  BY <1>4, <1>8
  <2>2. TransitionAllowed(completed.from, completed.to)  BY <1>5, <1>8
  <2>3. QED  BY <1>6, <1>7, <1>8, <2>1, <2>2, Recorded
<1>11. s \in LotStatus  BY <1>4 DEF LotStatus
<1>12. QED  BY <1>1, <1>9, <1>10, <1>11, JournalWrite

\* The entries made from QUALITY_HOLD and REWORK: one per command.
LEMMA DecisionMoves ==
  ASSUME Typed, JournalInv, NEW c \in Clients, Answers(c),
         NEW l \in Lots, NEW seen \in LotRow, RowMatches(l, seen),
         seen.status \in {"QUALITY_HOLD", "REWORK"},
         NEW e \in LotEvent, ~ NamesStep(e), e.from = seen.status,
         e.type # "DEFECT_RECORDED" => TransitionAllowed(e.from, e.to),
         e.to # "WAITING" \/ e.type = "LOT_REWORK_RELEASED",
         SetLot(l, e.to, IF SetsStep(e) THEN StepSetBy(e) ELSE seen.step),
         AppendLotEvent(l, e)
  PROVE  JournalInv'
<1>1. events[l] \in Seq(LotEvent) /\ Tells(events[l], seen.status, seen.step)
  BY Matched DEF Absent
<1> DEFINE k == IF SetsStep(e) THEN StepSetBy(e) ELSE seen.step
<1>2. Tells(Append(events[l], e), e.to, k)  BY <1>1, Recorded
<1>3. e.to \in LotStatus  BY DEF LotEvent
<1>4. SetLot(l, e.to, k) /\ events' = [events EXCEPT ![l] = Append(events[l], e)]
  BY DEF AppendLotEvent
<1> HIDE DEF k
<1>5. QED  BY <1>2, <1>3, <1>4, JournalWrite

LEMMA InspectionMoves ==
  ASSUME Typed, JournalInv, NEW c \in Clients, CommitInspection(c)
  PROVE  JournalInv'
<1> DEFINE r == req[c]
           e == InspectionEvent(r.result, r.tool)
<1>1. /\ r.lot \in Lots /\ r.seen \in LotRow /\ r.seen.status = "QUALITY_HOLD"
      /\ r.result \in InspectionResult /\ r.tool \in Tools \cup {NoTool}
  BY RequestFields DEF Typed, TypeOK, SnapshotsFit, SnapshotFits, CommitInspection
<1>2. e \in LotEvent
  <2>1. LastStep \in Steps  BY TablesAssumption DEF LastStep, Steps
  <2>2. QED  BY <1>1, <2>1 DEF InspectionEvent, Event, LotEvent, LotEventType, LotStatus
<1>3. /\ ~ NamesStep(e) /\ ~ SetsStep(e) /\ e.from = "QUALITY_HOLD"
      /\ e.to = IF r.result = "PASS" THEN "DONE" ELSE "QUALITY_HOLD"
      /\ e.type # "DEFECT_RECORDED" => TransitionAllowed(e.from, e.to)
      /\ e.to # "WAITING"
  BY <1>1 DEF InspectionEvent, Event, NamesStep, SetsStep, InspectionResult,
              TransitionAllowed, ALLOWED_LOT_TRANSITIONS
<1>4. /\ SetLot(r.lot, e.to, IF SetsStep(e) THEN StepSetBy(e) ELSE r.seen.step)
      /\ AppendLotEvent(r.lot, e) /\ Answers(c) /\ RowMatches(r.lot, r.seen)
  <2>1. SetLot(r.lot, IF r.result = "PASS" THEN "DONE" ELSE "QUALITY_HOLD", r.seen.step)
    BY DEF CommitInspection
  <2>2. AppendLotEvent(r.lot, e) /\ Answers(c) /\ RowMatches(r.lot, r.seen)
    BY DEF CommitInspection, StillAsRead, RowUnchanged
  <2>3. QED  BY <1>3, <2>1, <2>2
<1> HIDE DEF e
<1>5. QED  BY <1>1, <1>2, <1>3, <1>4, DecisionMoves

LEMMA DispositionMoves ==
  ASSUME Typed, JournalInv, NEW c \in Clients, CommitDisposition(c)
  PROVE  JournalInv'
<1> DEFINE r == req[c]
           found == inspections[r.lot][r.row]
           e == DispositionEvent(r.disposition, found.tool)
<1>1. /\ r.lot \in Lots /\ r.seen \in LotRow /\ r.seen.status = "QUALITY_HOLD"
      /\ r.disposition \in Dispositions /\ r.row \in DOMAIN inspections[r.lot]
  BY RequestFields DEF Typed, TypeOK, SnapshotsFit, SnapshotFits, CommitDisposition
<1>2. e \in LotEvent
  <2>1. LastStep \in Steps  BY TablesAssumption DEF LastStep, Steps
  <2>2. found \in Inspection  BY <1>1 DEF Typed, TypeOK
  <2> HIDE DEF found
  <2>3. found.tool \in Tools \cup {NoTool}  BY <2>2 DEF Inspection
  <2>4. QED
    BY <2>1, <2>3
    DEF DispositionEvent, StatusAfter, Event, LotEvent, LotEventType, LotStatus
<1>3. /\ ~ NamesStep(e) /\ ~ SetsStep(e) /\ e.from = "QUALITY_HOLD"
      /\ e.to = StatusAfter(r.disposition) /\ TransitionAllowed(e.from, e.to)
      /\ e.to # "WAITING"
  BY DEF DispositionEvent, StatusAfter, Event, NamesStep, SetsStep,
         TransitionAllowed, ALLOWED_LOT_TRANSITIONS
<1>4. /\ SetLot(r.lot, e.to, IF SetsStep(e) THEN StepSetBy(e) ELSE r.seen.step)
      /\ AppendLotEvent(r.lot, e) /\ Answers(c) /\ RowMatches(r.lot, r.seen)
  <2>1. SetLot(r.lot, StatusAfter(r.disposition), r.seen.step)
    BY DEF CommitDisposition
  <2>2. AppendLotEvent(r.lot, e) /\ Answers(c) /\ RowMatches(r.lot, r.seen)
    BY DEF CommitDisposition, StillAsRead, RowUnchanged
  <2>3. QED  BY <1>3, <2>1, <2>2
<1> HIDE DEF e
<1>5. QED  BY <1>1, <1>2, <1>3, <1>4, DecisionMoves

LEMMA ReworkReleaseMoves ==
  ASSUME Typed, JournalInv, NEW c \in Clients, CommitReworkRelease(c)
  PROVE  JournalInv'
<1> DEFINE r == req[c]
           e == Event("LOT_REWORK_RELEASED", "REWORK", "WAITING", r.step, NoTool)
<1>1. /\ r.lot \in Lots /\ r.seen \in LotRow /\ r.seen.status = "REWORK"
      /\ r.step \in Steps
  BY RequestFields DEF Typed, TypeOK, SnapshotsFit, SnapshotFits, CommitReworkRelease
<1>2. e \in LotEvent
  BY <1>1 DEF Event, LotEvent, LotEventType, LotStatus
<1>3. /\ ~ NamesStep(e) /\ SetsStep(e) /\ StepSetBy(e) = r.step
      /\ e.from = "REWORK" /\ e.to = "WAITING" /\ e.type = "LOT_REWORK_RELEASED"
      /\ TransitionAllowed(e.from, e.to)
  BY DEF Event, NamesStep, SetsStep, StepSetBy, TransitionAllowed, ALLOWED_LOT_TRANSITIONS
<1>4. /\ SetLot(r.lot, e.to, IF SetsStep(e) THEN StepSetBy(e) ELSE r.seen.step)
      /\ AppendLotEvent(r.lot, e) /\ Answers(c) /\ RowMatches(r.lot, r.seen)
  <2>1. SetLot(r.lot, "WAITING", r.step)  BY DEF CommitReworkRelease
  <2>2. AppendLotEvent(r.lot, e) /\ Answers(c) /\ RowMatches(r.lot, r.seen)
    BY DEF CommitReworkRelease, StillAsRead, RowUnchanged
  <2>3. QED  BY <1>3, <2>1, <2>2
<1> HIDE DEF e
<1>5. QED  BY <1>1, <1>2, <1>3, <1>4, DecisionMoves

LEMMA NewLotMoves ==
  ASSUME Typed, JournalInv, NEW c \in Clients, UNCHANGED req, NEW l \in Lots, InsertLot(l)
  PROVE  JournalInv'
<1> DEFINE e == Event("LOT_CREATED", NoStatus, "WAITING", NoStep, NoTool)
<1>1. events[l] = <<>>  BY DEF JournalInv, LotTold, InsertLot
<1>2. /\ Append(events[l], e) = <<e>> /\ e.type = "LOT_CREATED" /\ e.to = "WAITING"
  BY <1>1 DEF Event
<1> HIDE DEF e
<1>3. Tells(<<e>>, "WAITING", 0)
  <2>1. /\ <<e>> # <<>> /\ Len(<<e>>) = 1 /\ DOMAIN <<e>> = {1} /\ <<e>>[1] = e
    OBVIOUS
  <2>2. Chain(<<e>>)  BY <1>2, <2>1 DEF Chain, Link
  <2>3. MarksBefore(<<e>>, Len(<<e>>) + 1) = {}
    BY <1>2, <2>1 DEF MarksBefore, SetsStep
  <2>4. StepIn(<<e>>, Len(<<e>>) + 1) = 0  BY <2>3 DEF StepIn
  <2>5. QED  BY <1>2, <2>1, <2>2, <2>4 DEF Tells
<1>4. events' = [events EXCEPT ![l] = <<e>>] /\ SetLot(l, "WAITING", 0)
  BY <1>2 DEF InsertLot, AppendLotEvent, e
<1>5. "WAITING" \in LotStatus  BY DEF LotStatus
<1>6. QED  BY <1>3, <1>4, <1>5, JournalWrite

-----------------------------------------------------------------------------
(* Every step.                                                             *)

LEMMA LotStepMoves ==
  ASSUME Typed, JournalInv, NEW c \in Clients, LotStep(c)
  PROVE  JournalInv'
BY ReceiveMoves, PickMoves, HoldMoves, DispatchMoves, OtherReads, InspectionMoves,
   DispositionMoves, ReworkReleaseMoves
DEF LotStep

LEMMA OtherStepMoves ==
  ASSUME Typed, JournalInv, NEW c \in Clients,
         EquipmentStep(c) \/ WorkOrderStep(c) \/ Abandon(c)
  PROVE  JournalInv'
<1>1. ASSUME NEW t \in Tools, NEW status \in Reports, ReceiveStatus(c, t, status)
      PROVE  JournalInv'
  <2>1. \E s : s.pc \in {"outage", "status"} /\ Becomes(c, s)
    <3> DEFINE a == [pc |-> "outage", tool |-> t, toolSeen |-> tool[t], status |-> status]
               b == [pc |-> "status", tool |-> t, toolSeen |-> tool[t], status |-> status,
                     row |-> 0]
    <3>1. a.pc = "outage" /\ b.pc = "status" /\ (Becomes(c, a) \/ Becomes(c, b))
      BY <1>1 DEF ReceiveStatus
    <3> HIDE DEF a, b
    <3>2. QED  BY <3>1
  <2>2. UNCHANGED lotTables  BY <1>1 DEF ReceiveStatus
  <2>3. QED  BY <2>1, <2>2, JournalRead DEF MayMove
<1>2. CASE FindOutage(c)
  <2> DEFINE r == req[c]
  <2>1. PICK row : Becomes(c, [pc |-> "status", tool |-> r.tool, toolSeen |-> r.toolSeen,
                               status |-> r.status, row |-> row])
    BY <1>2 DEF FindOutage
  <2> DEFINE s == [pc |-> "status", tool |-> r.tool, toolSeen |-> r.toolSeen,
                   status |-> r.status, row |-> row]
  <2>2. MayMove(s)  BY DEF MayMove
  <2>3. UNCHANGED lotTables  BY <1>2 DEF FindOutage
  <2>4. QED  BY <2>1, <2>2, <2>3, JournalRead
<1>3. CASE CommitStatus(c) \/ Abandon(c)
  BY <1>3, JournalQuiet DEF CommitStatus, Abandon
<1>4. ASSUME NEW l \in Lots, UNCHANGED req, InsertLot(l)
      PROVE  JournalInv'
  BY <1>4, NewLotMoves
<1>5. CASE WorkOrderStep(c)
  BY <1>4, <1>5, JournalQuiet
  DEF WorkOrderStep, CreateLot, CreateWorkOrder, ReleaseWorkOrder, CreateWorkOrderLot
<1>6. QED  BY <1>1, <1>2, <1>3, <1>5 DEF EquipmentStep

LEMMA InitJournal == Init => JournalInv
<1> SUFFICES ASSUME Init PROVE JournalInv  OBVIOUS
<1>1. \A l \in Lots : LotTold(l)  BY DEF Init, LotTold
<1>2. \A c \in Clients : MayMove(req[c])  BY IdleMoves DEF Init
<1>3. QED  BY <1>1, <1>2 DEF JournalInv

LEMMA NextJournal == Typed /\ JournalInv /\ [Next]_vars => JournalInv'
<1> SUFFICES ASSUME Typed, JournalInv, [Next]_vars PROVE JournalInv'  OBVIOUS
<1>1. CASE UNCHANGED vars
  BY <1>1 DEF JournalInv, LotTold, MayMove, vars, lotTables
<1>2. CASE Next
  BY <1>2, LotStepMoves, OtherStepMoves DEF Next
<1>3. QED  BY <1>1, <1>2

-----------------------------------------------------------------------------
(* What the invariant says of the three properties.                        *)

LEMMA StepsAgree ==
  ASSUME NEW l \in Lots, NEW n
  PROVE  StepBefore(l, n) = StepIn(events[l], n)
<1>1. {i \in StepMarks(l) : i < n} = MarksBefore(events[l], n)
  BY DEF StepMarks, MarksBefore, SetsStep
<1>2. QED  BY <1>1 DEF StepBefore, StepIn

LEMMA CreatedTold ==
  ASSUME JournalInv, NEW l \in Created
  PROVE  l \in Lots /\ Tells(events[l], lot[l].status, lot[l].step)
BY DEF Created, JournalInv, LotTold

LEMMA RefusalTold ==
  ASSUME Typed, JournalInv
  PROVE  RefusedOnlyAfterRework
<1> SUFFICES ASSUME NEW l \in Created, lot[l].status \in Advanceable,
                    ~ TransitionAllowed(lot[l].status, StatusAfterStep(lot[l].step))
             PROVE  /\ lot[l].step = LastStep
                    /\ events[l][Len(events[l])].type = "LOT_REWORK_RELEASED"
  BY DEF RefusedOnlyAfterRework
<1>1. l \in Lots /\ Tells(events[l], lot[l].status, lot[l].step)  BY CreatedTold
<1>2. StatusAfterStep(lot[l].step) \in {"PROCESSING", "QUALITY_HOLD"}
  BY DEF StatusAfterStep
<1>3. lot[l].status = "WAITING" /\ StatusAfterStep(lot[l].step) = "QUALITY_HOLD"
  BY <1>2 DEF Advanceable, TransitionAllowed, ALLOWED_LOT_TRANSITIONS
<1>4. lot[l].step \in Nat /\ RouteLength \in Nat /\ RouteLength >= 2
      /\ lot[l].step < RouteLength
  BY <1>1, TablesAssumption DEF Typed, TypeOK, LotRow, StepMatchesStatus, Created
<1>5. lot[l].step = LastStep
  BY <1>3, <1>4 DEF StatusAfterStep, LastStep
<1>6. lot[l].step # 0  BY <1>4, <1>5 DEF LastStep
<1>7. QED  BY <1>1, <1>3, <1>5, <1>6 DEF Tells

LEMMA ReplayTold == Typed /\ JournalInv => JournalReplaysLot
BY CreatedTold, StepsAgree DEF JournalReplaysLot, Tells

LEMMA ChainTold == JournalInv => JournalIsChain
<1>1. ASSUME JournalInv, NEW l \in Created, NEW i \in DOMAIN events[l]
      PROVE  LET e == events[l][i] IN
             IF i = 1 THEN e.type = "LOT_CREATED"
             ELSE /\ e.from = events[l][i - 1].to
                  /\ e.type # "DEFECT_RECORDED" => TransitionAllowed(e.from, e.to)
                  /\ e.type \in {"LOT_HELD", "LOT_RELEASED_FROM_HOLD", "PROCESS_COMPLETED"}
                       => e.step = StepBefore(l, i)
  <2>1. l \in Lots /\ Link(events[l], i)  BY <1>1, CreatedTold DEF Tells, Chain
  <2>2. StepBefore(l, i) = StepIn(events[l], i)  BY <2>1, StepsAgree
  <2>3. QED  BY <2>1, <2>2 DEF Link, NamesStep
<1>2. QED  BY <1>1 DEF JournalIsChain

\* Replaying a lot's journal gives its row, whatever raced: a handler that
\* commits has seen the status and the step its entries start from
\* (_compare_and_set_lot and _append_lot_event share a transaction).
THEOREM JournalsReplay == Spec => []JournalReplaysLot
<1>1. Typed /\ JournalInv => JournalReplaysLot  BY ReplayTold
<1>2. QED  BY <1>1, InitTyped, NextTyped, InitJournal, NextJournal, PTL DEF Spec

\* Every journal is a chain of moves of ALLOWED_LOT_TRANSITIONS, each made at
\* the step the lot stood at: no step is completed twice and none is skipped.
THEOREM JournalsAreChains == Spec => []JournalIsChain
<1>1. JournalInv => JournalIsChain  BY ChainTold
<1>2. QED  BY <1>1, InitTyped, NextTyped, InitJournal, NextJournal, PTL DEF Spec

\* advance_lot meets the ValueError of the state machine on one kind of lot
\* only: one that a rework release sent back to the last step.
THEOREM OnlyReworkRefused == Spec => []RefusedOnlyAfterRework
<1>1. Typed /\ JournalInv => RefusedOnlyAfterRework  BY RefusalTold
<1>2. QED  BY <1>1, InitTyped, NextTyped, InitJournal, NextJournal, PTL DEF Spec

-----------------------------------------------------------------------------
(***************************************************************************)
(* The lot commands are atomic: ShopFloor implements LotProtocol, in which *)
(* there are no snapshots.  Every step of the detailed specification is a  *)
(* step of the protocol on one lot, or changes nothing it can see.         *)
(*                                                                         *)
(* Two more invariants are proved on the way.  VerdictInv says what the    *)
(* newest inspection of a lot tells of its status.  BlameInv says that the *)
(* tool an inspection names is the one that ran INSPECT last.              *)
(***************************************************************************)

\* What the rows of a lot's inspections tell of a lot in each status.
VerdictTold(rows, status, step) ==
  LET newest == rows[Len(rows)] IN
  /\ \A i \in DOMAIN rows : rows[i].result = "PASS" <=> rows[i].disposition = "NONE"
  /\ status = "DONE" <=> rows # <<>> /\ newest.result = "PASS"
  /\ status = "SCRAPPED" <=> rows # <<>> /\ newest.disposition = "SCRAP"
  /\ status = "REWORK" => rows # <<>> /\ newest.disposition = "REWORK"
  /\ status \in Advanceable /\ rows # <<>> => newest.disposition = "REWORK"
  /\ status = Absent => rows = <<>> /\ step = 0

VerdictInv == \A l \in Lots : VerdictTold(inspections[l], lot[l].status, lot[l].step)

\* The runs of INSPECT in a journal, and the tool of the last of them.
Runs(ev) == {i \in DOMAIN ev : ev[i].type = "PROCESS_COMPLETED" /\ ev[i].step = LastStep}
RunTool(ev) == IF Runs(ev) = {} THEN NoTool ELSE ev[Max(Runs(ev))].tool

\* A lot that has run the route has been through INSPECT, and an inspection
\* that still counts names the tool of its last run.
BlameTold(ev, rows, status) ==
  /\ status \in Advanceable \cup {Absent} \/ Runs(ev) # {}
  /\ /\ rows # <<>>
     /\ rows[Len(rows)].disposition # "REWORK" \/ status = "REWORK"
     => Runs(ev) # {} /\ rows[Len(rows)].tool = RunTool(ev)

\* What an inspector read of the journal, if updated_at has not moved since.
BlameFits(r) ==
  r.pc \in {"number", "inspect"} /\ r.seen.stamp = lot[r.lot].stamp =>
    r.tool = RunTool(events[r.lot])

BlameInv ==
  /\ \A l \in Lots : BlameTold(events[l], inspections[l], lot[l].status)
  /\ \A c \in Clients : BlameFits(req[c])

-----------------------------------------------------------------------------
(* The commits of the lot commands.                                        *)

\* advance_lot holds a lot that is not on HOLD yet,
LEMMA HoldEffect ==
  ASSUME Typed, JournalInv, NEW c \in Clients, CommitHold(c), NEW l, l = req[c].lot
  PROVE  /\ l \in Lots /\ lot[l].status \in {"WAITING", "PROCESSING"}
         /\ SetLot(l, "HOLD", lot[l].step)
         /\ UNCHANGED inspections
<1>1. l \in Lots /\ SnapshotFits(req[c])
      /\ lot[l].status = req[c].seen.status /\ lot[l].step = req[c].seen.step
  BY CommitOnSeen DEF LotCommit
<1>2. req[c].pc = "hold" /\ MayMove(req[c])  BY DEF CommitHold, JournalInv
<1>3. QED  BY <1>1, <1>2 DEF SnapshotFits, MayMove, Advanceable, CommitHold

\* or runs one step more, as far as the state machine allows.
LEMMA DispatchEffect ==
  ASSUME Typed, JournalInv, NEW c \in Clients, CommitDispatch(c), NEW l, l = req[c].lot
  PROVE  /\ l \in Lots /\ lot[l].status \in Advanceable
         /\ lot[l].step \in Nat /\ lot[l].step < RouteLength
         /\ TransitionAllowed(lot[l].status, StatusAfterStep(lot[l].step))
         /\ SetLot(l, StatusAfterStep(lot[l].step), lot[l].step + 1)
         /\ UNCHANGED inspections
<1>1. /\ l \in Lots /\ SnapshotFits(req[c]) /\ lot[l] \in LotRow
      /\ lot[l].status = req[c].seen.status /\ lot[l].step = req[c].seen.step
  BY CommitOnSeen DEF LotCommit
<1>2. req[c].pc = "dispatch" /\ MayMove(req[c])  BY DEF CommitDispatch, JournalInv
<1>3. lot[l].step \in Nat  BY <1>1, TablesAssumption DEF LotRow
<1>4. QED  BY <1>1, <1>2, <1>3 DEF SnapshotFits, MayMove, CommitDispatch

\* An inspection is added to a lot with no failure undecided.
LEMMA InspectionEffect ==
  ASSUME Typed, QualityInv, NEW c \in Clients, CommitInspection(c), NEW l, l = req[c].lot
  PROVE  /\ l \in Lots /\ lot[l].status = "QUALITY_HOLD"
         /\ PendingFailures(l) = {} /\ req[c].seen.stamp = lot[l].stamp
         /\ req[c].result \in InspectionResult
         /\ SetLot(l, IF req[c].result = "PASS" THEN "DONE" ELSE "QUALITY_HOLD", lot[l].step)
         /\ inspections' = [inspections EXCEPT ![l] = Append(inspections[l],
              [attempt     |-> req[c].attempt,
               result      |-> req[c].result,
               disposition |-> IF req[c].result = "PASS" THEN "NONE" ELSE "PENDING",
               tool        |-> req[c].tool])]
<1>1. /\ l \in Lots /\ SnapshotFits(req[c])
      /\ lot[l].status = req[c].seen.status /\ lot[l].step = req[c].seen.step
      /\ req[c] \in Request
  BY CommitOnSeen DEF LotCommit
<1>2. /\ req[c].pc = "inspect" /\ Fresh(req[c]) /\ req[c].seen.stamp = lot[l].stamp
  BY DEF CommitInspection, QualityInv, AllFresh, StillAsRead, RowUnchanged
<1>3. PendingFailures(l) = {}  BY <1>2 DEF Fresh, StillTrue, LotCalls
<1>4. req[c].result \in InspectionResult  BY <1>1, <1>2, RequestFields
<1>5. lot[l].status = "QUALITY_HOLD"  BY <1>1, <1>2 DEF SnapshotFits
<1>6. inspections' = [inspections EXCEPT ![l] = Append(inspections[l],
              [attempt     |-> req[c].attempt,
               result      |-> req[c].result,
               disposition |-> IF req[c].result = "PASS" THEN "NONE" ELSE "PENDING",
               tool        |-> req[c].tool])]
  BY <1>1 DEF CommitInspection, Typed, TypeOK
<1>7. QED  BY <1>1, <1>2, <1>3, <1>4, <1>5, <1>6 DEF CommitInspection

\* A disposition decides the newest inspection, the one failure undecided.
LEMMA DispositionEffect ==
  ASSUME Typed, QualityInv, NEW c \in Clients, CommitDisposition(c), NEW l, l = req[c].lot
  PROVE  LET d == req[c].disposition
             n == Len(inspections[l])
         IN
         /\ l \in Lots /\ lot[l].status = "QUALITY_HOLD"
         /\ d \in Dispositions /\ (d = "REWORK" => ReworkPermitted(l))
         /\ PendingFailures(l) = {n} /\ n \in DOMAIN inspections[l]
         /\ SetLot(l, StatusAfter(d), lot[l].step)
         /\ inspections' = [inspections EXCEPT ![l] =
                             [inspections[l] EXCEPT ![n].disposition = d]]
<1> DEFINE d == req[c].disposition
           n == Len(inspections[l])
<1>1. /\ l \in Lots /\ SnapshotFits(req[c])
      /\ lot[l].status = req[c].seen.status /\ lot[l].step = req[c].seen.step
      /\ req[c] \in Request
  BY CommitOnSeen DEF LotCommit
<1>2. /\ req[c].pc = "dispose" /\ Fresh(req[c]) /\ req[c].seen.stamp = lot[l].stamp
  BY DEF CommitDisposition, QualityInv, AllFresh, StillAsRead, RowUnchanged
<1>3. PendingFailures(l) = {n} /\ req[c].row = n /\ (d = "REWORK" => ReworkPermitted(l))
  BY <1>2 DEF Fresh, StillTrue, LotCalls
<1>4. d \in Dispositions  BY <1>1, <1>2, RequestFields
<1>5. lot[l].status = "QUALITY_HOLD"  BY <1>1, <1>2 DEF SnapshotFits
<1>6. n \in DOMAIN inspections[l]  BY <1>3 DEF PendingFailures
<1>7. inspections' = [inspections EXCEPT ![l] = [inspections[l] EXCEPT ![n].disposition = d]]
  BY <1>1, <1>3 DEF CommitDisposition, Typed, TypeOK
<1>8. QED  BY <1>1, <1>3, <1>4, <1>5, <1>6, <1>7 DEF CommitDisposition

LEMMA ReleaseEffect ==
  ASSUME Typed, NEW c \in Clients, CommitReworkRelease(c), NEW l, l = req[c].lot
  PROVE  /\ l \in Lots /\ lot[l].status = "REWORK" /\ req[c].step \in Steps
         /\ SetLot(l, "WAITING", req[c].step)
         /\ UNCHANGED inspections
<1>1. /\ l \in Lots /\ SnapshotFits(req[c]) /\ lot[l].status = req[c].seen.status
      /\ req[c] \in Request
  BY CommitOnSeen DEF LotCommit
<1>2. req[c].pc = "release"  BY DEF CommitReworkRelease
<1>3. QED  BY <1>1, <1>2, RequestFields DEF SnapshotFits, CommitReworkRelease

-----------------------------------------------------------------------------
(* The rows of a lot's inspections.                                        *)

LEMMA RowAdded ==
  ASSUME NEW rows \in Seq(Inspection), NEW row \in Inspection
  PROVE  LET new == Append(rows, row) IN
         /\ Len(new) = Len(rows) + 1 /\ new # <<>> /\ DOMAIN new = 1 .. Len(rows) + 1
         /\ \A i \in DOMAIN rows : new[i] = rows[i]
         /\ new[Len(new)] = row
         /\ \A i \in DOMAIN new : new[i] = IF i \in DOMAIN rows THEN rows[i] ELSE row
OBVIOUS

LEMMA RowDecided ==
  ASSUME NEW rows \in Seq(Inspection), NEW n \in DOMAIN rows, n = Len(rows), NEW d
  PROVE  LET new == [rows EXCEPT ![n].disposition = d] IN
         /\ Len(new) = n /\ new # <<>> /\ DOMAIN new = DOMAIN rows
         /\ \A i \in DOMAIN rows :
              /\ new[i].result = rows[i].result /\ new[i].tool = rows[i].tool
              /\ new[i].disposition = IF i = n THEN d ELSE rows[i].disposition
BY DEF Inspection

-----------------------------------------------------------------------------
(* What the newest inspection tells.                                       *)

\* A lot whose inspections are left alone.
LEMMA VerdictMoved ==
  ASSUME Typed, VerdictInv, NEW l \in Lots, NEW s \in LotStatus, NEW k, SetLot(l, s, k),
         UNCHANGED inspections,
         s \in Advanceable \/ s = "QUALITY_HOLD",
         lot[l].status \in Advanceable \cup {Absent, "REWORK"},
         NEW m \in Lots
  PROVE  VerdictTold(inspections'[m], lot'[m].status, lot'[m].step)
<1>1. VerdictTold(inspections[m], lot[m].status, lot[m].step)  BY DEF VerdictInv
<1>2. CASE m # l  BY <1>1, <1>2, RowWritten
<1>3. CASE m = l
  <2>1. lot'[l].status = s /\ lot'[l].step = k  BY RowWritten
  <2>2. s \notin {"DONE", "SCRAPPED", "REWORK", Absent}  BY DEF Advanceable, Absent
  <2>3. lot[l].status \notin {"DONE", "SCRAPPED"}  BY DEF Advanceable, Absent
  <2> DEFINE rows == inspections[l]
  <2>4. rows # <<>> => rows[Len(rows)].disposition = "REWORK"
    BY <1>1, <1>3 DEF VerdictTold
  <2>5. rows # <<>> => rows[Len(rows)].result # "PASS"
    BY <1>1, <1>3, <2>3 DEF VerdictTold
  <2>6. \A i \in DOMAIN rows : rows[i].result = "PASS" <=> rows[i].disposition = "NONE"
    BY <1>1, <1>3 DEF VerdictTold
  <2> HIDE DEF rows
  <2>7. VerdictTold(rows, s, k)  BY <2>2, <2>4, <2>5, <2>6 DEF VerdictTold
  <2>8. QED  BY <1>3, <2>1, <2>7 DEF rows
<1>4. QED  BY <1>2, <1>3

LEMMA VerdictGiven ==
  ASSUME Typed, QualityInv, VerdictInv, NEW c \in Clients, CommitInspection(c)
  PROVE  VerdictInv'
<1> DEFINE l == req[c].lot
           result == req[c].result
           row == [attempt     |-> req[c].attempt,
                   result      |-> result,
                   disposition |-> IF result = "PASS" THEN "NONE" ELSE "PENDING",
                   tool        |-> req[c].tool]
           s == IF result = "PASS" THEN "DONE" ELSE "QUALITY_HOLD"
           rows == inspections[l]
           new == Append(rows, row)
<1>1. /\ l \in Lots /\ lot[l].status = "QUALITY_HOLD" /\ result \in InspectionResult
      /\ SetLot(l, s, lot[l].step) /\ inspections' = [inspections EXCEPT ![l] = new]
  BY InspectionEffect
<1>2. rows \in Seq(Inspection) /\ row \in Inspection
  <2>1. req[c] \in Request /\ req[c].pc = "inspect"
    BY CommitOnSeen DEF LotCommit, CommitInspection
  <2>2. req[c].attempt \in Nat \ {0} /\ req[c].tool \in Tools \cup {NoTool}
    BY <2>1, RequestFields
  <2>3. row \in Inspection  BY <1>1, <2>2 DEF Inspection, QualityDisposition
  <2>4. QED  BY <1>1, <2>3 DEF Typed, TypeOK
<1>3. VerdictTold(rows, "QUALITY_HOLD", lot[l].step)
  BY <1>1 DEF VerdictInv
<1>4. /\ row.result = result
      /\ row.disposition = IF result = "PASS" THEN "NONE" ELSE "PENDING"
  OBVIOUS
<1>5. /\ Len(new) = Len(rows) + 1 /\ new # <<>> /\ new[Len(new)] = row
      /\ \A i \in DOMAIN new : new[i] = IF i \in DOMAIN rows THEN rows[i] ELSE row
  <2> HIDE DEF rows, row
  <2>1. QED  BY <1>2, RowAdded
<1>6. VerdictTold(new, s, lot[l].step)
  <2> HIDE DEF new, row, rows, result
  <2>1. \A i \in DOMAIN new : new[i].result = "PASS" <=> new[i].disposition = "NONE"
    BY <1>3, <1>4, <1>5 DEF VerdictTold
  <2>2. s \in {"DONE", "QUALITY_HOLD"} /\ (s = "DONE" <=> row.result = "PASS")
    BY <1>4
  <2>3. row.disposition \in {"NONE", "PENDING"}  BY <1>4
  <2> HIDE DEF s
  <2>4. QED  BY <1>5, <2>1, <2>2, <2>3 DEF VerdictTold, Advanceable, Absent
<1>7. ASSUME NEW m \in Lots
      PROVE  VerdictTold(inspections'[m], lot'[m].status, lot'[m].step)
  <2> HIDE DEF new, s, l
  <2>1. CASE m = l
    <3>1. lot'[l].status = s /\ lot'[l].step = lot[l].step  BY <1>1, RowWritten
    <3>2. inspections'[l] = new  BY <1>1 DEF Typed, TypeOK
    <3>3. QED  BY <1>6, <2>1, <3>1, <3>2
  <2>2. CASE m # l
    <3>1. lot'[m] = lot[m]  BY <1>1, <2>2, RowWritten
    <3>2. inspections'[m] = inspections[m]  BY <1>1, <2>2 DEF Typed, TypeOK
    <3>3. QED  BY <3>1, <3>2 DEF VerdictInv
  <2>3. QED  BY <2>1, <2>2
<1>8. QED  BY <1>7 DEF VerdictInv

LEMMA VerdictDecided ==
  ASSUME Typed, QualityInv, VerdictInv, NEW c \in Clients, CommitDisposition(c)
  PROVE  VerdictInv'
<1> DEFINE l == req[c].lot
           d == req[c].disposition
           rows == inspections[l]
           n == Len(rows)
           new == [rows EXCEPT ![n].disposition = d]
<1>1. /\ l \in Lots /\ lot[l].status = "QUALITY_HOLD" /\ d \in Dispositions
      /\ PendingFailures(l) = {n} /\ n \in DOMAIN rows
      /\ SetLot(l, StatusAfter(d), lot[l].step)
      /\ inspections' = [inspections EXCEPT ![l] = new]
  BY DispositionEffect
<1>2. rows \in Seq(Inspection)  BY <1>1 DEF Typed, TypeOK
<1>3. VerdictTold(rows, "QUALITY_HOLD", lot[l].step)  BY <1>1 DEF VerdictInv
<1>4. rows[n].result = "FAIL" /\ rows # <<>>  BY <1>1 DEF PendingFailures
<1>5. /\ Len(new) = n /\ new # <<>> /\ DOMAIN new = DOMAIN rows
      /\ \A i \in DOMAIN rows :
           /\ new[i].result = rows[i].result
           /\ new[i].disposition = IF i = n THEN d ELSE rows[i].disposition
  <2> HIDE DEF rows
  <2>1. QED  BY <1>1, <1>2, RowDecided
<1>6. VerdictTold(new, StatusAfter(d), lot[l].step)
  <2> HIDE DEF new, rows, n, d
  <2>1. new[n].result = "FAIL" /\ new[n].disposition = d  BY <1>1, <1>4, <1>5
  <2>2. \A i \in DOMAIN new : new[i].result = "PASS" <=> new[i].disposition = "NONE"
    BY <1>1, <1>3, <1>4, <1>5 DEF VerdictTold, Dispositions
  <2>3. /\ d \in {"SCRAP", "REWORK"}
        /\ StatusAfter(d) \in {"SCRAPPED", "REWORK"}
        /\ StatusAfter(d) = "SCRAPPED" <=> d = "SCRAP"
    BY <1>1 DEF Dispositions, StatusAfter
  <2>4. QED  BY <1>5, <2>1, <2>2, <2>3 DEF VerdictTold, Advanceable, Absent
<1>7. ASSUME NEW m \in Lots
      PROVE  VerdictTold(inspections'[m], lot'[m].status, lot'[m].step)
  <2> HIDE DEF new, l
  <2>1. CASE m = l
    <3>1. lot'[l].status = StatusAfter(d) /\ lot'[l].step = lot[l].step
      BY <1>1, RowWritten
    <3>2. inspections'[l] = new  BY <1>1 DEF Typed, TypeOK
    <3>3. QED  BY <1>6, <2>1, <3>1, <3>2
  <2>2. CASE m # l
    <3>1. lot'[m] = lot[m]  BY <1>1, <2>2, RowWritten
    <3>2. inspections'[m] = inspections[m]  BY <1>1, <2>2 DEF Typed, TypeOK
    <3>3. QED  BY <3>1, <3>2 DEF VerdictInv
  <2>3. QED  BY <2>1, <2>2
<1>8. QED  BY <1>7 DEF VerdictInv

LEMMA NextVerdict ==
  ASSUME Typed, QualityInv, JournalInv, VerdictInv, [Next]_vars
  PROVE  VerdictInv'
<1>1. CASE UNCHANGED lotTables  BY <1>1 DEF VerdictInv, lotTables
<1>2. ASSUME NEW l \in Lots, InsertLot(l)
      PROVE  VerdictInv'
  <2>1. "WAITING" \in LotStatus /\ "WAITING" \in Advanceable
    BY DEF LotStatus, Advanceable
  <2>2. QED  BY <1>2, <2>1, VerdictMoved DEF InsertLot, VerdictInv
<1>3. ASSUME NEW c \in Clients, CommitHold(c)
      PROVE  VerdictInv'
  <2> DEFINE l == req[c].lot
  <2>1. /\ l \in Lots /\ lot[l].status \in {"WAITING", "PROCESSING"}
        /\ SetLot(l, "HOLD", lot[l].step) /\ UNCHANGED inspections
    BY <1>3, HoldEffect
  <2>2. "HOLD" \in LotStatus /\ "HOLD" \in Advanceable /\ lot[l].status \in Advanceable
    BY <2>1 DEF LotStatus, Advanceable
  <2>3. QED  BY <2>1, <2>2, VerdictMoved DEF VerdictInv
<1>4. ASSUME NEW c \in Clients, CommitDispatch(c)
      PROVE  VerdictInv'
  <2> DEFINE l == req[c].lot
             s == StatusAfterStep(lot[l].step)
  <2>1. /\ l \in Lots /\ lot[l].status \in Advanceable
        /\ SetLot(l, s, lot[l].step + 1) /\ UNCHANGED inspections
    BY <1>4, DispatchEffect
  <2>2. s \in LotStatus /\ (s \in Advanceable \/ s = "QUALITY_HOLD")
    BY DEF StatusAfterStep, LotStatus, Advanceable
  <2>3. QED  BY <2>1, <2>2, VerdictMoved DEF VerdictInv
<1>5. ASSUME NEW c \in Clients, CommitReworkRelease(c)
      PROVE  VerdictInv'
  <2> DEFINE l == req[c].lot
  <2>1. /\ l \in Lots /\ lot[l].status = "REWORK"
        /\ SetLot(l, "WAITING", req[c].step) /\ UNCHANGED inspections
    BY <1>5, ReleaseEffect
  <2>2. "WAITING" \in LotStatus /\ "WAITING" \in Advanceable
    BY DEF LotStatus, Advanceable
  <2>3. QED  BY <2>1, <2>2, VerdictMoved DEF VerdictInv
<1>6. QED
  BY <1>1, <1>2, <1>3, <1>4, <1>5, LotWrites, VerdictGiven, VerdictDecided DEF LotCommit

LEMMA InitVerdict == Init => VerdictInv
BY DEF Init, VerdictInv, VerdictTold, Absent, Advanceable

\* DONE, SCRAPPED and REWORK are the statuses of the lots whose newest
\* inspection passed, was scrapped or was sent to rework, and of no others:
\* inspect_lot and disposition_lot write the row and the status in one
\* transaction, on the state they read.
THEOREM VerdictsDecide == Spec => []VerdictDecidesStatus
<1>1. VerdictInv => VerdictDecidesStatus
  BY DEF VerdictInv, VerdictTold, VerdictDecidesStatus
<1>2. Typed /\ QualityInv /\ JournalInv /\ VerdictInv /\ [Next]_vars => VerdictInv'
  BY NextVerdict
<1>3. QED
  BY <1>1, <1>2, InitTyped, NextTyped, InitQuality, NextQuality, InitJournal, NextJournal,
     InitVerdict, PTL DEF Spec

-----------------------------------------------------------------------------
(* Every step is a step of the protocol.                                   *)

\* What the protocol sees of the database.
statusOf == [l \in Lots |-> lot[l].status]
stepOf == [l \in Lots |-> lot[l].step]
Verdicts(rows) ==
  [i \in DOMAIN rows |-> [result |-> rows[i].result, disposition |-> rows[i].disposition]]
verdictsOf == [l \in Lots |-> Verdicts(inspections[l])]

LEMMA SeesRow ==
  ASSUME Typed, NEW l \in Lots, NEW s, NEW k, SetLot(l, s, k)
  PROVE  /\ statusOf' = [statusOf EXCEPT ![l] = s]
         /\ stepOf' = [stepOf EXCEPT ![l] = k]
         /\ statusOf[l] = lot[l].status /\ stepOf[l] = lot[l].step
<1>1. /\ lot'[l].status = s /\ lot'[l].step = k
      /\ \A m \in Lots \ {l} : lot'[m] = lot[m]
  BY RowWritten
<1>2. QED  BY <1>1 DEF statusOf, stepOf

LEMMA SameStatus ==
  ASSUME NEW l \in Lots, statusOf' = [statusOf EXCEPT ![l] = statusOf[l]]
  PROVE  statusOf' = statusOf
BY DEF statusOf

LEMMA SameSteps ==
  ASSUME NEW l \in Lots, stepOf' = [stepOf EXCEPT ![l] = stepOf[l]]
  PROVE  stepOf' = stepOf
BY DEF stepOf

LEMMA SeesNoInspection ==
  ASSUME UNCHANGED inspections
  PROVE  UNCHANGED verdictsOf
BY DEF verdictsOf

\* The newest verdict awaits a decision exactly when a failure is undecided.
LEMMA SeesUndecided ==
  ASSUME Typed, QualityInv, VerdictInv, NEW l \in Lots
  PROVE  /\ Len(verdictsOf[l]) = Len(inspections[l])
         /\ verdictsOf[l] # <<>> <=> inspections[l] # <<>>
         /\ verdictsOf[l] # <<>> /\ verdictsOf[l][Len(verdictsOf[l])].disposition = "PENDING"
              <=> PendingFailures(l) # {}
<1> DEFINE rows == inspections[l]
           seen == [i \in DOMAIN rows |-> [result |-> rows[i].result,
                                          disposition |-> rows[i].disposition]]
<1>1. verdictsOf[l] = seen  BY DEF verdictsOf, Verdicts
<1>2. rows \in Seq(Inspection)  BY DEF Typed, TypeOK
<1>3. /\ Len(rows) \in Nat /\ DOMAIN rows = 1 .. Len(rows)
      /\ Len(seen) = Len(rows) /\ (seen # <<>> <=> rows # <<>>)
      /\ rows # <<>> => Len(rows) \in DOMAIN rows
  BY <1>2
<1>4. \A i \in DOMAIN rows : seen[i].disposition = rows[i].disposition
  OBVIOUS
<1>5. \A i \in DOMAIN rows : rows[i] \in Inspection  BY <1>2
<1>6. \A i \in DOMAIN rows : rows[i].disposition = "PENDING" => rows[i].result = "FAIL"
  BY <1>5 DEF VerdictInv, VerdictTold, Inspection, InspectionResult
<1>7. PendingFailures(l) \subseteq {Len(rows)}
  BY DEF QualityInv, OneUndecidedFailure
<1>8. PendingFailures(l) # {} <=> rows # <<>> /\ rows[Len(rows)].disposition = "PENDING"
  <2> HIDE DEF seen
  <2>1. PendingFailures(l) = {i \in DOMAIN rows : rows[i].disposition = "PENDING"}
    BY <1>6 DEF PendingFailures
  <2> HIDE DEF rows
  <2>2. QED  BY <1>3, <1>7, <2>1
<1> HIDE DEF rows, seen
<1>9. QED  BY <1>1, <1>3, <1>4, <1>8 DEF rows

LEMMA SeesReworks ==
  ASSUME NEW l \in Lots
  PROVE  {i \in DOMAIN verdictsOf[l] : verdictsOf[l][i].disposition = "REWORK"} = Reworks(l)
BY DEF verdictsOf, Verdicts, Reworks

LEMMA VerdictAdded ==
  ASSUME NEW rows \in Seq(Inspection), NEW row \in Inspection
  PROVE  Verdicts(Append(rows, row)) =
           Append(Verdicts(rows), [result |-> row.result, disposition |-> row.disposition])
<1> DEFINE new == Append(rows, row)
           T == [result : InspectionResult, disposition : QualityDisposition]
           v == [result |-> row.result, disposition |-> row.disposition]
           old == Verdicts(rows)
<1>1. /\ Len(rows) \in Nat /\ DOMAIN rows = 1 .. Len(rows) /\ DOMAIN new = 1 .. Len(rows) + 1
      /\ \A i \in DOMAIN new : new[i] = IF i \in DOMAIN rows THEN rows[i] ELSE row
  OBVIOUS
<1>2. \A i \in DOMAIN rows : rows[i] \in Inspection  OBVIOUS
<1>3. v \in T /\ \A i \in DOMAIN rows :
        [result |-> rows[i].result, disposition |-> rows[i].disposition] \in T
  BY <1>2 DEF Inspection
<1>4. old \in [1 .. Len(rows) -> T]  BY <1>1, <1>3 DEF Verdicts
<1>5. old \in Seq(T) /\ Len(old) = Len(rows)
  <2> HIDE DEF old, T
  <2>1. QED  BY <1>1, <1>4
<1>6. Append(old, v) = [i \in 1 .. Len(rows) + 1 |-> IF i \in DOMAIN rows THEN old[i] ELSE v]
  <2>1. v \in T  BY <1>3
  <2> HIDE DEF old, v, T
  <2>2. Append(old, v) = [i \in 1 .. Len(old) + 1 |-> IF i = Len(old) + 1 THEN v ELSE old[i]]
    <3> DEFINE app == Append(old, v)
    <3>1. /\ app \in Seq(T) /\ Len(app) = Len(old) + 1 /\ Len(old) \in Nat
          /\ \A i \in 1 .. Len(old) : app[i] = old[i]
          /\ app[Len(old) + 1] = v
      BY <1>5, <2>1, AppendProperties
    <3> HIDE DEF app
    <3>2. app \in [1 .. Len(old) + 1 -> T]  BY <3>1
    <3>3. app = [i \in 1 .. Len(old) + 1 |-> IF i = Len(old) + 1 THEN v ELSE old[i]]
      BY <3>1, <3>2
    <3>4. QED  BY <3>3 DEF app
  <2>3. \A i \in 1 .. Len(rows) + 1 : i = Len(rows) + 1 <=> i \notin DOMAIN rows
    BY <1>1
  <2>4. QED  BY <1>1, <1>5, <2>2, <2>3
<1>7. Verdicts(new) = [i \in 1 .. Len(rows) + 1 |-> IF i \in DOMAIN rows THEN old[i] ELSE v]
  <2> HIDE DEF new
  <2>1. QED  BY <1>1 DEF Verdicts
<1>8. QED  BY <1>6, <1>7

LEMMA FunctionUpdated ==
  ASSUME NEW S, NEW f, f = [m \in S |-> f[m]], NEW l \in S, NEW v
  PROVE  [m \in S |-> IF m = l THEN v ELSE f[m]] = [f EXCEPT ![l] = v]
OBVIOUS

LEMMA VerdictsNext == verdictsOf' = [m \in Lots |-> Verdicts(inspections'[m])]
BY DEF verdictsOf, Verdicts

LEMMA SeesInspection ==
  ASSUME Typed, NEW l \in Lots, NEW row \in Inspection,
         inspections' = [inspections EXCEPT ![l] = Append(inspections[l], row)]
  PROVE  verdictsOf' = [verdictsOf EXCEPT ![l] =
           Append(verdictsOf[l], [result |-> row.result, disposition |-> row.disposition])]
<1> DEFINE new == Append(inspections[l], row)
<1>1. inspections[l] \in Seq(Inspection)  BY DEF Typed, TypeOK
<1>2. \A m \in Lots : inspections'[m] = IF m = l THEN new ELSE inspections[m]
  BY DEF Typed, TypeOK
<1>3. verdictsOf[l] = Verdicts(inspections[l])  BY DEF verdictsOf
<1>4. Verdicts(new) =
        Append(verdictsOf[l], [result |-> row.result, disposition |-> row.disposition])
  BY <1>1, <1>3, VerdictAdded
<1> HIDE DEF new
<1> DEFINE v == Append(verdictsOf[l], [result |-> row.result, disposition |-> row.disposition])
<1>5. verdictsOf = [m \in Lots |-> verdictsOf[m]] /\ \A m \in Lots : verdictsOf[m] = Verdicts(inspections[m])
  BY DEF verdictsOf
<1>6. [m \in Lots |-> Verdicts(inspections'[m])] = [m \in Lots |-> IF m = l THEN v ELSE verdictsOf[m]]
  <2> HIDE DEF v
  <2>1. \A m \in Lots : Verdicts(inspections'[m]) = IF m = l THEN v ELSE verdictsOf[m]
    BY <1>2, <1>4, <1>5 DEF v
  <2>2. QED  BY <2>1
<1>7. QED  BY <1>5, <1>6, VerdictsNext, FunctionUpdated

Decided(rows, n, d) == [rows EXCEPT ![n].disposition = d]

LEMMA VerdictChanged ==
  ASSUME NEW rows \in Seq(Inspection), NEW n \in DOMAIN rows, NEW d
  PROVE  Verdicts(Decided(rows, n, d)) = Decided(Verdicts(rows), n, d)
<1> DEFINE new == [rows EXCEPT ![n].disposition = d]
<1>1. DOMAIN new = DOMAIN rows  OBVIOUS
<1>2. \A i \in DOMAIN rows : i # n => new[i] = rows[i]  OBVIOUS
<1>3. rows[n] \in Inspection  OBVIOUS
<1>4. new[n] = [rows[n] EXCEPT !.disposition = d]  OBVIOUS
<1>5. new[n].result = rows[n].result /\ new[n].disposition = d
  BY <1>3, <1>4 DEF Inspection
<1>6. Decided(rows, n, d) = new  BY DEF Decided
<1> HIDE DEF new
<1>7. QED  BY <1>1, <1>2, <1>5, <1>6 DEF Verdicts, Decided

LEMMA SeesDecision ==
  ASSUME Typed, NEW l \in Lots, NEW n \in DOMAIN inspections[l], NEW d,
         inspections' = [inspections EXCEPT ![l] = Decided(inspections[l], n, d)]
  PROVE  verdictsOf' = [verdictsOf EXCEPT ![l] = Decided(verdictsOf[l], n, d)]
<1> DEFINE new == Decided(inspections[l], n, d)
<1>1. inspections[l] \in Seq(Inspection)  BY DEF Typed, TypeOK
<1>2. \A m \in Lots : inspections'[m] = IF m = l THEN new ELSE inspections[m]
  BY DEF Typed, TypeOK
<1>3. verdictsOf[l] = Verdicts(inspections[l])  BY DEF verdictsOf
<1>4. Verdicts(new) = Decided(Verdicts(inspections[l]), n, d)  BY <1>1, VerdictChanged
<1> DEFINE v == Decided(verdictsOf[l], n, d)
<1> HIDE DEF new
<1>5. Verdicts(new) = v  BY <1>3, <1>4
<1>6. verdictsOf = [m \in Lots |-> verdictsOf[m]] /\ \A m \in Lots : verdictsOf[m] = Verdicts(inspections[m])
  BY DEF verdictsOf
<1>7. [m \in Lots |-> Verdicts(inspections'[m])] = [m \in Lots |-> IF m = l THEN v ELSE verdictsOf[m]]
  <2> HIDE DEF v
  <2>1. \A m \in Lots : Verdicts(inspections'[m]) = IF m = l THEN v ELSE verdictsOf[m]
    BY <1>2, <1>5, <1>6 DEF v
  <2>2. QED  BY <2>1
<1>8. verdictsOf' = [verdictsOf EXCEPT ![l] = v]
  <2> HIDE DEF v
  <2>1. QED  BY <1>6, <1>7, VerdictsNext, FunctionUpdated
<1>9. QED  BY <1>8

-----------------------------------------------------------------------------

LEMMA CreateIsStep ==
  ASSUME Typed, VerdictInv, NEW l \in Lots, InsertLot(l)
  PROVE  Protocol!Create(l)
<1>1. lot[l].status = Absent /\ lot[l].step = 0
  BY DEF InsertLot, VerdictInv, VerdictTold
<1>2. /\ statusOf[l] = "ABSENT" /\ statusOf' = [statusOf EXCEPT ![l] = "WAITING"]
      /\ stepOf' = stepOf
  BY <1>1, SeesRow, SameSteps DEF InsertLot, Absent
<1>3. verdictsOf' = verdictsOf  BY SeesNoInspection DEF InsertLot
<1>4. QED
  BY <1>2, <1>3 DEF Protocol!Create, Protocol!Moves, statusOf, stepOf, verdictsOf, Verdicts

LEMMA HoldIsStep ==
  ASSUME Typed, JournalInv, NEW c \in Clients, CommitHold(c)
  PROVE  \E l \in Lots : Protocol!Hold(l)
<1>1. PICK l \in Lots :
        /\ lot[l].status \in {"WAITING", "PROCESSING"}
        /\ SetLot(l, "HOLD", lot[l].step) /\ UNCHANGED inspections
  BY HoldEffect
<1>2. /\ statusOf[l] \in {"WAITING", "PROCESSING"}
      /\ statusOf' = [statusOf EXCEPT ![l] = "HOLD"] /\ stepOf' = stepOf
  BY <1>1, SeesRow, SameSteps
<1>3. verdictsOf' = verdictsOf  BY <1>1, SeesNoInspection
<1>4. Protocol!Hold(l)
  BY <1>2, <1>3 DEF Protocol!Hold, Protocol!Moves, statusOf, stepOf, verdictsOf, Verdicts
<1>5. QED  BY <1>1, <1>4

LEMMA DispatchIsStep ==
  ASSUME Typed, JournalInv, NEW c \in Clients, CommitDispatch(c)
  PROVE  \E l \in Lots : Protocol!RunStep(l)
<1>1. PICK l \in Lots :
        /\ lot[l].status \in Advanceable
        /\ lot[l].step \in Nat /\ lot[l].step < RouteLength
        /\ TransitionAllowed(lot[l].status, StatusAfterStep(lot[l].step))
        /\ SetLot(l, StatusAfterStep(lot[l].step), lot[l].step + 1)
        /\ UNCHANGED inspections
  BY DispatchEffect
<1> DEFINE next == IF stepOf[l] + 1 = RouteLength THEN "QUALITY_HOLD" ELSE "PROCESSING"
<1>2. /\ statusOf[l] = lot[l].status /\ stepOf[l] = lot[l].step
      /\ statusOf' = [statusOf EXCEPT ![l] = StatusAfterStep(lot[l].step)]
      /\ stepOf' = [stepOf EXCEPT ![l] = stepOf[l] + 1]
  BY <1>1, SeesRow
<1>3. StatusAfterStep(lot[l].step) = next
  BY <1>1, <1>2, TablesAssumption DEF StatusAfterStep
<1>4. verdictsOf' = verdictsOf  BY <1>1, SeesNoInspection
<1>5. Protocol!TransitionAllowed(statusOf[l], next)
  BY <1>1, <1>2, <1>3
  DEF TransitionAllowed, Protocol!TransitionAllowed, ALLOWED_LOT_TRANSITIONS,
      Protocol!ALLOWED_LOT_TRANSITIONS
<1>6. statusOf[l] \in Protocol!Advanceable /\ stepOf[l] < RouteLength
  BY <1>1, <1>2 DEF Advanceable, Protocol!Advanceable
<1>7. statusOf' = [statusOf EXCEPT ![l] = next]  BY <1>2, <1>3
<1>8. Protocol!RunStep(l)
  BY <1>2, <1>4, <1>5, <1>6, <1>7
  DEF Protocol!RunStep, Protocol!Moves, statusOf, stepOf, verdictsOf, Verdicts
<1>9. QED  BY <1>1, <1>8

LEMMA ReleaseIsStep ==
  ASSUME Typed, NEW c \in Clients, CommitReworkRelease(c)
  PROVE  \E l \in Lots : \E s \in 0 .. RouteLength - 1 : Protocol!Reenter(l, s)
<1>1. PICK l \in Lots, s \in Steps :
        /\ lot[l].status = "REWORK"
        /\ SetLot(l, "WAITING", s) /\ UNCHANGED inspections
  BY ReleaseEffect
<1>2. /\ statusOf[l] = "REWORK" /\ statusOf' = [statusOf EXCEPT ![l] = "WAITING"]
      /\ stepOf' = [stepOf EXCEPT ![l] = s]
  BY <1>1, SeesRow
<1>3. verdictsOf' = verdictsOf  BY <1>1, SeesNoInspection
<1>4. Protocol!Reenter(l, s)
  BY <1>2, <1>3 DEF Protocol!Reenter, Protocol!Moves, statusOf, stepOf, verdictsOf, Verdicts
<1>5. QED  BY <1>1, <1>4 DEF Steps

LEMMA InspectionIsStep ==
  ASSUME Typed, QualityInv, VerdictInv, NEW c \in Clients, CommitInspection(c)
  PROVE  \E l \in Lots : Protocol!Pass(l) \/ Protocol!Fail(l)
<1> DEFINE result == req[c].result
           disposition == IF result = "PASS" THEN "NONE" ELSE "PENDING"
           row == [attempt     |-> req[c].attempt,
                   result      |-> result,
                   disposition |-> disposition,
                   tool        |-> req[c].tool]
           v == [result |-> result, disposition |-> disposition]
<1>1. PICK l \in Lots :
        /\ lot[l].status = "QUALITY_HOLD" /\ result \in InspectionResult
        /\ PendingFailures(l) = {}
        /\ SetLot(l, IF result = "PASS" THEN "DONE" ELSE "QUALITY_HOLD", lot[l].step)
        /\ inspections' = [inspections EXCEPT ![l] = Append(inspections[l], row)]
  BY InspectionEffect
<1>2. row \in Inspection
  <2>1. req[c] \in Request /\ req[c].pc = "inspect"
    BY CommitOnSeen DEF LotCommit, CommitInspection
  <2>2. req[c].attempt \in Nat \ {0} /\ req[c].tool \in Tools \cup {NoTool}
    BY <2>1, RequestFields
  <2>3. QED  BY <1>1, <2>2 DEF Inspection, QualityDisposition
<1>3. verdictsOf' = [verdictsOf EXCEPT ![l] = Append(verdictsOf[l], v)]
  <2>1. row.result = result /\ row.disposition = disposition  OBVIOUS
  <2> HIDE DEF row, result, disposition
  <2>2. QED  BY <1>1, <1>2, <2>1, SeesInspection
<1> HIDE DEF result, row
<1>4. ~ Protocol!Undecided(l)
  BY <1>1, SeesUndecided
  DEF Protocol!Undecided, Protocol!Newest, verdictsOf, Verdicts
<1>5. CASE result = "PASS"
  <2>1. v = Protocol!Verdict("PASS", "NONE")  BY <1>5 DEF Protocol!Verdict
  <2>2. /\ statusOf[l] = "QUALITY_HOLD" /\ statusOf' = [statusOf EXCEPT ![l] = "DONE"]
        /\ stepOf' = stepOf
    BY <1>1, <1>5, SeesRow, SameSteps
  <2> HIDE DEF v
  <2>3. Protocol!Pass(l)
    BY <1>3, <1>4, <2>1, <2>2
    DEF Protocol!Pass, Protocol!Moves, statusOf, stepOf, verdictsOf, Verdicts
  <2>4. QED  BY <1>1, <2>3
<1>6. CASE result # "PASS"
  <2>1. v = Protocol!Verdict("FAIL", "PENDING")
    BY <1>1, <1>6 DEF Protocol!Verdict, InspectionResult
  <2>2. statusOf[l] = "QUALITY_HOLD" /\ statusOf' = statusOf /\ stepOf' = stepOf
    BY <1>1, <1>6, SeesRow, SameSteps, SameStatus
  <2> HIDE DEF v
  <2>3. Protocol!Fail(l)
    BY <1>3, <1>4, <2>1, <2>2
    DEF Protocol!Fail, statusOf, stepOf, verdictsOf, Verdicts
  <2>4. QED  BY <1>1, <2>3
<1>7. QED  BY <1>5, <1>6

LEMMA DispositionIsStep ==
  ASSUME Typed, QualityInv, VerdictInv, NEW c \in Clients, CommitDisposition(c)
  PROVE  \E l \in Lots : Protocol!Scrap(l) \/ Protocol!Rework(l)
<1>1. PICK l \in Lots, d \in Dispositions, n \in Nat :
        /\ lot[l].status = "QUALITY_HOLD"
        /\ d = "REWORK" => ReworkPermitted(l)
        /\ n = Len(inspections[l]) /\ n \in DOMAIN inspections[l]
        /\ PendingFailures(l) = {n}
        /\ SetLot(l, StatusAfter(d), lot[l].step)
        /\ inspections' = [inspections EXCEPT ![l] = Decided(inspections[l], n, d)]
  <2> DEFINE l == req[c].lot
             d == req[c].disposition
             n == Len(inspections[l])
  <2>1. /\ l \in Lots /\ d \in Dispositions
        /\ lot[l].status = "QUALITY_HOLD"
        /\ d = "REWORK" => ReworkPermitted(l)
        /\ n \in DOMAIN inspections[l] /\ PendingFailures(l) = {n}
        /\ SetLot(l, StatusAfter(d), lot[l].step)
        /\ inspections' = [inspections EXCEPT ![l] = Decided(inspections[l], n, d)]
    BY DispositionEffect DEF Decided
  <2>2. n \in Nat  BY <2>1 DEF Typed, TypeOK
  <2> HIDE DEF l, d
  <2>3. QED  BY <2>1, <2>2
<1>2. /\ statusOf[l] = "QUALITY_HOLD" /\ statusOf' = [statusOf EXCEPT ![l] = StatusAfter(d)]
      /\ stepOf' = stepOf
  BY <1>1, SeesRow, SameSteps
<1>3. verdictsOf' = [verdictsOf EXCEPT ![l][Len(verdictsOf[l])].disposition = d]
  <2>1. Len(verdictsOf[l]) = n  BY <1>1, SeesUndecided
  <2>2. verdictsOf' = [verdictsOf EXCEPT ![l] = Decided(verdictsOf[l], n, d)]
    BY <1>1, SeesDecision
  <2>3. QED  BY <1>1, <2>1, <2>2 DEF Decided
<1>4. Protocol!Undecided(l)
  BY <1>1, SeesUndecided
  DEF Protocol!Undecided, Protocol!Newest, verdictsOf, Verdicts
<1>5. Protocol!Decide(l, d, StatusAfter(d))
  BY <1>2, <1>3, <1>4
  DEF Protocol!Decide, Protocol!Moves, statusOf, stepOf, verdictsOf, Verdicts
<1>6. CASE d = "SCRAP"
  BY <1>1, <1>5, <1>6 DEF StatusAfter, Protocol!Scrap
<1>7. CASE d = "REWORK"
  <2>1. Protocol!Reworked(l) = Cardinality(Reworks(l))
    <3>1. Protocol!Reworked(l) = Cardinality({i \in DOMAIN verdictsOf[l] :
                                               verdictsOf[l][i].disposition = "REWORK"})
      BY DEF Protocol!Reworked, Protocol!Cardinality, Cardinality, verdictsOf, Verdicts
    <3>2. QED  BY <1>1, <3>1, SeesReworks
  <2>2. Protocol!Reworked(l) < MaxReworkCycles
    BY <1>1, <1>7, <2>1 DEF ReworkPermitted
  <2>3. QED  BY <1>1, <1>5, <1>7, <2>2 DEF StatusAfter, Protocol!Rework
<1>8. QED  BY <1>1, <1>6, <1>7 DEF Dispositions

LEMMA QuietForProtocol ==
  ASSUME UNCHANGED lotTables
  PROVE  UNCHANGED Protocol!protocolVars
<1>1. statusOf' = statusOf /\ stepOf' = stepOf /\ verdictsOf' = verdictsOf
  BY DEF lotTables, statusOf, stepOf, verdictsOf
<1>2. QED  BY <1>1 DEF Protocol!protocolVars, statusOf, stepOf, verdictsOf, Verdicts

LEMMA StepOfProtocol ==
  ASSUME Typed, QualityInv, JournalInv, VerdictInv, [Next]_vars
  PROVE  [Protocol!Next]_(Protocol!protocolVars)
<1>1. CASE UNCHANGED lotTables  BY <1>1, QuietForProtocol
<1>2. ASSUME NEW l \in Lots, InsertLot(l)
      PROVE  Protocol!Next
  BY <1>2, CreateIsStep DEF Protocol!Next
<1>3. ASSUME NEW c \in Clients, LotCommit(c)
      PROVE  Protocol!Next
  BY <1>3, HoldIsStep, DispatchIsStep, ReleaseIsStep, InspectionIsStep, DispositionIsStep
  DEF LotCommit, Protocol!Next
<1>4. QED  BY <1>1, <1>2, <1>3, LotWrites

LEMMA StartOfProtocol == Init => Protocol!Init
BY DEF Init, Protocol!Init, Absent

\* The lot commands are atomic: for any number of clients, whose snapshots are
\* as old as they may be, each commit of advance_lot, inspect_lot,
\* disposition_lot and release_rework is one step of LotProtocol on the lot's
\* current state, and every other step is invisible to it.
THEOREM CommandsAtomic == Spec => CommandsAreAtomic
<1>1. Typed /\ QualityInv /\ JournalInv /\ VerdictInv /\ [Next]_vars =>
        VerdictInv' /\ [Protocol!Next]_(Protocol!protocolVars)
  BY StepOfProtocol, NextVerdict
<1>2. QED
  BY <1>1, StartOfProtocol, InitTyped, NextTyped, InitQuality, NextQuality, InitJournal,
     NextJournal, InitVerdict, PTL
  DEF Spec, CommandsAreAtomic, Protocol!Spec

-----------------------------------------------------------------------------
(* The tool an inspection blames.                                          *)

RunOfInspect(e) == e.type = "PROCESS_COMPLETED" /\ e.step = LastStep

LEMMA RunsKept ==
  ASSUME NEW ev \in Seq(LotEvent), NEW e \in LotEvent, ~ RunOfInspect(e)
  PROVE  Runs(Append(ev, e)) = Runs(ev) /\ RunTool(Append(ev, e)) = RunTool(ev)
<1> DEFINE new == Append(ev, e)
<1>1. /\ Len(ev) \in Nat /\ DOMAIN ev = 1 .. Len(ev) /\ DOMAIN new = 1 .. Len(ev) + 1
      /\ new[Len(ev) + 1] = e /\ \A i \in DOMAIN ev : new[i] = ev[i]
  OBVIOUS
<1> HIDE DEF new
<1>2. Runs(new) = Runs(ev)  BY <1>1 DEF Runs, RunOfInspect
<1>3. ASSUME Runs(ev) # {}
      PROVE  new[Max(Runs(ev))] = ev[Max(Runs(ev))]
  <2>1. Runs(ev) \in SUBSET (1 .. Len(ev))  BY <1>1 DEF Runs
  <2>2. Max(Runs(ev)) \in DOMAIN ev  BY <1>1, <1>3, <2>1, MaxIndex
  <2>3. QED  BY <1>1, <2>2
<1>4. QED  BY <1>2, <1>3 DEF RunTool, new

LEMMA RunRecorded ==
  ASSUME NEW ev \in Seq(LotEvent), NEW e \in LotEvent, RunOfInspect(e)
  PROVE  Runs(Append(ev, e)) # {}
<1>1. /\ Len(ev) + 1 \in DOMAIN Append(ev, e)
      /\ Append(ev, e)[Len(ev) + 1] = e
  OBVIOUS
<1>2. QED  BY <1>1 DEF Runs, RunOfInspect

LEMMA ToolOfLastRun ==
  ASSUME NEW l \in Lots
  PROVE  LastInspectTool(l) = RunTool(events[l])
BY DEF LastInspectTool, InspectRuns, Runs, RunTool

LEMMA BlameRead ==
  ASSUME Typed, BlameInv, NEW c \in Clients, NEW r, BlameFits(r),
         Becomes(c, r), UNCHANGED lotTables
  PROVE  BlameInv'
<1>1. UNCHANGED <<lot, events, inspections>>  BY DEF lotTables
<1>2. \A d \in Clients : BlameFits(req'[d])
  BY DEF Typed, TypeOK, BlameInv, Becomes
<1>3. \A d \in Clients : BlameFits(req[d])'  BY <1>1, <1>2 DEF BlameFits
<1>4. QED  BY <1>1, <1>3 DEF BlameInv

\* A write makes what was read of the lot stale.
LEMMA BlameWrite ==
  ASSUME Typed, QualityInv, BlameInv, NEW c \in Clients, Answers(c) \/ UNCHANGED req,
         NEW l \in Lots, NEW s, NEW k, SetLot(l, s, k),
         NEW ev, events' = [events EXCEPT ![l] = ev],
         NEW rows, inspections' = [inspections EXCEPT ![l] = rows],
         BlameTold(ev, rows, s)
  PROVE  BlameInv'
<1>1. /\ lot'[l].status = s /\ lot'[l].stamp = lot[l].stamp + 1
      /\ events'[l] = ev /\ inspections'[l] = rows
      /\ \A m \in Lots \ {l} : /\ lot'[m] = lot[m] /\ events'[m] = events[m]
                               /\ inspections'[m] = inspections[m]
  BY RowWritten DEF Typed, TypeOK
<1>2. \A m \in Lots : BlameTold(events'[m], inspections'[m], lot'[m].status)
  BY <1>1 DEF BlameInv
<1>3. ASSUME NEW d \in Clients
      PROVE  BlameFits(req[d])'
  <2>1. req'[d] = req[d] \/ req'[d] = Idle  BY DEF Typed, TypeOK, Answers, Becomes
  <2>2. CASE req'[d].pc \notin {"number", "inspect"}  BY <2>2 DEF BlameFits
  <2>3. CASE req'[d] = req[d] /\ req[d].pc \in {"number", "inspect"}
    <3> DEFINE r == req[d]
    <3>1. /\ r \in Request /\ r.pc \in LotCalls /\ Fresh(r) /\ BlameFits(r)
      BY <2>3 DEF Typed, TypeOK, QualityInv, AllFresh, BlameInv, LotCalls
    <3>2. /\ r.lot \in Lots /\ r.seen.stamp \in Nat /\ lot[r.lot].stamp \in Nat
          /\ r.seen.stamp <= lot[r.lot].stamp
      BY <3>1, LotCallFields DEF Typed, TypeOK, LotRow, Fresh
    <3>3. CASE r.lot = l
      <4>1. r.seen.stamp # lot'[r.lot].stamp  BY <1>1, <3>2, <3>3
      <4>2. QED  BY <2>3, <4>1 DEF BlameFits
    <3>4. CASE r.lot # l
      <4>1. lot'[r.lot] = lot[r.lot] /\ events'[r.lot] = events[r.lot]
        BY <1>1, <3>2, <3>4
      <4>2. QED  BY <2>3, <3>1, <4>1 DEF BlameFits
    <3>5. QED  BY <3>3, <3>4
  <2>4. Idle.pc \notin {"number", "inspect"}  BY DEF Idle
  <2>5. QED  BY <2>1, <2>2, <2>3, <2>4
<1>4. QED  BY <1>2, <1>3 DEF BlameInv

\* Before the route is run to its end, the newest inspection says REWORK.
LEMMA NoBlameYet ==
  ASSUME Typed, VerdictInv, NEW l \in Lots, lot[l].status \in Advanceable \cup {Absent, "REWORK"},
         NEW ev, NEW s, s # "REWORK", s \in Advanceable \/ Runs(ev) # {}
  PROVE  BlameTold(ev, inspections[l], s)
<1> DEFINE rows == inspections[l]
<1>1. rows # <<>> => rows[Len(rows)].disposition = "REWORK"
  BY DEF VerdictInv, VerdictTold
<1> HIDE DEF rows
<1>2. BlameTold(ev, rows, s)  BY <1>1 DEF BlameTold
<1>3. QED  BY <1>2 DEF rows

LEMMA SameInspections ==
  ASSUME Typed, UNCHANGED inspections, NEW l \in Lots
  PROVE  inspections' = [inspections EXCEPT ![l] = inspections[l]]
BY DEF Typed, TypeOK

LEMMA InsertBlame ==
  ASSUME Typed, QualityInv, VerdictInv, BlameInv, NEW c \in Clients, UNCHANGED req,
         NEW l \in Lots, InsertLot(l)
  PROVE  BlameInv'
<1> DEFINE ev == Append(events[l], Event("LOT_CREATED", NoStatus, "WAITING", NoStep, NoTool))
<1>1. lot[l].status = Absent /\ SetLot(l, "WAITING", 0) /\ UNCHANGED inspections
      /\ events' = [events EXCEPT ![l] = ev]
  BY DEF InsertLot, AppendLotEvent
<1> HIDE DEF ev
<1>2. BlameTold(ev, inspections[l], "WAITING")  BY <1>1, NoBlameYet DEF Advanceable
<1>3. QED  BY <1>1, <1>2, SameInspections, BlameWrite

LEMMA HoldBlame ==
  ASSUME Typed, QualityInv, JournalInv, VerdictInv, BlameInv,
         NEW c \in Clients, CommitHold(c)
  PROVE  BlameInv'
<1> DEFINE e == Event("LOT_HELD", req[c].seen.status, "HOLD", req[c].seen.step, NoTool)
<1>1. PICK l \in Lots :
        /\ l = req[c].lot /\ lot[l].status \in {"WAITING", "PROCESSING"}
        /\ SetLot(l, "HOLD", lot[l].step) /\ UNCHANGED inspections
  BY HoldEffect
<1> DEFINE ev == Append(events[l], e)
<1>2. events' = [events EXCEPT ![l] = ev] /\ Answers(c)
  BY <1>1 DEF CommitHold, AppendLotEvent
<1> HIDE DEF ev
<1>3. BlameTold(ev, inspections[l], "HOLD")  BY <1>1, NoBlameYet DEF Advanceable
<1>4. QED  BY <1>1, <1>2, <1>3, SameInspections, BlameWrite

LEMMA ReleaseBlame ==
  ASSUME Typed, QualityInv, VerdictInv, BlameInv,
         NEW c \in Clients, CommitReworkRelease(c)
  PROVE  BlameInv'
<1> DEFINE e == Event("LOT_REWORK_RELEASED", "REWORK", "WAITING", req[c].step, NoTool)
<1>1. PICK l \in Lots :
        /\ l = req[c].lot /\ lot[l].status = "REWORK"
        /\ SetLot(l, "WAITING", req[c].step) /\ UNCHANGED inspections
  BY ReleaseEffect
<1> DEFINE ev == Append(events[l], e)
<1>2. events' = [events EXCEPT ![l] = ev] /\ Answers(c)
  BY <1>1 DEF CommitReworkRelease, AppendLotEvent
<1> HIDE DEF ev
<1>3. BlameTold(ev, inspections[l], "WAITING")  BY <1>1, NoBlameYet DEF Advanceable
<1>4. QED  BY <1>1, <1>2, <1>3, SameInspections, BlameWrite

\* The dispatch that takes a lot to QUALITY_HOLD is a run of INSPECT.
LEMMA DispatchBlame ==
  ASSUME Typed, QualityInv, JournalInv, VerdictInv, BlameInv,
         NEW c \in Clients, CommitDispatch(c)
  PROVE  BlameInv'
<1> DEFINE r == req[c]
           s == StatusAfterStep(r.seen.step)
           ev == DispatchEvents(r.lot, r.seen, r.tool)
<1>1. /\ r \in Request /\ r.lot \in Lots /\ r.seen \in LotRow /\ SnapshotFits(r)
      /\ lot[r.lot].status = r.seen.status /\ r.pc = "dispatch" /\ Answers(c)
  BY CommitOnSeen DEF LotCommit, CommitDispatch
<1>2. r.tool \in Tools /\ r.seen.status \in Advanceable /\ r.seen.step < RouteLength
  BY <1>1, RequestFields DEF SnapshotFits
<1>3. r.seen.step \in Steps  BY <1>1, <1>2, TablesAssumption DEF LotRow, Steps
<1>4. s = "QUALITY_HOLD" => r.seen.step = LastStep
  BY <1>2, <1>3, TablesAssumption DEF StatusAfterStep, Steps, LastStep
<1>5. s \in {"PROCESSING", "QUALITY_HOLD"}  BY DEF StatusAfterStep
<1>6. s = "QUALITY_HOLD" => Runs(ev) # {}
  <2> DEFINE released == Event("LOT_RELEASED_FROM_HOLD", "HOLD", "PROCESSING", r.seen.step, r.tool)
             from == IF r.seen.status = "HOLD" THEN "PROCESSING" ELSE r.seen.status
             completed == Event("PROCESS_COMPLETED", from, s, r.seen.step, r.tool)
             before == IF r.seen.status = "HOLD" THEN Append(events[r.lot], released)
                                                 ELSE events[r.lot]
  <2>1. events[r.lot] \in Seq(LotEvent)  BY <1>1 DEF Typed, TypeOK
  <2>2. released \in LotEvent
    BY <1>2, <1>3 DEF Event, LotEvent, LotEventType, LotStatus
  <2>3. from \in LotStatus /\ s \in LotStatus  BY <1>2, <1>5 DEF LotStatus, Advanceable
  <2>4. completed \in LotEvent
    <3> HIDE DEF from, s
    <3>1. QED  BY <1>2, <1>3, <2>3 DEF Event, LotEvent, LotEventType
  <2>5. before \in Seq(LotEvent)
    <3> HIDE DEF released
    <3>1. QED  BY <2>1, <2>2
  <2>6. s = "QUALITY_HOLD" => RunOfInspect(completed)
    BY <1>4 DEF RunOfInspect, Event
  <2>7. ev = Append(before, completed)  BY DEF DispatchEvents
  <2> HIDE DEF before, completed, ev, s
  <2>8. QED  BY <2>4, <2>5, <2>6, <2>7, RunRecorded
<1>7. /\ SetLot(r.lot, s, r.seen.step + 1) /\ UNCHANGED inspections
      /\ events' = [events EXCEPT ![r.lot] = ev]
  BY DEF CommitDispatch
<1>8. PICK l \in Lots : l = r.lot  BY <1>1
<1> HIDE DEF ev, s
<1>9. BlameTold(ev, inspections[l], s)
  <2>1. lot[l].status \in Advanceable  BY <1>1, <1>2, <1>8
  <2>2. s # "REWORK" /\ (s \in Advanceable \/ Runs(ev) # {})
    BY <1>5, <1>6 DEF Advanceable
  <2>3. QED  BY <2>1, <2>2, NoBlameYet
<1>10. inspections' = [inspections EXCEPT ![l] = inspections[l]]
  BY <1>7, SameInspections
<1>11. QED  BY <1>1, <1>7, <1>8, <1>9, <1>10, BlameWrite

\* An inspection names the tool read of the journal, which has not grown since.
LEMMA InspectionBlame ==
  ASSUME Typed, QualityInv, VerdictInv, BlameInv,
         NEW c \in Clients, CommitInspection(c)
  PROVE  BlameInv'
<1> DEFINE r == req[c]
           row == [attempt     |-> r.attempt,
                   result      |-> r.result,
                   disposition |-> IF r.result = "PASS" THEN "NONE" ELSE "PENDING",
                   tool        |-> r.tool]
           s == IF r.result = "PASS" THEN "DONE" ELSE "QUALITY_HOLD"
           e == InspectionEvent(r.result, r.tool)
<1>1. PICK l \in Lots :
        /\ l = r.lot /\ lot[l].status = "QUALITY_HOLD" /\ r.result \in InspectionResult
        /\ r.seen.stamp = lot[l].stamp /\ SetLot(l, s, lot[l].step)
        /\ inspections' = [inspections EXCEPT ![l] = Append(inspections[l], row)]
  BY InspectionEffect
<1> DEFINE rows == Append(inspections[l], row)
           ev == Append(events[l], e)
<1>2. /\ r \in Request /\ r.pc = "inspect" /\ Answers(c)
      /\ events' = [events EXCEPT ![l] = ev]
  BY <1>1, CommitOnSeen DEF LotCommit, CommitInspection, AppendLotEvent
<1>3. r.attempt \in Nat \ {0} /\ r.tool \in Tools \cup {NoTool}  BY <1>2, RequestFields
<1>4. row \in Inspection  BY <1>1, <1>3 DEF Inspection, QualityDisposition
<1>5. rows[Len(rows)].tool = r.tool
  <2>1. inspections[l] \in Seq(Inspection)  BY DEF Typed, TypeOK
  <2>2. row.tool = r.tool  OBVIOUS
  <2> HIDE DEF row
  <2>3. rows[Len(rows)] = row  BY <1>4, <2>1, RowAdded
  <2> HIDE DEF rows
  <2>4. QED  BY <2>2, <2>3
<1>6. e \in LotEvent /\ ~ RunOfInspect(e)
  <2>1. LastStep \in Steps  BY TablesAssumption DEF LastStep, Steps
  <2>2. QED
    BY <1>3, <2>1 DEF InspectionEvent, Event, LotEvent, LotEventType, LotStatus, RunOfInspect
<1>7. Runs(ev) = Runs(events[l]) /\ RunTool(ev) = RunTool(events[l])
  <2>1. events[l] \in Seq(LotEvent)  BY DEF Typed, TypeOK
  <2> HIDE DEF e
  <2>2. QED  BY <1>6, <2>1, RunsKept
<1>8. r.tool = RunTool(events[l])
  BY <1>1, <1>2 DEF BlameInv, BlameFits
<1>9. Runs(events[l]) # {}
  BY <1>1 DEF BlameInv, BlameTold, Advanceable, Absent
<1>10. s # Absent  BY DEF Absent
<1> HIDE DEF rows, ev, s
<1>11. BlameTold(ev, rows, s)  BY <1>5, <1>7, <1>8, <1>9 DEF BlameTold
<1>12. inspections' = [inspections EXCEPT ![l] = rows]  BY <1>1 DEF rows
<1>13. QED  BY <1>1, <1>2, <1>11, <1>12, BlameWrite

LEMMA DispositionBlame ==
  ASSUME Typed, QualityInv, VerdictInv, BlameInv,
         NEW c \in Clients, CommitDisposition(c)
  PROVE  BlameInv'
<1> DEFINE r == req[c]
           old == inspections[r.lot]
           e == DispositionEvent(r.disposition, old[r.row].tool)
<1>1. PICK l \in Lots, n \in Nat :
        /\ l = r.lot /\ lot[l].status = "QUALITY_HOLD" /\ r.disposition \in Dispositions
        /\ n = Len(inspections[l]) /\ n \in DOMAIN inspections[l]
        /\ PendingFailures(l) = {n}
        /\ SetLot(l, StatusAfter(r.disposition), lot[l].step)
        /\ inspections' = [inspections EXCEPT ![l] =
                            Decided(inspections[l], n, r.disposition)]
  <2> DEFINE l == req[c].lot
             d == req[c].disposition
             n == Len(inspections[l])
  <2>1. /\ l \in Lots /\ d \in Dispositions
        /\ lot[l].status = "QUALITY_HOLD"
        /\ n \in DOMAIN inspections[l] /\ PendingFailures(l) = {n}
        /\ SetLot(l, StatusAfter(d), lot[l].step)
        /\ inspections' = [inspections EXCEPT ![l] = Decided(inspections[l], n, d)]
    BY DispositionEffect DEF Decided
  <2>2. n \in Nat  BY <2>1 DEF Typed, TypeOK
  <2>3. l = r.lot /\ d = r.disposition  OBVIOUS
  <2> HIDE DEF l, d
  <2>4. QED  BY <2>1, <2>2, <2>3
<1> DEFINE rows == Decided(inspections[l], n, r.disposition)
           ev == Append(events[l], e)
           s == StatusAfter(r.disposition)
<1>2. /\ r \in Request /\ SnapshotFits(r) /\ r.pc = "dispose" /\ Answers(c)
      /\ events' = [events EXCEPT ![l] = ev]
  BY <1>1, CommitOnSeen DEF LotCommit, CommitDisposition, AppendLotEvent
<1>3. inspections[l] \in Seq(Inspection)  BY DEF Typed, TypeOK
<1>4. rows # <<>> /\ Len(rows) = n /\ rows[n].tool = inspections[l][n].tool
  <2>1. Len(rows) = n /\ DOMAIN rows = DOMAIN inspections[l]
    BY <1>1, <1>3 DEF Decided
  <2>2. rows # <<>>  BY <1>1, <2>1
  <2>3. inspections[l][n] \in Inspection  BY <1>1, <1>3
  <2>4. rows[n] = [inspections[l][n] EXCEPT !.disposition = r.disposition]
    BY <1>1 DEF Decided
  <2>5. rows[n].tool = inspections[l][n].tool  BY <2>3, <2>4 DEF Inspection
  <2>6. QED  BY <2>1, <2>2, <2>5
<1>5. inspections[l][n].disposition = "PENDING" /\ inspections[l] # <<>>
  BY <1>1 DEF PendingFailures
<1>6. Runs(events[l]) # {} /\ inspections[l][n].tool = RunTool(events[l])
  BY <1>1, <1>5 DEF BlameInv, BlameTold, Advanceable, Absent
<1>7. e \in LotEvent /\ ~ RunOfInspect(e)
  <2>1. LastStep \in Steps  BY TablesAssumption DEF LastStep, Steps
  <2>2. old[r.row] \in Inspection  BY <1>1, <1>2, <1>3 DEF SnapshotFits
  <2>3. old[r.row].tool \in Tools \cup {NoTool}  BY <2>2 DEF Inspection
  <2> HIDE DEF old
  <2>4. QED
    BY <2>1, <2>3
    DEF DispositionEvent, StatusAfter, Event, LotEvent, LotEventType, LotStatus, RunOfInspect
<1>8. Runs(ev) = Runs(events[l]) /\ RunTool(ev) = RunTool(events[l])
  <2>1. events[l] \in Seq(LotEvent)  BY DEF Typed, TypeOK
  <2> HIDE DEF e
  <2>2. QED  BY <1>7, <2>1, RunsKept
<1> HIDE DEF rows, ev, s
<1>9. BlameTold(ev, rows, s)  BY <1>4, <1>6, <1>8 DEF BlameTold
<1>10. inspections' = [inspections EXCEPT ![l] = rows] /\ SetLot(l, s, lot[l].step)
  BY <1>1 DEF rows, s
<1>11. QED  BY <1>1, <1>2, <1>9, <1>10, BlameWrite

\* What a handler holds after a read of the database.
LEMMA ReadsBlame ==
  ASSUME Typed, BlameInv, NEW c \in Clients, UNCHANGED lotTables,
         LotStep(c) \/ EquipmentStep(c) \/ Abandon(c)
  PROVE  BlameInv'
<1> DEFINE r == req[c]
<1>1. ASSUME NEW s, s.pc \notin {"number", "inspect"}, Becomes(c, s)
      PROVE  BlameInv'
  BY <1>1, BlameRead DEF BlameFits
<1>2. CASE Answers(c)
  <2>1. Idle.pc \notin {"number", "inspect"}  BY DEF Idle
  <2>2. QED  BY <1>1, <1>2, <2>1 DEF Answers
<1>3. ASSUME NEW l \in Lots, ReceiveAdvance(c, l)  PROVE BlameInv'
  BY <1>1, <1>3 DEF ReceiveAdvance
<1>4. ASSUME NEW l \in Lots, NEW result \in InspectionResult, ReceiveInspection(c, l, result)
      PROVE  BlameInv'
  BY <1>1, <1>4 DEF ReceiveInspection
<1>5. ASSUME NEW l \in Lots, NEW d \in Dispositions, ReceiveDisposition(c, l, d)
      PROVE  BlameInv'
  BY <1>1, <1>5 DEF ReceiveDisposition
<1>6. ASSUME NEW l \in Lots, NEW step \in Steps, ReceiveReworkRelease(c, l, step)
      PROVE  BlameInv'
  BY <1>1, <1>6 DEF ReceiveReworkRelease
<1>7. CASE PickTool(c)
  <2>1. CASE ChooseTool(c, r)
    <3>1. PICK t : \/ Answers(c)
                   \/ Becomes(c, [pc |-> "dispatch", lot |-> r.lot, seen |-> r.seen,
                                  tool |-> t, toolSeen |-> tool[t]])
      BY <2>1 DEF ChooseTool
    <3>2. QED  BY <1>1, <1>2, <3>1
  <2>2. CASE NoToolFree(c, r)  BY <1>1, <1>2, <2>2 DEF NoToolFree
  <2>3. QED  BY <1>7, <2>1, <2>2 DEF PickTool
<1>8. CASE ReadPending(c)
  BY <1>1, <1>2, <1>8 DEF ReadPending
<1>9. CASE ReadLastProcess(c)
  <2> DEFINE s == [pc |-> "number", lot |-> r.lot, seen |-> r.seen, result |-> r.result,
                   tool |-> LastInspectTool(r.lot)]
  <2>1. r \in Request /\ r.pc = "blame"  BY <1>9 DEF ReadLastProcess, Typed, TypeOK
  <2>2. BlameFits(s)  BY <2>1, RequestFields, ToolOfLastRun DEF BlameFits
  <2>3. Becomes(c, s)  BY <1>9 DEF ReadLastProcess
  <2> HIDE DEF s
  <2>4. QED  BY <2>2, <2>3, BlameRead
<1>10. CASE ReadAttempts(c)
  <2> DEFINE s == [pc |-> "inspect", lot |-> r.lot, seen |-> r.seen, result |-> r.result,
                   tool |-> r.tool, attempt |-> NextAttempt(r.lot)]
  <2>1. BlameFits(s)  BY <1>10 DEF BlameFits, BlameInv, ReadAttempts
  <2>2. Becomes(c, s)  BY <1>10 DEF ReadAttempts
  <2> HIDE DEF s
  <2>3. QED  BY <2>1, <2>2, BlameRead
<1>11. CASE ReadFailure(c)
  <2> DEFINE s == [pc |-> IF r.disposition = "REWORK" THEN "cycles" ELSE "dispose",
                   lot |-> r.lot, seen |-> r.seen, disposition |-> r.disposition,
                   row |-> Max(PendingFailures(r.lot))]
  <2>1. s.pc \in {"cycles", "dispose"} /\ (Answers(c) \/ Becomes(c, s))
    BY <1>11 DEF ReadFailure
  <2>2. QED  BY <1>1, <1>2, <2>1
<1>12. CASE CountReworks(c)
  <2> DEFINE s == [r EXCEPT !.pc = "dispose"]
  <2>1. r \in Request /\ r.pc = "cycles"  BY <1>12 DEF CountReworks, Typed, TypeOK
  <2>2. s.pc = "dispose" /\ (Answers(c) \/ Becomes(c, s))
    BY <1>12, <2>1 DEF CountReworks, Request
  <2>3. QED  BY <1>1, <1>2, <2>2
<1>13. ASSUME NEW t \in Tools, NEW status \in Reports, ReceiveStatus(c, t, status)
       PROVE  BlameInv'
  <2>1. \E s : s.pc \in {"outage", "status"} /\ Becomes(c, s)  BY <1>13 DEF ReceiveStatus
  <2>2. QED  BY <1>1, <2>1
<1>14. CASE FindOutage(c)
  <2>1. \E s : s.pc = "status" /\ Becomes(c, s)  BY <1>14 DEF FindOutage
  <2>2. QED  BY <1>1, <2>1
<1>15. CASE LotCommit(c) \/ CommitStatus(c) \/ Abandon(c)
  BY <1>2, <1>15
  DEF LotCommit, CommitHold, CommitDispatch, CommitInspection, CommitDisposition,
      CommitReworkRelease, CommitStatus, Abandon
<1>16. QED
  BY <1>3, <1>4, <1>5, <1>6, <1>7, <1>8, <1>9, <1>10, <1>11, <1>12, <1>13, <1>14, <1>15
  DEF LotStep, EquipmentStep, LotCommit

LEMMA NextBlame ==
  ASSUME Typed, QualityInv, JournalInv, VerdictInv, BlameInv, [Next]_vars
  PROVE  BlameInv'
<1>1. CASE UNCHANGED vars
  BY <1>1 DEF vars, lotTables, BlameInv, BlameFits
<1>2. ASSUME NEW c \in Clients, WorkOrderStep(c)
      PROVE  BlameInv'
  <2>1. UNCHANGED req /\ (UNCHANGED lotTables \/ \E l \in Lots : InsertLot(l))
    BY <1>2
    DEF WorkOrderStep, CreateLot, CreateWorkOrder, ReleaseWorkOrder, CreateWorkOrderLot
  <2>2. CASE UNCHANGED <<lotTables, req>>
    BY <2>2 DEF lotTables, BlameInv, BlameFits
  <2>3. QED  BY <2>1, <2>2, InsertBlame
<1>3. ASSUME NEW c \in Clients, LotCommit(c)
      PROVE  BlameInv'
  BY <1>3, HoldBlame, DispatchBlame, ReleaseBlame, InspectionBlame, DispositionBlame
  DEF LotCommit
<1>4. ASSUME NEW c \in Clients, LotStep(c) \/ EquipmentStep(c) \/ Abandon(c), ~ LotCommit(c)
      PROVE  BlameInv'
  <2>1. UNCHANGED lotTables
    BY <1>4
    DEF LotCommit, LotStep, ReceiveAdvance, PickTool, ReceiveInspection, ReadPending,
        ReadLastProcess, ReadAttempts, ReceiveDisposition, ReadFailure, CountReworks,
        ReceiveReworkRelease, EquipmentStep, ReceiveStatus, FindOutage, CommitStatus, Abandon
  <2>2. QED  BY <1>4, <2>1, ReadsBlame
<1>5. QED  BY <1>1, <1>2, <1>3, <1>4 DEF Next

LEMMA InitBlame == Init => BlameInv
BY DEF Init, BlameInv, BlameTold, BlameFits, Idle, Absent, Advanceable

LEMMA BlameNamesLast == BlameInv => InspectionBlamesLastTool
<1> SUFFICES ASSUME BlameInv, NEW l \in Lots
             PROVE  LET rows == inspections[l] IN
                    /\ rows # <<>>
                    /\ rows[Len(rows)].disposition # "REWORK" \/ lot[l].status = "REWORK"
                    => /\ InspectRuns(l) # {}
                       /\ rows[Len(rows)].tool = events[l][Max(InspectRuns(l))].tool
  BY DEF InspectionBlamesLastTool
<1>1. BlameTold(events[l], inspections[l], lot[l].status)  BY DEF BlameInv
<1>2. InspectRuns(l) = Runs(events[l])  BY DEF InspectRuns, Runs
<1>3. QED  BY <1>1, <1>2 DEF BlameTold, RunTool

\* inspect_lot records the tool that ran INSPECT last, although it reads the
\* journal before the transaction that writes the inspection.
THEOREM LastToolBlamed == Spec => []InspectionBlamesLastTool
<1>1. BlameInv => InspectionBlamesLastTool  BY BlameNamesLast
<1>2. Typed /\ QualityInv /\ JournalInv /\ VerdictInv /\ BlameInv /\ [Next]_vars => BlameInv'
  BY NextBlame
<1>3. QED
  BY <1>1, <1>2, InitTyped, NextTyped, InitQuality, NextQuality, InitJournal, NextJournal,
     InitVerdict, NextVerdict, InitBlame, PTL DEF Spec

=============================================================================
