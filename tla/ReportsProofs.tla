--------------------------- MODULE ReportsProofs ----------------------------
(***************************************************************************)
(* What the reports compute, for any tools and any history.                *)
(*                                                                         *)
(* The clocks: the strengthening says what set_equipment_status keeps of a *)
(* tool's rows.  A tool that is down has one open row, the newest, no      *)
(* other tool has any, and every second that down_seconds grows by         *)
(* lengthens exactly one row.                                              *)
(*                                                                         *)
(* The anomalies: the statistics are folds over the peers, so first what   *)
(* the library's fold computes over any finite set; then the inequalities  *)
(* between mean, deviation and extremes that the two properties rest on.   *)
(***************************************************************************)
EXTENDS Reports, FiniteSetTheorems, WellFoundedInduction, TLAPS

USE DowntimeAssumption

Spent(row, now) == IF row.status \in {"RUN", "DOWN"} THEN now - row.since ELSE 0

\* What Stamped and Flushed make of a row.
LEMMA WrittenRow ==
  ASSUME NEW row \in EquipmentRow, NEW status \in {"RUN", "IDLE", "DOWN"},
         NEW now \in Nat, row.since <= now
  PROVE  /\ Stamped(Flushed(row, now), status, now) \in EquipmentRow
         /\ Stamped(Flushed(row, now), status, now).since = now
         /\ Stamped(Flushed(row, now), status, now).run
              + Stamped(Flushed(row, now), status, now).down
              = row.run + row.down + Spent(row, now)
<1> DEFINE f == Flushed(row, now)
           new == Stamped(f, status, now)
<1>1. /\ row.run \in Nat /\ row.down \in Nat /\ row.since \in Nat
      /\ row.status \in {"RUN", "IDLE", "DOWN"} /\ now - row.since \in Nat
  BY DEF EquipmentRow
<1>2. f \in EquipmentRow
  <2> DEFINE run == IF row.status = "RUN" THEN row.run + (now - row.since) ELSE row.run
             down == IF row.status = "DOWN" THEN row.down + (now - row.since) ELSE row.down
  <2>1. run \in Nat /\ down \in Nat  BY <1>1
  <2>2. f = [row EXCEPT !.run = run, !.down = down]  BY DEF Flushed
  <2> HIDE DEF run, down, f
  <2>3. QED  BY <2>1, <2>2 DEF EquipmentRow
<1>3. /\ f.run = IF row.status = "RUN" THEN row.run + (now - row.since) ELSE row.run
      /\ f.down = IF row.status = "DOWN" THEN row.down + (now - row.since) ELSE row.down
  BY <1>1 DEF Flushed, EquipmentRow
<1>4. f.run + f.down = row.run + row.down + Spent(row, now)
  BY <1>1, <1>3 DEF Spent
<1> HIDE DEF f
<1>5. new \in EquipmentRow /\ new.since = now /\ new.run = f.run /\ new.down = f.down
  BY <1>2 DEF Stamped, EquipmentRow
<1>6. QED  BY <1>4, <1>5 DEF f

\* A table of outages with one row more, or one row ended, is one again.
LEMMA RowOpened ==
  ASSUME NEW rows \in Seq(OutageRow), NEW now \in Nat
  PROVE  Append(rows, [started |-> now, ended |-> Open]) \in Seq(OutageRow)
<1>1. [started |-> now, ended |-> Open] \in OutageRow  BY DEF OutageRow
<1>2. QED  BY <1>1

LEMMA RowEnded ==
  ASSUME NEW rows \in Seq(OutageRow), NEW i \in DOMAIN rows, NEW now \in Nat
  PROVE  [rows EXCEPT ![i].ended = now] \in Seq(OutageRow)
<1>1. rows[i] \in OutageRow
  OBVIOUS
<1>2. [rows[i] EXCEPT !.ended = now] \in OutageRow  BY <1>1 DEF OutageRow
<1>3. QED  BY <1>2

\* The stretch since the last change has not been counted yet.
Counted(row) == row.run + row.down <= row.since /\ row.since <= clock

ClockInv == DownTypeOK /\ \A t \in Tools : Counted(eq[t])

LEMMA ClockInit == DownInit => ClockInv
BY DEF DownInit, ClockInv, DownTypeOK, Counted, EquipmentRow

LEMMA StatusWrite ==
  ASSUME ClockInv, NEW t \in Tools, NEW status \in {"RUN", "IDLE", "DOWN"},
         eq' = [eq EXCEPT ![t] = Stamped(Flushed(@, clock), status, clock)],
         UNCHANGED clock, outage' \in [Tools -> Seq(OutageRow)]
  PROVE  ClockInv'
<1> DEFINE new == Stamped(Flushed(eq[t], clock), status, clock)
<1>1. clock \in Nat /\ eq[t] \in EquipmentRow /\ Counted(eq[t])
  BY DEF ClockInv, DownTypeOK
<1>2. /\ new \in EquipmentRow
      /\ new.since = clock
      /\ new.run + new.down = eq[t].run + eq[t].down + Spent(eq[t], clock)
  BY <1>1, WrittenRow DEF Counted
<1>3. new.run + new.down <= new.since
  BY <1>1, <1>2 DEF Counted, EquipmentRow, Spent
<1>4. eq' = [eq EXCEPT ![t] = new] /\ eq \in [Tools -> EquipmentRow]
  BY DEF ClockInv, DownTypeOK
<1>5. DownTypeOK'
  BY <1>1, <1>2, <1>4 DEF DownTypeOK
<1>6. ASSUME NEW u \in Tools PROVE Counted(eq[u])'
  <2>1. CASE u = t
    <3>1. eq'[u] = new  BY <1>4, <2>1
    <3>2. QED  BY <1>1, <1>2, <1>3, <3>1 DEF Counted
  <2>2. CASE u # t
    <3>1. eq'[u] = eq[u]  BY <1>4, <2>2
    <3>2. QED  BY <3>1 DEF ClockInv, Counted
  <2>3. QED  BY <2>1, <2>2
<1>7. QED  BY <1>5, <1>6 DEF ClockInv

LEMMA OutagesTyped ==
  ASSUME ClockInv, NEW t \in Tools, NEW status, SetStatus(t, status)
  PROVE  outage' \in [Tools -> Seq(OutageRow)]
<1>1. clock \in Nat /\ outage \in [Tools -> Seq(OutageRow)]
  BY DEF ClockInv, DownTypeOK
<1>2. CASE outage' = [outage EXCEPT ![t] = Append(@, [started |-> clock, ended |-> Open])]
  BY <1>1, <1>2, RowOpened
<1>3. ASSUME NEW i \in LatestOpen(t), outage' = [outage EXCEPT ![t][i].ended = clock]
      PROVE  outage' \in [Tools -> Seq(OutageRow)]
  <2>1. i \in DOMAIN outage[t]  BY DEF LatestOpen, OpenRows
  <2>2. [outage[t] EXCEPT ![i].ended = clock] \in Seq(OutageRow)
    BY <1>1, <2>1, RowEnded
  <2>3. QED  BY <1>1, <1>3, <2>2
<1>4. CASE UNCHANGED outage
  BY <1>1, <1>4
<1>5. QED  BY <1>2, <1>3, <1>4 DEF SetStatus

LEMMA ClockStep == ClockInv /\ [DownNext]_downVars => ClockInv'
<1> SUFFICES ASSUME ClockInv, [DownNext]_downVars PROVE ClockInv'
  OBVIOUS
<1>1. ASSUME NEW t \in Tools, NEW status \in {"RUN", "IDLE", "DOWN"}, SetStatus(t, status)
      PROVE  ClockInv'
  BY <1>1, StatusWrite, OutagesTyped DEF SetStatus
<1>2. ASSUME NEW t \in Tools, Dispatch(t) PROVE ClockInv'
  <2>1. outage' \in [Tools -> Seq(OutageRow)]
    BY <1>2 DEF Dispatch, ClockInv, DownTypeOK
  <2>2. QED  BY <1>2, <2>1, StatusWrite DEF Dispatch
<1>3. CASE Tick
  <2>1. DownTypeOK'  BY <1>3 DEF Tick, ClockInv, DownTypeOK
  <2>2. \A t \in Tools : eq[t] \in EquipmentRow  BY DEF ClockInv, DownTypeOK
  <2>3. \A t \in Tools : Counted(eq[t])'
    BY <1>3, <2>2 DEF Tick, ClockInv, DownTypeOK, Counted, EquipmentRow
  <2>4. QED  BY <2>1, <2>3 DEF ClockInv
<1>4. CASE UNCHANGED downVars
  BY <1>4 DEF downVars, ClockInv, DownTypeOK, Counted
<1>5. QED  BY <1>1, <1>2, <1>3, <1>4 DEF DownNext

LEMMA CountedAddsUp == ClockInv => TimeAddsUp
<1> SUFFICES ASSUME ClockInv, NEW t \in Tools
             PROVE  EffectiveRun(t) + EffectiveDown(t) <= clock
  BY DEF TimeAddsUp
<1>1. clock \in Nat /\ eq[t] \in EquipmentRow /\ Counted(eq[t])
  BY DEF ClockInv, DownTypeOK
<1>2. QED  BY <1>1 DEF Counted, EquipmentRow, EffectiveRun, EffectiveDown

-----------------------------------------------------------------------------
(* The downtime rows.  While a tool is down its newest row is open, and no *)
(* other row ever is; only then does the clock lengthen a row.             *)

RowFits(row, now) ==
  /\ row.started <= now
  /\ row.ended # Open => row.started <= row.ended

RowsFit(t) ==
  /\ \A i \in DOMAIN outage[t] : RowFits(outage[t][i], clock)
  /\ eq[t].status = "DOWN" => outage[t] # <<>> /\ OpenRows(t) = {Len(outage[t])}
  /\ eq[t].status # "DOWN" => OpenRows(t) = {}
  /\ IsFiniteSet(SecondsOf(t))
  /\ EffectiveDown(t) = OutageSeconds(t)

OutageInv == ClockInv /\ \A t \in Tools : RowsFit(t)

LEMMA SecondsArePairs ==
  ASSUME NEW t, NEW p
  PROVE  p \in SecondsOf(t) <=>
           \E i \in DOMAIN outage[t] : \E s \in 1 .. Lasted(outage[t][i]) : p = <<i, s>>
BY DEF SecondsOf

LEMMA SecondsArePairsNext ==
  ASSUME NEW t, NEW p
  PROVE  p \in SecondsOf(t)' <=>
           \E i \in DOMAIN outage'[t] : \E s \in 1 .. Lasted(outage[t][i])' : p = <<i, s>>
BY DEF SecondsOf

\* A row that is opened or ended now has its length unchanged.
LEMMA SameSeconds ==
  ASSUME NEW t,
         DOMAIN outage[t] \subseteq DOMAIN outage'[t],
         \A i \in DOMAIN outage[t] : Lasted(outage[t][i])' = Lasted(outage[t][i]),
         \A i \in DOMAIN outage'[t] \ DOMAIN outage[t] : Lasted(outage[t][i])' = 0
  PROVE  SecondsOf(t)' = SecondsOf(t)
<1>1. \A s : s \notin 1 .. 0  OBVIOUS
<1>2. \A p : p \in SecondsOf(t)' <=> p \in SecondsOf(t)
  BY <1>1, SecondsArePairs, SecondsArePairsNext
<1>3. QED  BY <1>2

\* A second passes while the row n is open.
LEMMA OneSecondMore ==
  ASSUME NEW t, NEW n \in DOMAIN outage[t], outage'[t] = outage[t],
         Lasted(outage[t][n]) \in Nat,
         Lasted(outage[t][n])' = Lasted(outage[t][n]) + 1,
         \A i \in DOMAIN outage[t] \ {n} : Lasted(outage[t][i])' = Lasted(outage[t][i]),
         IsFiniteSet(SecondsOf(t))
  PROVE  /\ IsFiniteSet(SecondsOf(t))'
         /\ OutageSeconds(t)' = OutageSeconds(t) + 1
<1> DEFINE new == Lasted(outage[t][n]) + 1
<1>1. \A s : s \in 1 .. new <=> s \in 1 .. Lasted(outage[t][n]) \/ s = new
  OBVIOUS
<1>2. new \notin 1 .. Lasted(outage[t][n])  OBVIOUS
<1> HIDE DEF new
<1>3. \A p : p \in SecondsOf(t)' <=> p \in SecondsOf(t) \/ p = <<n, new>>
  BY <1>1, SecondsArePairs, SecondsArePairsNext DEF new
<1>4. <<n, new>> \notin SecondsOf(t)  BY <1>2, SecondsArePairs
<1>5. SecondsOf(t)' = SecondsOf(t) \cup {<<n, new>>}  BY <1>3
<1>6. PICK old : old = SecondsOf(t)  OBVIOUS
<1>7. PICK p : p = <<n, new>>  OBVIOUS
<1>8. IsFiniteSet(old \cup {p}) /\ Cardinality(old \cup {p}) = Cardinality(old) + 1
  BY <1>4, <1>6, <1>7, FS_AddElement
<1>9. QED  BY <1>5, <1>6, <1>7, <1>8 DEF OutageSeconds

LEMMA FlushedDown ==
  ASSUME NEW row \in EquipmentRow, NEW status \in {"RUN", "IDLE", "DOWN"},
         NEW now \in Nat, row.since <= now
  PROVE  LET new == Stamped(Flushed(row, now), status, now) IN
         /\ new.status = status /\ new.since = now /\ new.down \in Nat
         /\ new.down = row.down + (IF row.status = "DOWN" THEN now - row.since ELSE 0)
<1> DEFINE f == Flushed(row, now)
<1>1. /\ row.down \in Nat /\ row.since \in Nat /\ now - row.since \in Nat
  BY DEF EquipmentRow
<1>2. f.down = row.down + (IF row.status = "DOWN" THEN now - row.since ELSE 0)
  BY <1>1 DEF Flushed, EquipmentRow
<1>3. DOMAIN f = {"status", "run", "down", "since"}  BY DEF Flushed, EquipmentRow
<1> HIDE DEF f
<1>4. /\ Stamped(f, status, now).status = status /\ Stamped(f, status, now).since = now
      /\ Stamped(f, status, now).down = f.down
  BY <1>3 DEF Stamped
<1>5. QED  BY <1>1, <1>2, <1>4 DEF f

\* Writing a status changes neither what a tool was down nor its seconds.
LEMMA WriteKeepsSeconds ==
  ASSUME ClockInv, NEW t \in Tools, RowsFit(t), NEW status \in {"RUN", "IDLE", "DOWN"},
         eq' = [eq EXCEPT ![t] = Stamped(Flushed(@, clock), status, clock)],
         UNCHANGED clock, SecondsOf(t)' = SecondsOf(t)
  PROVE  /\ eq'[t].status = status
         /\ IsFiniteSet(SecondsOf(t))' /\ EffectiveDown(t)' = OutageSeconds(t)'
<1>1. clock \in Nat /\ eq[t] \in EquipmentRow /\ eq[t].since <= clock
  BY DEF ClockInv, DownTypeOK, Counted
<1>2. eq'[t] = Stamped(Flushed(eq[t], clock), status, clock)
  BY DEF ClockInv, DownTypeOK
<1>3. /\ eq'[t].status = status /\ eq'[t].since = clock /\ eq'[t].down \in Nat
      /\ eq'[t].down = eq[t].down + (IF eq[t].status = "DOWN" THEN clock - eq[t].since ELSE 0)
  BY <1>1, <1>2, FlushedDown
<1>4. EffectiveDown(t)' = EffectiveDown(t)
  BY <1>1, <1>3 DEF EffectiveDown
<1>5. QED  BY <1>3, <1>4 DEF RowsFit, OutageSeconds

LEMMA OtherRows ==
  ASSUME ClockInv, NEW u \in Tools, RowsFit(u),
         eq'[u] = eq[u], outage'[u] = outage[u], UNCHANGED clock
  PROVE  RowsFit(u)'
<1>1. SecondsOf(u)' = SecondsOf(u)  BY SameSeconds DEF Lasted
<1>2. QED  BY <1>1 DEF RowsFit, RowFits, OpenRows, EffectiveDown, OutageSeconds

LEMMA DispatchRows ==
  ASSUME ClockInv, NEW t \in Tools, RowsFit(t), Dispatch(t)
  PROVE  RowsFit(t)'
<1>1. SecondsOf(t)' = SecondsOf(t)  BY SameSeconds DEF Dispatch, Lasted
<1>2. eq'[t].status = "RUN" /\ IsFiniteSet(SecondsOf(t))' /\ EffectiveDown(t)' = OutageSeconds(t)'
  BY <1>1, WriteKeepsSeconds DEF Dispatch
<1>3. QED  BY <1>2 DEF Dispatch, RowsFit, RowFits, OpenRows

LEMMA RowLengths ==
  ASSUME ClockInv, NEW t \in Tools, RowsFit(t), NEW i \in DOMAIN outage[t]
  PROVE  /\ outage[t][i] \in OutageRow /\ Lasted(outage[t][i]) \in Nat
         /\ Lasted(outage[t][i]) =
              (IF i \in OpenRows(t) THEN clock ELSE outage[t][i].ended) - outage[t][i].started
<1>1. outage[t][i] \in OutageRow /\ clock \in Nat /\ RowFits(outage[t][i], clock)
  BY DEF ClockInv, DownTypeOK, RowsFit
<1>2. QED  BY <1>1 DEF Lasted, OpenRows, OutageRow, RowFits

LEMMA StatusRows ==
  ASSUME ClockInv, NEW t \in Tools, RowsFit(t), NEW status \in {"RUN", "IDLE", "DOWN"},
         SetStatus(t, status)
  PROVE  RowsFit(t)'
<1>1. clock \in Nat /\ UNCHANGED clock /\ outage \in [Tools -> Seq(OutageRow)]
  BY DEF ClockInv, DownTypeOK, SetStatus
<1>2. PICK rows \in Seq(OutageRow) : rows = outage[t]  BY <1>1
<1>3. Len(rows) \in Nat /\ DOMAIN rows = 1 .. Len(rows)  BY <1>2
<1>4. SecondsOf(t)' = SecondsOf(t) =>
        /\ eq'[t].status = status
        /\ IsFiniteSet(SecondsOf(t))' /\ EffectiveDown(t)' = OutageSeconds(t)'
  BY WriteKeepsSeconds DEF SetStatus
<1>5. CASE eq[t].status # "DOWN" /\ status = "DOWN"
  <2> DEFINE row == [started |-> clock, ended |-> Open]
             more == Append(rows, row)
  <2>1. outage'[t] = more  BY <1>1, <1>2, <1>5 DEF SetStatus
  <2>2. row \in OutageRow /\ row.ended = Open /\ row.started = clock
    BY <1>1 DEF OutageRow
  <2> HIDE DEF row
  <2>3. /\ DOMAIN more = 1 .. Len(rows) + 1 /\ Len(more) = Len(rows) + 1
        /\ \A i \in DOMAIN rows : more[i] = rows[i]
        /\ more[Len(rows) + 1] = row /\ more # <<>>
    BY <1>3, <2>2
  <2> HIDE DEF more
  <2>4. \A i \in DOMAIN more : i \in DOMAIN rows \/ i = Len(rows) + 1
    BY <1>3, <2>3
  <2>5. DOMAIN rows \subseteq DOMAIN more /\ Len(rows) + 1 \in DOMAIN more
    BY <1>3, <2>3
  <2>6. SecondsOf(t)' = SecondsOf(t)
    <3>1. \A i \in DOMAIN rows : Lasted(outage[t][i])' = Lasted(outage[t][i])
      BY <1>1, <1>2, <2>1, <2>3 DEF Lasted
    <3>2. \A i \in DOMAIN more \ DOMAIN rows : Lasted(outage[t][i])' = 0
      <4>1. \A i \in DOMAIN more \ DOMAIN rows : outage'[t][i] = row
        BY <2>1, <2>3, <2>4
      <4>2. QED  BY <1>1, <2>2, <4>1 DEF Lasted
    <3>3. QED  BY <1>2, <2>1, <2>5, <3>1, <3>2, SameSeconds
  <2>7. OpenRows(t) = {}  BY <1>5 DEF RowsFit
  <2>8. OpenRows(t)' = {Len(more)}
    <3>1. \A i \in DOMAIN rows : rows[i].ended # Open  BY <1>2, <2>7 DEF OpenRows
    <3>2. QED  BY <2>1, <2>2, <2>3, <2>4, <2>5, <3>1 DEF OpenRows
  <2>9. \A i \in DOMAIN more : RowFits(more[i], clock)
    <3>1. \A i \in DOMAIN rows : RowFits(rows[i], clock)  BY <1>2 DEF RowsFit
    <3>2. RowFits(row, clock)  BY <1>1, <2>2 DEF RowFits
    <3>3. QED  BY <2>3, <2>4, <3>1, <3>2
  <2>10. QED  BY <1>1, <1>4, <1>5, <2>1, <2>3, <2>6, <2>8, <2>9 DEF RowsFit, RowFits
<1>6. CASE eq[t].status = "DOWN" /\ status # "DOWN"
  <2> DEFINE n == Len(rows)
  <2>1. OpenRows(t) = {n} /\ n \in DOMAIN rows /\ rows[n].ended = Open
    BY <1>2, <1>6 DEF RowsFit, OpenRows
  <2>2. PICK i \in LatestOpen(t) : outage' = [outage EXCEPT ![t][i].ended = clock]
    BY <1>6, <2>1 DEF SetStatus
  <2>3. i = n  BY <2>1 DEF LatestOpen
  <2>4. rows[n] \in OutageRow /\ RowFits(rows[n], clock)
    BY <1>2, <2>1 DEF RowsFit
  <2> DEFINE row == [rows[n] EXCEPT !.ended = clock]
             less == [rows EXCEPT ![n] = row]
  <2>5. row.started = rows[n].started /\ row.ended = clock
    BY <2>4 DEF OutageRow
  <2>6. outage'[t] = less  BY <1>1, <1>2, <2>2, <2>3
  <2> HIDE DEF row
  <2>7. DOMAIN less = DOMAIN rows /\ less[n] = row
        /\ \A j \in DOMAIN rows \ {n} : less[j] = rows[j]
    BY <2>1
  <2> HIDE DEF less
  <2>8. SecondsOf(t)' = SecondsOf(t)
    <3>1. ASSUME NEW j \in DOMAIN rows PROVE Lasted(outage[t][j])' = Lasted(outage[t][j])
      <4>1. CASE j = n
        <5>1. Lasted(outage[t][j])' = clock - rows[n].started
          BY <1>1, <2>5, <2>6, <2>7, <4>1 DEF Lasted
        <5>2. Lasted(outage[t][j]) = clock - rows[n].started
          BY <1>2, <2>1, <4>1 DEF Lasted
        <5>3. QED  BY <5>1, <5>2
      <4>2. CASE j # n  BY <1>1, <1>2, <2>6, <2>7, <4>2 DEF Lasted
      <4>3. QED  BY <4>1, <4>2
    <3>2. QED  BY <1>2, <2>6, <2>7, <3>1, SameSeconds
  <2>9. OpenRows(t)' = {}
    <3>1. \A j \in DOMAIN rows \ {n} : rows[j].ended # Open  BY <1>2, <2>1 DEF OpenRows
    <3>2. row.ended # Open  BY <1>1, <2>5
    <3>3. QED  BY <2>6, <2>7, <3>1, <3>2 DEF OpenRows
  <2>10. \A j \in DOMAIN less : RowFits(less[j], clock)
    <3>1. \A j \in DOMAIN rows : RowFits(rows[j], clock)  BY <1>2 DEF RowsFit
    <3>2. RowFits(row, clock)  BY <2>4, <2>5 DEF RowFits
    <3>3. QED  BY <2>7, <3>1, <3>2
  <2>11. QED  BY <1>1, <1>4, <1>6, <2>6, <2>8, <2>9, <2>10 DEF RowsFit, RowFits
<1>7. CASE (eq[t].status = "DOWN") = (status = "DOWN")
  <2>1. outage'[t] = outage[t]  BY <1>7 DEF SetStatus
  <2>2. SecondsOf(t)' = SecondsOf(t)  BY <1>1, <2>1, SameSeconds DEF Lasted
  <2>3. QED  BY <1>1, <1>4, <1>7, <2>1, <2>2 DEF RowsFit, RowFits, OpenRows
<1>8. QED  BY <1>5, <1>6, <1>7

LEMMA TickRows ==
  ASSUME ClockInv, NEW t \in Tools, RowsFit(t), Tick
  PROVE  RowsFit(t)'
<1>1. /\ clock \in Nat /\ clock' = clock + 1 /\ outage' = outage /\ eq' = eq
      /\ eq[t] \in EquipmentRow
  BY DEF ClockInv, DownTypeOK, Tick
<1>2. \A i \in DOMAIN outage[t] : RowFits(outage[t][i], clock')
  <2> SUFFICES ASSUME NEW i \in DOMAIN outage[t] PROVE RowFits(outage[t][i], clock')
    OBVIOUS
  <2>1. RowFits(outage[t][i], clock) /\ outage[t][i].started \in Nat
    BY RowLengths DEF RowsFit, OutageRow
  <2>2. QED  BY <1>1, <2>1 DEF RowFits
<1>3. OpenRows(t)' = OpenRows(t)  BY <1>1 DEF OpenRows
<1>4. \A i \in DOMAIN outage[t] \ OpenRows(t) :
        Lasted(outage[t][i])' = Lasted(outage[t][i])
  BY <1>1 DEF Lasted, OpenRows
<1>5. IsFiniteSet(SecondsOf(t))' /\ EffectiveDown(t)' = OutageSeconds(t)'
  <2>1. CASE eq[t].status # "DOWN"
    <3>1. SecondsOf(t)' = SecondsOf(t)
      BY <1>1, <1>4, <2>1, SameSeconds DEF RowsFit
    <3>2. QED  BY <1>1, <2>1, <3>1 DEF RowsFit, EffectiveDown, OutageSeconds
  <2>2. CASE eq[t].status = "DOWN"
    <3>1. PICK n : n \in DOMAIN outage[t] /\ OpenRows(t) = {n}
      BY <2>2 DEF RowsFit, OpenRows
    <3>2. Lasted(outage[t][n]) \in Nat /\ outage[t][n] \in OutageRow
          /\ outage[t][n].ended = Open
      BY <3>1, RowLengths DEF OpenRows
    <3>3. Lasted(outage[t][n])' = Lasted(outage[t][n]) + 1
      BY <1>1, <3>2 DEF Lasted, OutageRow
    <3>4. IsFiniteSet(SecondsOf(t))' /\ OutageSeconds(t)' = OutageSeconds(t) + 1
      BY <1>1, <1>4, <3>1, <3>2, <3>3, OneSecondMore DEF RowsFit
    <3>5. EffectiveDown(t)' = EffectiveDown(t) + 1
      BY <1>1, <2>2 DEF EffectiveDown, EquipmentRow
    <3>6. QED  BY <3>4, <3>5 DEF RowsFit
  <2>3. QED  BY <2>1, <2>2
<1>6. QED  BY <1>1, <1>2, <1>3, <1>5 DEF RowsFit

LEMMA OutageStep == OutageInv /\ [DownNext]_downVars => OutageInv'
<1> SUFFICES ASSUME OutageInv, [DownNext]_downVars PROVE OutageInv'
  OBVIOUS
<1>1. ClockInv /\ ClockInv' /\ \A t \in Tools : RowsFit(t)
  BY ClockStep DEF OutageInv
<1>2. ASSUME NEW t \in Tools PROVE RowsFit(t)'
  <2>1. CASE UNCHANGED downVars  BY <1>1, <2>1, OtherRows DEF downVars
  <2>2. CASE Tick  BY <1>1, <2>2, TickRows
  <2>3. ASSUME NEW u \in Tools, NEW status \in {"RUN", "IDLE", "DOWN"}, SetStatus(u, status)
        PROVE  RowsFit(t)'
    <3>1. CASE u = t  BY <1>1, <2>3, <3>1, StatusRows
    <3>2. CASE u # t
      <4>1. eq'[t] = eq[t] /\ UNCHANGED clock
        BY <1>1, <2>3, <3>2 DEF SetStatus, ClockInv, DownTypeOK
      <4>2. outage'[t] = outage[t]
        BY <1>1, <2>3, <3>2 DEF SetStatus, ClockInv, DownTypeOK
      <4>3. QED  BY <1>1, <4>1, <4>2, OtherRows
    <3>3. QED  BY <3>1, <3>2
  <2>4. ASSUME NEW u \in Tools, Dispatch(u)
        PROVE  RowsFit(t)'
    <3>1. CASE u = t  BY <1>1, <2>4, <3>1, DispatchRows
    <3>2. CASE u # t
      <4>1. eq'[t] = eq[t] /\ UNCHANGED <<clock, outage>>
        BY <1>1, <2>4, <3>2 DEF Dispatch, ClockInv, DownTypeOK
      <4>2. QED  BY <1>1, <4>1, OtherRows
    <3>3. QED  BY <3>1, <3>2
  <2>5. QED  BY <2>1, <2>2, <2>3, <2>4 DEF DownNext
<1>3. QED  BY <1>1, <1>2 DEF OutageInv

LEMMA OutageStart == DownInit => OutageInv
<1> SUFFICES ASSUME DownInit PROVE OutageInv
  OBVIOUS
<1>1. ClockInv  BY ClockInit
<1>2. ASSUME NEW t \in Tools PROVE RowsFit(t)
  <2>1. outage[t] = <<>> /\ clock = 0
        /\ eq[t] = [status |-> "IDLE", run |-> 0, down |-> 0, since |-> 0]
    BY DEF DownInit
  <2>2. DOMAIN outage[t] = {}  BY <2>1
  <2>3. SecondsOf(t) = {}  BY <2>2, SecondsArePairs
  <2>4. IsFiniteSet(SecondsOf(t)) /\ OutageSeconds(t) = 0
    BY <2>3, FS_EmptySet DEF OutageSeconds
  <2>5. QED  BY <2>1, <2>2, <2>4 DEF RowsFit, OpenRows, EffectiveDown
<1>3. QED  BY <1>1, <1>2 DEF OutageInv

-----------------------------------------------------------------------------
HIDE DowntimeAssumption

(* Folds over a finite set.  MapThenFoldSet is a recursive function on the  *)
(* subsets: it has an equation once a function that satisfies it exists, and*)
(* what it computes is shown of a least subset that would refute it.        *)

LEMMA LeastSubset ==
  ASSUME NEW S, IsFiniteSet(S), NEW T \in SUBSET (SUBSET S), T # {}
  PROVE  \E s \in T : \A x \in s : s \ {x} \notin T
<1> DEFINE R == StrictSubsetOrdering(S)
<1>1. IsWellFoundedOn(R, SUBSET S)
  <2>1. FiniteSubsetsOf(S) = SUBSET S  BY FS_FiniteSubsetsOfFinite
  <2>2. QED  BY <2>1, FS_StrictSubsetOrderingWellFounded
<1>2. PICK s \in T : \A r \in T : <<r, s>> \notin R
  <2> HIDE DEF R
  <2>1. QED  BY <1>1, WFMin
<1>3. ASSUME NEW x \in s PROVE s \ {x} \notin T
  <2>1. s \ {x} \subseteq s /\ s \ {x} # s  OBVIOUS
  <2>2. s \in SUBSET S /\ s \ {x} \in SUBSET S  OBVIOUS
  <2>3. <<s \ {x}, s>> \in R  BY <2>1, <2>2 DEF StrictSubsetOrdering
  <2>4. QED  BY <1>2, <2>3
<1>4. QED  BY <1>3

Member(s) == CHOOSE x \in s : TRUE
Rest(s) == s \ {Member(s)}

LEMMA MemberOf == ASSUME NEW s, s # {} PROVE Member(s) \in s
BY DEF Member

\* g folds the subsets in ss: step takes what remains to the fold of the whole.
Folds(g, ss, base, step) ==
  g = [s \in ss |-> IF s = {} THEN base ELSE step[<<s, g[Rest(s)]>>]]

UpTo(S, n) == {s \in SUBSET S : Cardinality(s) <= n}

LEMMA RestIsSmaller ==
  ASSUME NEW S, IsFiniteSet(S), NEW n \in Nat, NEW s \in UpTo(S, n), s # {}
  PROVE  n > 0 /\ Rest(s) \in UpTo(S, n - 1)
<1>1. IsFiniteSet(s) /\ Cardinality(s) \in Nat /\ Cardinality(s) <= n
  BY FS_Subset, FS_CardinalityType DEF UpTo
<1>2. Cardinality(s) # 0  BY <1>1, FS_EmptySet
<1>3. Cardinality(Rest(s)) = Cardinality(s) - 1
  BY <1>1, MemberOf, FS_RemoveElement DEF Rest
<1>4. QED  BY <1>1, <1>2, <1>3 DEF UpTo, Rest

\* A fold of the subsets of up to n elements gives one of those of n + 1.
LEMMA FoldOneMore ==
  ASSUME NEW S, IsFiniteSet(S), NEW n \in Nat \ {0}, NEW base \in Nat,
         NEW step \in [(SUBSET S) \X Nat -> Nat],
         NEW f \in [UpTo(S, n - 1) -> Nat], Folds(f, UpTo(S, n - 1), base, step)
  PROVE  \E g \in [UpTo(S, n) -> Nat] : Folds(g, UpTo(S, n), base, step)
<1> DEFINE value(s) == IF s = {} THEN base ELSE step[<<s, f[Rest(s)]>>]
           g == [s \in UpTo(S, n) |-> value(s)]
<1>1. ASSUME NEW s \in UpTo(S, n) PROVE value(s) \in Nat
  <2>1. CASE s = {}  BY <2>1
  <2>2. CASE s # {}
    <3>1. f[Rest(s)] \in Nat  BY <2>2, RestIsSmaller
    <3>2. s \in SUBSET S  BY DEF UpTo
    <3>3. <<s, f[Rest(s)]>> \in (SUBSET S) \X Nat  BY <3>1, <3>2
    <3>4. QED  BY <2>2, <3>3
  <2>3. QED  BY <2>1, <2>2
<1>2. g \in [UpTo(S, n) -> Nat]  BY <1>1
<1>3. ASSUME NEW s \in UpTo(S, n - 1) PROVE f[s] = value(s)  BY DEF Folds
<1>4. UpTo(S, n - 1) \subseteq UpTo(S, n)
  <2>1. ASSUME NEW s \in UpTo(S, n - 1) PROVE s \in UpTo(S, n)
    <3>1. s \in SUBSET S /\ Cardinality(s) <= n - 1  BY DEF UpTo
    <3>2. Cardinality(s) \in Nat  BY <3>1, FS_Subset, FS_CardinalityType
    <3>3. QED  BY <3>1, <3>2 DEF UpTo
  <2>2. QED  BY <2>1
<1>5. ASSUME NEW s \in UpTo(S, n), s # {} PROVE g[Rest(s)] = f[Rest(s)]
  <2>1. Rest(s) \in UpTo(S, n - 1)  BY <1>5, RestIsSmaller
  <2> HIDE DEF value
  <2>2. QED  BY <1>3, <1>4, <2>1
<1>6. ASSUME NEW s \in UpTo(S, n)
      PROVE  g[s] = IF s = {} THEN base ELSE step[<<s, g[Rest(s)]>>]
  <2>1. g[s] = value(s)  OBVIOUS
  <2> HIDE DEF g
  <2>2. QED  BY <1>5, <2>1
<1>7. Folds(g, UpTo(S, n), base, step)
  <2>1. DOMAIN g = UpTo(S, n) /\ g = [s \in UpTo(S, n) |-> g[s]]  OBVIOUS
  <2> HIDE DEF g
  <2>2. QED  BY <1>6, <2>1 DEF Folds
<1> HIDE DEF g
<1>8. QED  BY <1>2, <1>7

LEMMA FoldExists ==
  ASSUME NEW S, IsFiniteSet(S), NEW base \in Nat,
         NEW step \in [(SUBSET S) \X Nat -> Nat]
  PROVE  \E g \in [SUBSET S -> Nat] : Folds(g, SUBSET S, base, step)
<1> DEFINE has(n) == \E g \in [UpTo(S, n) -> Nat] : Folds(g, UpTo(S, n), base, step)
           T == {n \in Nat : ~ has(n)}
<1>1. has(0)
  <2>1. \A s \in UpTo(S, 0) : s = {}  BY RestIsSmaller
  <2>2. QED  BY <2>1 DEF Folds
<1>2. ASSUME NEW n \in Nat \ {0}, has(n - 1) PROVE has(n)
  BY <1>2, FoldOneMore
<1>3. T = {}
  <2> HIDE DEF has
  <2>1. SUFFICES ASSUME T # {} PROVE FALSE  OBVIOUS
  <2> DEFINE R == OpToRel(<, Nat)
  <2>2. T \subseteq Nat /\ IsWellFoundedOn(R, Nat)  BY NatLessThanWellFounded
  <2>3. PICK n \in T : \A m \in T : <<m, n>> \notin R
    <3> HIDE DEF R, T
    <3>1. QED  BY <2>1, <2>2, WFMin
  <2>4. n \in Nat \ {0}  BY <1>1
  <2>5. n - 1 \in Nat /\ <<n - 1, n>> \in R  BY <2>4 DEF OpToRel
  <2>6. has(n - 1)  BY <2>3, <2>5
  <2>7. QED  BY <1>2, <2>4, <2>6
<1>4. UpTo(S, Cardinality(S)) = SUBSET S  BY FS_Subset DEF UpTo
<1>5. Cardinality(S) \in Nat  BY FS_CardinalityType
<1>6. has(Cardinality(S))
  <2> HIDE DEF has
  <2>1. QED  BY <1>3, <1>5
<1>7. QED  BY <1>4, <1>6

-----------------------------------------------------------------------------
(* Maxima and minima of a finite set of integers.                           *)

LEMMA MaxOfFinite ==
  ASSUME NEW S \in SUBSET Int, IsFiniteSet(S), S # {}
  PROVE  Max(S) \in S /\ \A y \in S : Max(S) >= y
<1> DEFINE T == {s \in SUBSET S : s # {} /\ ~ \E m \in s : \A y \in s : m >= y}
<1>1. T = {}
  <2>1. SUFFICES ASSUME T # {} PROVE FALSE  OBVIOUS
  <2>2. PICK s \in T : \A x \in s : s \ {x} \notin T
    <3>1. T \in SUBSET (SUBSET S)  OBVIOUS
    <3> HIDE DEF T
    <3>2. QED  BY <2>1, <3>1, LeastSubset
  <2>3. PICK x \in s : TRUE  OBVIOUS
  <2>4. CASE s = {x}
    <3>1. x \in Int /\ \A y \in s : x >= y  BY <2>4
    <3>2. QED  BY <3>1
  <2>5. CASE s # {x}
    <3>1. s \ {x} # {} /\ s \ {x} \in SUBSET S  BY <2>5
    <3>2. PICK m \in s \ {x} : \A y \in s \ {x} : m >= y  BY <2>2, <3>1
    <3>3. m \in Int /\ x \in Int  OBVIOUS
    <3>4. CASE m >= x  BY <3>2, <3>4
    <3>5. CASE ~ (m >= x)
      <4>1. \A y \in s : x >= y
        <5>1. \A y \in s \ {x} : y \in Int /\ m >= y  BY <3>2
        <5>2. QED  BY <3>3, <3>5, <5>1
      <4>2. QED  BY <4>1
    <3>6. QED  BY <3>4, <3>5
  <2>6. QED  BY <2>4, <2>5
<1>2. \E m \in S : \A y \in S : m >= y  BY <1>1
<1>3. QED  BY <1>2 DEF Max

LEMMA MinOfFinite ==
  ASSUME NEW S \in SUBSET Int, IsFiniteSet(S), S # {}
  PROVE  Min(S) \in S /\ \A y \in S : Min(S) <= y
<1> DEFINE T == {s \in SUBSET S : s # {} /\ ~ \E m \in s : \A y \in s : m <= y}
<1>1. T = {}
  <2>1. SUFFICES ASSUME T # {} PROVE FALSE  OBVIOUS
  <2>2. PICK s \in T : \A x \in s : s \ {x} \notin T
    <3>1. T \in SUBSET (SUBSET S)  OBVIOUS
    <3> HIDE DEF T
    <3>2. QED  BY <2>1, <3>1, LeastSubset
  <2>3. PICK x \in s : TRUE  OBVIOUS
  <2>4. CASE s = {x}
    <3>1. x \in Int /\ \A y \in s : x <= y  BY <2>4
    <3>2. QED  BY <3>1
  <2>5. CASE s # {x}
    <3>1. s \ {x} # {} /\ s \ {x} \in SUBSET S  BY <2>5
    <3>2. PICK m \in s \ {x} : \A y \in s \ {x} : m <= y  BY <2>2, <3>1
    <3>3. m \in Int /\ x \in Int  OBVIOUS
    <3>4. CASE m <= x  BY <3>2, <3>4
    <3>5. CASE ~ (m <= x)
      <4>1. \A y \in s : x <= y
        <5>1. \A y \in s \ {x} : y \in Int /\ m <= y  BY <3>2
        <5>2. QED  BY <3>3, <3>5, <5>1
      <4>2. QED  BY <4>1
    <3>6. QED  BY <3>4, <3>5
  <2>6. QED  BY <2>4, <2>5
<1>2. \E m \in S : \A y \in S : m <= y  BY <1>1
<1>3. QED  BY <1>2 DEF Min

-----------------------------------------------------------------------------
(* Sums of a quantity w and of its squares over the subsets of S.           *)

IsSum(g, w, S) ==
  /\ g \in [SUBSET S -> Nat]
  /\ g[{}] = 0
  /\ \A s \in (SUBSET S) \ {{}} : g[s] = w[Member(s)] + g[Rest(s)]

SumEquation(g, w, S) ==
  g = [s \in SUBSET S |-> IF s = {} THEN 0 ELSE w[Member(s)] + g[Rest(s)]]

LEMMA PartsOf ==
  ASSUME NEW S, NEW s \in (SUBSET S) \ {{}}
  PROVE  Member(s) \in S /\ Rest(s) \in SUBSET S
BY MemberOf DEF Rest

LEMMA SumExists ==
  ASSUME NEW S, IsFiniteSet(S), NEW w \in [S -> Nat]
  PROVE  \E g : SumEquation(g, w, S)
<1> DEFINE step == [p \in (SUBSET S) \X Nat |->
                      IF p[1] = {} THEN 0 ELSE w[Member(p[1])] + p[2]]
<1>1. step \in [(SUBSET S) \X Nat -> Nat]  BY PartsOf
<1>2. PICK g \in [SUBSET S -> Nat] : Folds(g, SUBSET S, 0, step)
  <2> HIDE DEF step
  <2>1. QED  BY <1>1, FoldExists
<1>3. ASSUME NEW s \in SUBSET S, s # {}
      PROVE  step[<<s, g[Rest(s)]>>] = w[Member(s)] + g[Rest(s)]
  <2>1. g[Rest(s)] \in Nat  BY <1>2, <1>3, PartsOf
  <2>2. <<s, g[Rest(s)]>> \in (SUBSET S) \X Nat  BY <2>1
  <2>3. QED  BY <1>3, <2>2
<1> HIDE DEF step
<1>4. SumEquation(g, w, S)  BY <1>2, <1>3 DEF Folds, SumEquation
<1>5. QED  BY <1>4

LEMMA SumTyped ==
  ASSUME NEW S, IsFiniteSet(S), NEW w \in [S -> Nat], NEW g, SumEquation(g, w, S)
  PROVE  IsSum(g, w, S)
<1>1. g[{}] = 0  BY DEF SumEquation
<1>2. \A s \in (SUBSET S) \ {{}} : g[s] = w[Member(s)] + g[Rest(s)]
  BY DEF SumEquation
<1>3. g \in [SUBSET S -> Nat]
  <2> DEFINE T == {s \in SUBSET S : g[s] \notin Nat}
  <2>1. SUFFICES ASSUME T # {} PROVE FALSE  BY DEF SumEquation
  <2>2. PICK s \in T : \A x \in s : s \ {x} \notin T
    <3>1. T \in SUBSET (SUBSET S)  OBVIOUS
    <3> HIDE DEF T
    <3>2. QED  BY <2>1, <3>1, LeastSubset
  <2>3. s # {}  BY <1>1
  <2>4. g[Rest(s)] \in Nat  BY <2>2, <2>3, MemberOf DEF Rest
  <2>5. w[Member(s)] \in Nat  BY <2>3, PartsOf
  <2>6. QED  BY <1>2, <2>3, <2>4, <2>5
<1>4. QED  BY <1>1, <1>2, <1>3 DEF IsSum

\* A sum is at most so many times the greatest term, and the sum of the
\* squares is bounded by it: no term is outside lo .. hi, so that of each
\* (hi - w) * (w - lo) is not negative.
LEMMA SumBounds ==
  ASSUME NEW S, IsFiniteSet(S), NEW w \in [S -> Nat], NEW sq \in [S -> Nat],
         \A x \in S : sq[x] = w[x] * w[x],
         NEW lo \in Nat, NEW hi \in Nat, \A x \in S : lo <= w[x] /\ w[x] <= hi,
         NEW g, IsSum(g, w, S), NEW q, IsSum(q, sq, S)
  PROVE  /\ g[S] <= Cardinality(S) * hi
         /\ q[S] + Cardinality(S) * (lo * hi) <= (hi + lo) * g[S]
<1> DEFINE fits(s) == /\ g[s] <= Cardinality(s) * hi
                      /\ q[s] + Cardinality(s) * (lo * hi) <= (hi + lo) * g[s]
           T == {s \in SUBSET S : ~ fits(s)}
<1>1. T = {}
  <2>1. SUFFICES ASSUME T # {} PROVE FALSE  OBVIOUS
  <2>2. PICK s \in T : \A x \in s : s \ {x} \notin T
    <3>1. T \in SUBSET (SUBSET S)  OBVIOUS
    <3> HIDE DEF T
    <3>2. QED  BY <2>1, <3>1, LeastSubset
  <2>3. IsFiniteSet(s)  BY FS_Subset
  <2>4. CASE s = {}
    <3>1. Cardinality(s) = 0  BY <2>4, FS_EmptySet
    <3>2. g[s] = 0 /\ q[s] = 0  BY <2>4 DEF IsSum
    <3>3. QED  BY <3>1, <3>2
  <2>5. CASE s # {}
    <3>1. Member(s) \in s /\ Rest(s) = s \ {Member(s)}  BY <2>5, MemberOf DEF Rest
    <3>2. PICK x \in s : x = Member(s)  BY <3>1
    <3>3. PICK r \in SUBSET S : r = Rest(s)  BY <3>1
    <3>4. fits(r)  BY <2>2, <3>1, <3>3
    <3>5. IsFiniteSet(r) /\ Cardinality(r) \in Nat /\ Cardinality(s) = Cardinality(r) + 1
      <4>1. Cardinality(s) \in Nat /\ Cardinality(r) = Cardinality(s) - 1 /\ IsFiniteSet(r)
        BY <2>3, <3>1, <3>3, FS_RemoveElement, FS_CardinalityType
      <4>2. Cardinality(r) \in Nat  BY <4>1, FS_CardinalityType
      <4>3. QED  BY <4>1, <4>2
    <3>6. g[s] = w[x] + g[r] /\ q[s] = sq[x] + q[r]
      BY <2>5, <3>2, <3>3 DEF IsSum
    <3>7. /\ g[r] \in Nat /\ q[r] \in Nat /\ w[x] \in Nat
          /\ sq[x] = w[x] * w[x] /\ lo <= w[x] /\ w[x] <= hi
      BY DEF IsSum
    <3>8. sq[x] + lo * hi <= (hi + lo) * w[x]
      <4>1. PICK v \in Nat : v = w[x]  BY <3>7
      <4>2. 0 <= (hi - v) * (v - lo)  BY <3>7, <4>1
      <4>3. (hi - v) * (v - lo) = (hi + lo) * v - v * v - lo * hi  BY SMT
      <4>4. v * v \in Nat /\ lo * hi \in Nat /\ (hi + lo) * v \in Nat  BY SMT
      <4>5. QED  BY <3>7, <4>1, <4>2, <4>3, <4>4
    <3>9. fits(s)
      <4>1. PICK n \in Nat : n = Cardinality(r)  BY <3>5
      <4>2. PICK G \in Nat : G = g[r]  BY <3>7
      <4>3. PICK Q \in Nat : Q = q[r]  BY <3>7
      <4>4. PICK v \in Nat : v = w[x]  BY <3>7
      <4>5. PICK p \in Nat : p = lo * hi  OBVIOUS
      <4>6. PICK h \in Nat : h = hi + lo  OBVIOUS
      <4>7. v * v + p <= h * v  BY <3>7, <3>8, <4>4, <4>5, <4>6
      <4>8. G <= n * hi /\ Q + n * p <= h * G
        BY <3>4, <4>1, <4>2, <4>3, <4>5, <4>6
      <4>9. v + G <= (n + 1) * hi  BY <3>7, <4>4, <4>8
      <4>10. v * v + Q + (n + 1) * p <= h * (v + G)
        <5>1. (n + 1) * p = n * p + p /\ h * (v + G) = h * v + h * G  BY SMT
        <5>2. /\ v * v \in Nat /\ n * p \in Nat /\ h * v \in Nat /\ h * G \in Nat  BY SMT
        <5>3. QED  BY <4>7, <4>8, <5>1, <5>2
      <4>11. QED
        BY <3>5, <3>6, <3>7, <4>1, <4>2, <4>3, <4>4, <4>5, <4>6, <4>9, <4>10
    <3>10. QED  BY <3>9
  <2>6. QED  BY <2>4, <2>5
<1>2. QED  BY <1>1

\* The squares of the distances k * w - c add up to at least any one of them.
LEMMA SquaresAround ==
  ASSUME NEW S, IsFiniteSet(S), NEW w \in [S -> Nat], NEW sq \in [S -> Nat],
         \A x \in S : sq[x] = w[x] * w[x],
         NEW k \in Int, NEW c \in Int, NEW u \in S,
         NEW g, IsSum(g, w, S), NEW q, IsSum(q, sq, S)
  PROVE  (k * w[u] - c) * (k * w[u] - c)
           <= (k * k) * q[S] - (2 * (k * c)) * g[S] + Cardinality(S) * (c * c)
<1>1. PICK A \in Int : A = k * k  BY SMT
<1>2. PICK B \in Int : B = 2 * (k * c)  BY SMT
<1>3. PICK C \in Int : C = c * c  BY SMT
<1>4. PICK e \in Int : e = (k * w[u] - c) * (k * w[u] - c)
  <2>1. PICK v \in Nat : v = w[u]  OBVIOUS
  <2>2. (k * v - c) * (k * v - c) \in Int  BY SMT
  <2>3. QED  BY <2>1, <2>2
<1> DEFINE h(s) == A * q[s] - B * g[s] + Cardinality(s) * C
           fits(s) == 0 <= h(s) /\ (u \in s => e <= h(s))
           T == {s \in SUBSET S : ~ fits(s)}
<1>5. T = {}
  <2>1. SUFFICES ASSUME T # {} PROVE FALSE  OBVIOUS
  <2>2. PICK s \in T : \A x \in s : s \ {x} \notin T
    <3>1. T \in SUBSET (SUBSET S)  OBVIOUS
    <3> HIDE DEF T
    <3>2. QED  BY <2>1, <3>1, LeastSubset
  <2>3. IsFiniteSet(s)  BY FS_Subset
  <2>4. CASE s = {}
    <3>1. Cardinality(s) = 0  BY <2>4, FS_EmptySet
    <3>2. g[s] = 0 /\ q[s] = 0  BY <2>4 DEF IsSum
    <3>3. QED  BY <2>4, <3>1, <3>2
  <2>5. CASE s # {}
    <3>1. Member(s) \in s /\ Rest(s) = s \ {Member(s)}  BY <2>5, MemberOf DEF Rest
    <3>2. PICK x \in s : x = Member(s)  BY <3>1
    <3>3. PICK r \in SUBSET S : r = Rest(s)  BY <3>1
    <3>4. fits(r)  BY <2>2, <3>1, <3>3
    <3>5. IsFiniteSet(r) /\ Cardinality(r) \in Nat /\ Cardinality(s) = Cardinality(r) + 1
      <4>1. Cardinality(s) \in Nat /\ Cardinality(r) = Cardinality(s) - 1 /\ IsFiniteSet(r)
        BY <2>3, <3>1, <3>3, FS_RemoveElement, FS_CardinalityType
      <4>2. Cardinality(r) \in Nat  BY <4>1, FS_CardinalityType
      <4>3. QED  BY <4>1, <4>2
    <3>6. g[s] = w[x] + g[r] /\ q[s] = sq[x] + q[r]
      BY <2>5, <3>2, <3>3 DEF IsSum
    <3>7. g[r] \in Nat /\ q[r] \in Nat /\ w[x] \in Nat /\ sq[x] = w[x] * w[x]
      BY DEF IsSum
    <3>8. PICK v \in Nat : v = w[x]  BY <3>7
    <3>9. PICK G \in Nat : G = g[r]  BY <3>7
    <3>10. PICK Q \in Nat : Q = q[r]  BY <3>7
    <3>11. PICK n \in Nat : n = Cardinality(r)  BY <3>5
    <3>12. PICK d \in Int : d = (k * v - c) * (k * v - c)  BY SMT
    <3>13. PICK y \in Int : y = A * Q - B * G + n * C
      <4>1. A * Q - B * G + n * C \in Int  BY SMT
      <4>2. QED  BY <4>1
    <3>14. h(r) = y  BY <3>9, <3>10, <3>11, <3>13
    <3>15. d = A * (v * v) - B * v + C  BY <1>1, <1>2, <1>3, <3>12, SMT
    <3>16. h(s) = A * (v * v + Q) - B * (v + G) + (n + 1) * C
      BY <3>5, <3>6, <3>7, <3>8, <3>9, <3>10, <3>11
    <3>17. A * (v * v + Q) - B * (v + G) + (n + 1) * C = y + d
      BY <3>13, <3>15, SMT
    <3>18. 0 <= d
      <4>1. PICK z \in Int : z = k * v - c  BY SMT
      <4>2. 0 <= z * z  BY SMT
      <4>3. QED  BY <3>12, <4>1, <4>2
    <3>19. u = x => e = d  BY <1>4, <3>8, <3>12
    <3>20. u \in s => u = x \/ u \in r  BY <3>1, <3>2, <3>3
    <3>21. 0 <= y /\ (u \in r => e <= y)  BY <3>4, <3>14
    <3>22. h(s) = y + d  BY <3>16, <3>17
    <3> HIDE DEF h
    <3>23. QED  BY <3>18, <3>19, <3>20, <3>21, <3>22
  <2>6. QED  BY <2>4, <2>5
<1>6. fits(S)  BY <1>5
<1>7. QED  BY <1>1, <1>2, <1>3, <1>4, <1>6

-----------------------------------------------------------------------------
(* The folds of the anomaly statistics.                                     *)

Rates(S) == [t \in S |-> Rate(t)]
Squares(S) == [t \in S |-> Rate(t) * Rate(t)]

LEMMA SumOfRates ==
  ASSUME NEW S, IsFiniteSet(S), \A t \in S : Rate(t) \in Nat
  PROVE  \E g : IsSum(g, Rates(S), S) /\ SumRates(S) = g[S]
<1> DEFINE equation(g) ==
             g = [s \in SUBSET S |-> IF s = {} THEN 0
                    ELSE Rate(CHOOSE x \in s : TRUE) + g[s \ {CHOOSE x \in s : TRUE}]]
<1>1. Rates(S) \in [S -> Nat]  BY DEF Rates
<1>2. \A g : equation(g) <=> SumEquation(g, Rates(S), S)
  <2>1. \A s \in (SUBSET S) \ {{}} : Rates(S)[Member(s)] = Rate(CHOOSE x \in s : TRUE)
    BY PartsOf DEF Rates, Member
  <2>2. QED  BY <2>1 DEF SumEquation, Member, Rest
<1>3. PICK g : equation(g) /\ SumRates(S) = g[S]
  <2>1. \E g : equation(g)
    <3>1. \E g : SumEquation(g, Rates(S), S)  BY <1>1, SumExists
    <3> HIDE DEF equation
    <3>2. QED  BY <1>2, <3>1
  <2>2. equation(CHOOSE g : equation(g))  BY <2>1
  <2>3. SumRates(S) = (CHOOSE g : equation(g))[S]
    BY DEF SumRates, MapThenSumSet, MapThenFoldSet
  <2> HIDE DEF equation
  <2>4. QED  BY <2>2, <2>3
<1>4. QED  BY <1>1, <1>2, <1>3, SumTyped

LEMMA SumOfSquares ==
  ASSUME NEW S, IsFiniteSet(S), \A t \in S : Rate(t) \in Nat
  PROVE  \E g : IsSum(g, Squares(S), S) /\ SumSquares(S) = g[S]
<1> DEFINE equation(g) ==
             g = [s \in SUBSET S |-> IF s = {} THEN 0
                    ELSE Rate(CHOOSE x \in s : TRUE) * Rate(CHOOSE x \in s : TRUE)
                         + g[s \ {CHOOSE x \in s : TRUE}]]
<1>1. Squares(S) \in [S -> Nat]
  <2>1. \A t \in S : Rate(t) * Rate(t) \in Nat  OBVIOUS
  <2>2. QED  BY <2>1 DEF Squares
<1>2. \A g : equation(g) <=> SumEquation(g, Squares(S), S)
  <2>1. \A s \in (SUBSET S) \ {{}} :
          Squares(S)[Member(s)]
            = Rate(CHOOSE x \in s : TRUE) * Rate(CHOOSE x \in s : TRUE)
    BY PartsOf DEF Squares, Member
  <2>2. QED  BY <2>1 DEF SumEquation, Member, Rest
<1>3. PICK g : equation(g) /\ SumSquares(S) = g[S]
  <2>1. \E g : equation(g)
    <3>1. \E g : SumEquation(g, Squares(S), S)  BY <1>1, SumExists
    <3> HIDE DEF equation
    <3>2. QED  BY <1>2, <3>1
  <2>2. equation(CHOOSE g : equation(g))  BY <2>1
  <2>3. SumSquares(S) = (CHOOSE g : equation(g))[S]
    BY DEF SumSquares, MapThenSumSet, MapThenFoldSet
  <2> HIDE DEF equation
  <2>4. QED  BY <2>2, <2>3
<1>4. QED  BY <1>1, <1>2, <1>3, SumTyped

\* The product of the sizes of the samples is a common multiple of them.
Sizes(S) == [t \in S |-> inspected[t].total]

ProductEquation(g, w, S) ==
  g = [s \in SUBSET S |-> IF s = {} THEN 1 ELSE w[Member(s)] * g[Rest(s)]]

LEMMA ProductExists ==
  ASSUME NEW S, IsFiniteSet(S), NEW w \in [S -> Nat]
  PROVE  \E g : ProductEquation(g, w, S)
<1> DEFINE step == [p \in (SUBSET S) \X Nat |->
                      IF p[1] = {} THEN 0 ELSE w[Member(p[1])] * p[2]]
<1>1. step \in [(SUBSET S) \X Nat -> Nat]
  <2>1. ASSUME NEW p \in (SUBSET S) \X Nat, p[1] # {}
        PROVE  w[Member(p[1])] * p[2] \in Nat
    <3>1. w[Member(p[1])] \in Nat /\ p[2] \in Nat  BY <2>1, PartsOf
    <3>2. QED  BY <3>1
  <2>2. QED  BY <2>1
<1>2. PICK g \in [SUBSET S -> Nat] : Folds(g, SUBSET S, 1, step)
  <2> HIDE DEF step
  <2>1. QED  BY <1>1, FoldExists
<1>3. ASSUME NEW s \in SUBSET S, s # {}
      PROVE  step[<<s, g[Rest(s)]>>] = w[Member(s)] * g[Rest(s)]
  <2>1. g[Rest(s)] \in Nat  BY <1>2, <1>3, PartsOf
  <2>2. <<s, g[Rest(s)]>> \in (SUBSET S) \X Nat  BY <2>1
  <2>3. QED  BY <1>3, <2>2
<1> HIDE DEF step
<1>4. ProductEquation(g, w, S)  BY <1>2, <1>3 DEF Folds, ProductEquation
<1>5. QED  BY <1>4

LEMMA ProductIsMultiple ==
  ASSUME NEW S, IsFiniteSet(S), NEW w \in [S -> Nat \ {0}],
         NEW g, ProductEquation(g, w, S)
  PROVE  /\ g[S] \in Nat \ {0}
         /\ \A x \in S : \E k \in Nat \ {0} : g[S] = w[x] * k
<1> DEFINE fits(s) == /\ g[s] \in Nat \ {0}
                      /\ \A x \in s : \E k \in Nat \ {0} : g[s] = w[x] * k
           T == {s \in SUBSET S : ~ fits(s)}
<1>1. T = {}
  <2>1. SUFFICES ASSUME T # {} PROVE FALSE  OBVIOUS
  <2>2. PICK s \in T : \A x \in s : s \ {x} \notin T
    <3>1. T \in SUBSET (SUBSET S)  OBVIOUS
    <3> HIDE DEF T
    <3>2. QED  BY <2>1, <3>1, LeastSubset
  <2>3. CASE s = {}
    <3>1. g[s] = 1  BY <2>3 DEF ProductEquation
    <3>2. QED  BY <2>3, <3>1
  <2>4. CASE s # {}
    <3>1. Member(s) \in s /\ Rest(s) = s \ {Member(s)}  BY <2>4, MemberOf DEF Rest
    <3>2. PICK r \in SUBSET S : r = Rest(s)  BY <3>1
    <3>3. fits(r)  BY <2>2, <3>1, <3>2
    <3>4. PICK v \in Nat \ {0} : v = w[Member(s)]  BY <3>1
    <3>5. PICK n \in Nat \ {0} : n = g[r]  BY <3>3
    <3>6. g[s] = v * n  BY <2>4, <3>2, <3>4, <3>5 DEF ProductEquation
    <3>7. v * n \in Nat \ {0}  BY SMT
    <3>8. ASSUME NEW x \in s PROVE \E k \in Nat \ {0} : v * n = w[x] * k
      <4>1. CASE x = Member(s)  BY <3>4, <4>1
      <4>2. CASE x # Member(s)
        <5>1. PICK k \in Nat \ {0} : n = w[x] * k
          BY <3>1, <3>2, <3>3, <3>5, <4>2
        <5>2. PICK u \in Nat \ {0} : u = w[x]  OBVIOUS
        <5>3. v * (u * k) = u * (v * k) /\ v * k \in Nat \ {0}  BY SMT
        <5>4. QED  BY <5>1, <5>2, <5>3
      <4>3. QED  BY <4>1, <4>2
    <3>9. fits(s)  BY <3>6, <3>7, <3>8
    <3>10. QED  BY <3>9
  <2>5. QED  BY <2>3, <2>4
<1>2. QED  BY <1>1

LEMMA ScaleIsMultiple ==
  ASSUME IsFiniteSet(Samples), \A t \in Samples : inspected[t].total \in Nat \ {0}
  PROVE  /\ Scale \in Nat \ {0}
         /\ \A t \in Samples : \E k \in Nat \ {0} : Scale = inspected[t].total * k
<1> DEFINE equation(g) ==
             g = [s \in SUBSET Samples |-> IF s = {} THEN 1
                    ELSE inspected[CHOOSE t \in s : TRUE].total
                         * g[s \ {CHOOSE t \in s : TRUE}]]
<1>1. Sizes(Samples) \in [Samples -> Nat \ {0}]  BY DEF Sizes
<1>2. \A g : equation(g) <=> ProductEquation(g, Sizes(Samples), Samples)
  <2>1. \A s \in (SUBSET Samples) \ {{}} :
          Sizes(Samples)[Member(s)] = inspected[CHOOSE t \in s : TRUE].total
    BY PartsOf DEF Sizes, Member
  <2>2. QED  BY <2>1 DEF ProductEquation, Member, Rest
<1>3. PICK g : equation(g) /\ Scale = g[Samples]
  <2>1. \E g : equation(g)
    <3>1. \E g : ProductEquation(g, Sizes(Samples), Samples)
      BY <1>1, ProductExists
    <3> HIDE DEF equation
    <3>2. QED  BY <1>2, <3>1
  <2>2. equation(CHOOSE g : equation(g))  BY <2>1
  <2>3. Scale = (CHOOSE g : equation(g))[Samples]
    BY DEF Scale, MapThenFoldSet
  <2> HIDE DEF equation
  <2>4. QED  BY <2>2, <2>3
<1>4. ProductEquation(g, Sizes(Samples), Samples)  BY <1>2, <1>3
<1>5. \A t \in Samples : Sizes(Samples)[t] = inspected[t].total  BY DEF Sizes
<1>6. /\ g[Samples] \in Nat \ {0}
      /\ \A t \in Samples : \E k \in Nat \ {0} : g[Samples] = Sizes(Samples)[t] * k
  BY <1>1, <1>4, ProductIsMultiple
<1> HIDE DEF equation
<1>7. QED  BY <1>3, <1>5, <1>6

-----------------------------------------------------------------------------
(* The rates of the samples.                                                *)

InspectedRows == inspected \in [StepTools -> [total : Nat, failures : Nat]]

LEMMA Quotient ==
  ASSUME NEW a \in Nat \ {0}, NEW k \in Nat PROVE (a * k) \div a = k
BY SMT

LEMMA SampleRates ==
  ASSUME IsFiniteSet(StepTools), InspectedRows
  PROVE  /\ IsFiniteSet(Samples)
         /\ Scale \in Nat \ {0}
         /\ \A t \in Samples :
              /\ Rate(t) \in Nat
              /\ Rate(t) * inspected[t].total = inspected[t].failures * Scale
<1>1. IsFiniteSet(Samples)  BY FS_Subset DEF Samples
<1>2. \A t \in Samples : inspected[t].total \in Nat \ {0} /\ inspected[t].failures \in Nat
  BY DEF Samples, InspectedRows, ANOMALY_MIN_INSPECTIONS
<1>3. /\ Scale \in Nat \ {0}
      /\ \A t \in Samples : \E k \in Nat \ {0} : Scale = inspected[t].total * k
  BY <1>1, <1>2, ScaleIsMultiple
<1>4. ASSUME NEW t \in Samples
      PROVE  /\ Rate(t) \in Nat
             /\ Rate(t) * inspected[t].total = inspected[t].failures * Scale
  <2>1. PICK n \in Nat \ {0} : n = inspected[t].total  BY <1>2
  <2>2. PICK d \in Nat : d = inspected[t].failures  BY <1>2
  <2>3. PICK k \in Nat \ {0} : Scale = n * k  BY <1>3, <2>1
  <2>4. Scale \div n = k  BY <2>3, Quotient
  <2>5. Rate(t) = d * k  BY <2>1, <2>2, <2>4 DEF Rate
  <2>6. d * k \in Nat /\ (d * k) * n = d * (n * k)  BY SMT
  <2>7. QED  BY <2>1, <2>2, <2>3, <2>5, <2>6
<1>5. QED  BY <1>1, <1>3, <1>4

LEMMA PeerSums ==
  ASSUME NEW S, IsFiniteSet(S), \A t \in S : Rate(t) \in Nat,
         NEW lo \in Nat, NEW hi \in Nat, \A t \in S : lo <= Rate(t) /\ Rate(t) <= hi
  PROVE  /\ SumRates(S) \in Nat /\ SumSquares(S) \in Nat
         /\ SumRates(S) <= Cardinality(S) * hi
         /\ SumSquares(S) + Cardinality(S) * (lo * hi) <= (hi + lo) * SumRates(S)
<1>1. PICK w \in [S -> Nat] : w = Rates(S)  BY DEF Rates
<1>2. PICK sq \in [S -> Nat] : sq = Squares(S)
  <2>1. \A t \in S : Rate(t) * Rate(t) \in Nat  OBVIOUS
  <2>2. QED  BY <2>1 DEF Squares
<1>3. /\ \A x \in S : sq[x] = w[x] * w[x]
      /\ \A x \in S : lo <= w[x] /\ w[x] <= hi
  BY <1>1, <1>2 DEF Rates, Squares
<1>4. PICK g : IsSum(g, w, S) /\ SumRates(S) = g[S]  BY <1>1, SumOfRates
<1>5. PICK q : IsSum(q, sq, S) /\ SumSquares(S) = q[S]  BY <1>2, SumOfSquares
<1>6. g[S] \in Nat /\ q[S] \in Nat  BY <1>4, <1>5 DEF IsSum
<1>7. /\ g[S] <= Cardinality(S) * hi
      /\ q[S] + Cardinality(S) * (lo * hi) <= (hi + lo) * g[S]
  BY <1>3, <1>4, <1>5, SumBounds
<1>8. QED  BY <1>4, <1>5, <1>6, <1>7

-----------------------------------------------------------------------------
(* At a step of at most five tools, one is flagged only when it is the      *)
(* worst.                                                                   *)

\* Samuelson's inequality: of n values, none is further from the mean than the
\* square root of n - 1 deviations.
LEMMA Samuelson ==
  ASSUME NEW n \in Nat, n >= 2, NEW x \in Nat, NEW G \in Nat, NEW Q \in Nat,
         NEW k \in Int, k = n - 1, NEW c \in Int, c = G - x,
         (k * x - c) * (k * x - c) <= (k * k) * Q - (2 * (k * c)) * G + n * (c * c)
  PROVE  (n * x - G) * (n * x - G) <= (n - 1) * (n * Q - G * G)
<1>1. PICK p \in Int : p = Q - x * x
  <2>1. Q - x * x \in Int  BY SMT
  <2>2. QED  BY <2>1
<1>2. PICK z \in Int : z = k * p - c * c
  <2>1. k * p - c * c \in Int  BY SMT
  <2>2. QED  BY <2>1
<1>3. (k * k) * Q - (2 * (k * c)) * G + n * (c * c) - (k * x - c) * (k * x - c) = k * z
  <2>1. Q = p + x * x /\ G = c + x /\ n = k + 1  BY <1>1
  <2>2. (k * k) * (p + x * x) - (2 * (k * c)) * (c + x) + (k + 1) * (c * c)
          - (k * x - c) * (k * x - c) = k * (k * p - c * c)
    BY SMT
  <2>3. QED  BY <1>2, <2>1, <2>2
<1>4. 0 <= k * z
  <2>1. PICK a \in Int : a = (k * x - c) * (k * x - c)  BY SMT
  <2>2. PICK b \in Int : b = (k * k) * Q - (2 * (k * c)) * G + n * (c * c)
    <3>1. (k * k) * Q - (2 * (k * c)) * G + n * (c * c) \in Int  BY SMT
    <3>2. QED  BY <3>1
  <2>3. a <= b /\ b - a = k * z  BY <1>3, <2>1, <2>2
  <2>4. QED  BY <2>3
<1>5. 0 <= z
  <2>1. SUFFICES ASSUME z < 0 PROVE FALSE  OBVIOUS
  <2>2. k > 0  OBVIOUS
  <2>3. k * z < 0  BY <2>1, <2>2, SMT
  <2>4. k * z \in Int  BY SMT
  <2>5. QED  BY <1>4, <2>3, <2>4
<1>6. (n - 1) * (n * Q - G * G) - (n * x - G) * (n * x - G) = n * z
  <2>1. Q = p + x * x /\ G = c + x /\ n = k + 1  BY <1>1
  <2>2. k * ((k + 1) * (p + x * x) - (c + x) * (c + x))
          - ((k + 1) * x - (c + x)) * ((k + 1) * x - (c + x)) = (k + 1) * (k * p - c * c)
    BY SMT
  <2>3. QED  BY <1>2, <2>1, <2>2
<1>7. 0 <= n * z  BY <1>5, SMT
<1>8. PICK a \in Int : a = (n * x - G) * (n * x - G)
  <2>1. (n * x - G) * (n * x - G) \in Int  BY SMT
  <2>2. QED  BY <2>1
<1>9. PICK b \in Int : b = (n - 1) * (n * Q - G * G)
  <2>1. (n - 1) * (n * Q - G * G) \in Int  BY SMT
  <2>2. QED  BY <2>1
<1>10. b - a = n * z  BY <1>6, <1>8, <1>9
<1>11. QED  BY <1>7, <1>8, <1>9, <1>10

\* Of at most four values, none reaches two deviations above the mean.
LEMMA BeyondAll ==
  ASSUME NEW n \in 2 .. 4, NEW r \in Nat, NEW x \in Nat, NEW G \in Nat, NEW V \in Int,
         (n * x - G) * (n * x - G) <= (n - 1) * V,
         NEW delta \in Int, delta = n * r - G, delta > 0, 4 * V <= delta * delta
  PROVE  x < r
<1> SUFFICES ASSUME r <= x PROVE FALSE  OBVIOUS
<1>1. PICK e \in Int : e = n * x - G
  <2>1. n * x - G \in Int  BY SMT
  <2>2. QED  BY <2>1
<1>2. e >= delta
  <2>1. n * r <= n * x /\ n * r \in Int /\ n * x \in Int  BY SMT
  <2>2. QED  BY <1>1, <2>1
<1>3. PICK a \in Int : a = e * e  BY SMT
<1>4. PICK b \in Int : b = delta * delta  BY SMT
<1>5. b <= a /\ 0 < b  BY <1>2, <1>3, <1>4, SMT
<1>6. a <= (n - 1) * V  BY <1>1, <1>3
<1>7. n = 2 \/ n = 3 \/ n = 4  OBVIOUS
<1>8. a <= V \/ a <= 2 * V \/ a <= 3 * V  BY <1>6, <1>7
<1>9. QED  BY <1>4, <1>5, <1>8

\* No peer of a tool that two deviations set apart fails as often as it.
LEMMA FlaggedIsWorst ==
  ASSUME IsFiniteSet(StepTools), Cardinality(StepTools) <= 5, InspectedRows,
         NEW t, MayBeFlagged(t), NEW u \in Samples \ {t}
  PROVE  Rate(u) < Rate(t)
<1>1. t \in Samples /\ Cardinality(Peers(t)) >= 2 /\ Deviates(t)
  BY DEF MayBeFlagged
<1>2. IsFiniteSet(Samples) /\ \A x \in Samples : Rate(x) \in Nat
  BY SampleRates
<1>3. PICK S : S = Peers(t)  OBVIOUS
<1>4. IsFiniteSet(S) /\ u \in S /\ \A x \in S : Rate(x) \in Nat
  BY <1>2, <1>3, FS_RemoveElement DEF Peers
<1>5. PICK n \in 2 .. 4 : n = Cardinality(S)
  <2>1. Samples \in SUBSET StepTools  BY DEF Samples
  <2>2. Cardinality(Samples) <= Cardinality(StepTools)  BY <2>1, FS_Subset
  <2>3. Cardinality(Samples) \in Nat /\ Cardinality(StepTools) \in Nat
    BY <1>2, FS_CardinalityType
  <2>4. Cardinality(S) = Cardinality(Samples) - 1
    BY <1>1, <1>2, <1>3, FS_RemoveElement DEF Peers
  <2>5. QED  BY <1>1, <1>3, <2>2, <2>3, <2>4
<1>6. PICK w \in [S -> Nat] : w = Rates(S)  BY <1>4 DEF Rates
<1>7. PICK sq \in [S -> Nat] : sq = Squares(S)
  <2>1. \A x \in S : Rate(x) * Rate(x) \in Nat  BY <1>4
  <2>2. QED  BY <2>1 DEF Squares
<1>8. \A x \in S : w[x] = Rate(x) /\ sq[x] = w[x] * w[x]
  BY <1>6, <1>7 DEF Rates, Squares
<1>9. PICK g : IsSum(g, w, S) /\ SumRates(S) = g[S]  BY <1>4, <1>6, SumOfRates
<1>10. PICK q : IsSum(q, sq, S) /\ SumSquares(S) = q[S]  BY <1>4, <1>7, SumOfSquares
<1>11. PICK G \in Nat : G = g[S]  BY <1>9 DEF IsSum
<1>12. PICK Q \in Nat : Q = q[S]  BY <1>10 DEF IsSum
<1>13. PICK x \in Nat : x = w[u]  BY <1>4
<1>14. PICK r \in Nat : r = Rate(t)  BY <1>1, <1>2
<1>15. PICK k \in Int : k = n - 1  OBVIOUS
<1>16. PICK c \in Int : c = G - x  OBVIOUS
<1>17. PICK V \in Int : V = n * Q - G * G
  <2>1. n * Q - G * G \in Int  BY SMT
  <2>2. QED  BY <2>1
<1>18. PICK delta \in Int : delta = n * r - G
  <2>1. n * r - G \in Int  BY SMT
  <2>2. QED  BY <2>1
<1>19. delta > 0 /\ 4 * V <= delta * delta
  BY <1>1, <1>3, <1>5, <1>9, <1>10, <1>11, <1>12, <1>14, <1>17, <1>18
  DEF Deviates, Delta, Variance
<1>20. (k * x - c) * (k * x - c) <= (k * k) * Q - (2 * (k * c)) * G + n * (c * c)
  BY <1>4, <1>5, <1>8, <1>9, <1>10, <1>11, <1>12, <1>13, SquaresAround
<1>21. (n * x - G) * (n * x - G) <= (n - 1) * V
  BY <1>15, <1>16, <1>17, <1>20, Samuelson
<1>22. x < r  BY <1>18, <1>19, <1>21, BeyondAll
<1>23. QED  BY <1>4, <1>8, <1>13, <1>14, <1>22

-----------------------------------------------------------------------------
(* A clear outlier is flagged: the deviation of n values between lo and hi  *)
(* is at most half of hi - lo, and their mean is at most hi.                *)

LEMMA SpreadBound ==
  ASSUME NEW n \in Nat, NEW G \in Nat, NEW Q \in Nat, NEW lo \in Nat, NEW hi \in Nat,
         Q + n * (lo * hi) <= (hi + lo) * G
  PROVE  4 * (n * Q - G * G) <= (n * (hi - lo)) * (n * (hi - lo))
<1>1. PICK h \in Nat : h = hi + lo  OBVIOUS
<1>2. PICK p \in Nat : p = lo * hi  OBVIOUS
<1>3. n * Q <= n * (h * G - n * p)
  <2>1. PICK z \in Int : z = h * G - n * p  OBVIOUS
  <2>2. Q <= z  BY <1>1, <1>2, <2>1
  <2>3. n * Q <= n * z  BY <2>2, SMT
  <2>4. QED  BY <2>1, <2>3
<1>4. n * (h * G - n * p) = n * h * G - n * n * p  BY SMT
<1>5. 0 <= (n * h - 2 * G) * (n * h - 2 * G)  BY SMT
<1>6. (n * h - 2 * G) * (n * h - 2 * G) = n * n * h * h - 4 * (n * h * G) + 4 * (G * G)
  BY SMT
<1>7. (n * (hi - lo)) * (n * (hi - lo)) = n * n * h * h - 4 * (n * n * p)
  BY <1>1, <1>2, SMT
<1>8. /\ n * Q \in Int /\ G * G \in Int /\ n * h * G \in Int /\ n * n * p \in Int
      /\ n * n * h * h \in Int /\ (n * (hi - lo)) * (n * (hi - lo)) \in Int
  BY SMT
<1>9. QED  BY <1>3, <1>4, <1>5, <1>6, <1>7, <1>8

LEMMA FarBeyond ==
  ASSUME NEW n \in Nat, n >= 2, NEW r \in Nat, NEW G \in Nat, NEW V \in Int,
         NEW lo \in Nat, NEW hi \in Nat, lo <= hi, NEW scale \in Nat \ {0},
         10 * (r - hi) > scale, r - hi > hi - lo, G <= n * hi,
         4 * V <= (n * (hi - lo)) * (n * (hi - lo)),
         NEW delta \in Int, delta = n * r - G
  PROVE  delta > 0 /\ 4 * V < delta * delta /\ 100 * delta > 10 * n * scale
<1>1. PICK m \in Nat : m = r - hi  OBVIOUS
<1>2. PICK d \in Nat : d = hi - lo  OBVIOUS
<1>3. m > d /\ 10 * m > scale  BY <1>1, <1>2
<1>4. n * r = n * m + n * hi  BY <1>1, SMT
<1>5. n * m \in Nat /\ n * d \in Nat /\ n * hi \in Nat /\ n * scale \in Nat  BY SMT
<1>6. delta >= n * m  BY <1>4, <1>5
<1>7. n * m > n * d  BY <1>3, SMT
<1>8. 10 * (n * m) > n * scale
  <2>1. n * (10 * m) > n * scale  BY <1>3, SMT
  <2>2. n * (10 * m) = 10 * (n * m)  BY SMT
  <2>3. QED  BY <2>1, <2>2
<1>9. (n * d) * (n * d) < delta * delta
  <2>1. PICK k \in Nat : k = n * d  BY <1>5
  <2>2. k < delta  BY <1>5, <1>6, <1>7, <2>1
  <2>3. k * k < delta * delta  BY <2>2, SMT
  <2>4. QED  BY <2>1, <2>3
<1>10. 4 * V <= (n * d) * (n * d)  BY <1>2
<1>11. delta > 0  BY <1>5, <1>6, <1>7
<1>12. 4 * V < delta * delta
  <2>1. PICK y \in Int : y = (n * d) * (n * d)  BY <1>5
  <2>2. PICK z \in Int : z = delta * delta  OBVIOUS
  <2>3. QED  BY <1>9, <1>10, <2>1, <2>2
<1>13. 100 * delta > 10 * n * scale
  <2>1. 10 * n * scale = 10 * (n * scale)  BY SMT
  <2>2. QED  BY <1>5, <1>6, <1>8, <2>1
<1>14. QED  BY <1>11, <1>12, <1>13

LEMMA RateExtremes ==
  ASSUME NEW S, IsFiniteSet(S), S # {}, \A u \in S : Rate(u) \in Nat,
         NEW lo, lo = Min({Rate(u) : u \in S}), NEW hi, hi = Max({Rate(u) : u \in S})
  PROVE  /\ lo \in Nat /\ hi \in Nat /\ lo <= hi
         /\ \A u \in S : lo <= Rate(u) /\ Rate(u) <= hi
<1>1. PICK w : w = Rates(S)  OBVIOUS
<1>2. \A u \in S : w[u] = Rate(u)  BY <1>1 DEF Rates
<1>3. PICK V : V = {Rate(u) : u \in S}  OBVIOUS
<1>4. IsFiniteSet(V)
  <2>1. w \in Surjection(S, V)  BY <1>1, <1>2, <1>3 DEF Rates, Surjection
  <2>2. QED  BY <2>1, FS_Surjection DEF ExistsSurjection
<1>5. V \in SUBSET Int /\ V \subseteq Nat /\ V # {}  BY <1>3
<1>6. lo \in V /\ hi \in V /\ \A y \in V : lo <= y /\ hi >= y
  BY <1>3, <1>4, <1>5, MinOfFinite, MaxOfFinite
<1>7. QED  BY <1>3, <1>5, <1>6

LEMMA OutlierIsFlagged ==
  ASSUME IsFiniteSet(StepTools), InspectedRows, NEW t \in Samples,
         Cardinality(Peers(t)) >= 2,
         NEW hi, hi = Max({Rate(u) : u \in Peers(t)}),
         NEW lo, lo = Min({Rate(u) : u \in Peers(t)}),
         10 * (Rate(t) - hi) > Scale, Rate(t) - hi > hi - lo
  PROVE  IsFlagged(t)
<1>1. /\ IsFiniteSet(Samples) /\ Scale \in Nat \ {0}
      /\ \A x \in Samples : Rate(x) \in Nat
  BY SampleRates
<1>2. PICK S : S = Peers(t)  OBVIOUS
<1>3. IsFiniteSet(S) /\ \A u \in S : Rate(u) \in Nat
  BY <1>1, <1>2, FS_RemoveElement DEF Peers
<1>4. PICK n \in Nat : n = Cardinality(S)  BY <1>3, FS_CardinalityType
<1>5. S # {}  BY <1>2, <1>3, FS_EmptySet
<1>6. /\ lo \in Nat /\ hi \in Nat /\ lo <= hi
      /\ \A u \in S : lo <= Rate(u) /\ Rate(u) <= hi
  BY <1>2, <1>3, <1>5, RateExtremes
<1>7. /\ SumRates(S) \in Nat /\ SumSquares(S) \in Nat
      /\ SumRates(S) <= n * hi
      /\ SumSquares(S) + n * (lo * hi) <= (hi + lo) * SumRates(S)
  BY <1>3, <1>4, <1>6, PeerSums
<1>8. PICK G \in Nat : G = SumRates(S)  BY <1>7
<1>9. PICK Q \in Nat : Q = SumSquares(S)  BY <1>7
<1>10. PICK r \in Nat : r = Rate(t)  BY <1>1
<1>11. PICK scale \in Nat \ {0} : scale = Scale  BY <1>1
<1>12. PICK V \in Int : V = n * Q - G * G
  <2>1. n * Q - G * G \in Int  OBVIOUS
  <2>2. QED  BY <2>1
<1>13. PICK delta \in Int : delta = n * r - G
  <2>1. n * r - G \in Int  OBVIOUS
  <2>2. QED  BY <2>1
<1>14. Delta(t) = delta /\ Variance(t) = V
  BY <1>2, <1>4, <1>8, <1>9, <1>10, <1>12, <1>13 DEF Delta, Variance
<1>15. 4 * V <= (n * (hi - lo)) * (n * (hi - lo))
  BY <1>6, <1>7, <1>8, <1>9, <1>12, SpreadBound
<1>16. delta > 0 /\ 4 * V < delta * delta /\ 100 * delta > 10 * n * scale
  <2>1. n >= 2 /\ 10 * (r - hi) > scale /\ r - hi > hi - lo /\ G <= n * hi
    BY <1>2, <1>4, <1>7, <1>8, <1>10, <1>11
  <2>2. QED  BY <1>6, <1>13, <1>15, <2>1, FarBeyond
<1>17. DeltaAtLeast(t, 10) /\ 100 * Delta(t) # 10 * Cardinality(Peers(t)) * Scale
  <2>1. PICK z \in Int : z = 10 * n * scale  OBVIOUS
  <2>2. 100 * delta > z  BY <1>16, <2>1
  <2>3. 10 * Cardinality(Peers(t)) * Scale = z  BY <1>2, <1>4, <1>11, <2>1
  <2>4. QED  BY <1>14, <2>2, <2>3 DEF DeltaAtLeast
<1>18. Deviates(t) /\ 4 * Variance(t) # Delta(t) * Delta(t)
  <2>1. PICK z \in Int : z = delta * delta
    <3>1. delta * delta \in Int  BY SMT
    <3>2. QED  BY <3>1
  <2>2. 4 * V < z  BY <1>16, <2>1
  <2>3. QED  BY <1>14, <1>16, <2>1, <2>2 DEF Deviates
<1>19. QED  BY <1>17, <1>18 DEF MayBeFlagged, IsFlagged

-----------------------------------------------------------------------------
(* The specification.                                                       *)

\* The inspections leave the clocks alone.
LEMMA ReportsStep == [Next]_ReportsVars => [DownNext]_downVars
BY DEF Next, ReportsVars

\* The downtime rows of a tool always add up to its down_seconds, and what it
\* ran and was down is never more than its age: for any sequence of reports and
\* dispatches the audit of main.py:601 comes out even, and availability and the
\* uptime of MTBF are never negative.
THEOREM ClocksAgree == Spec => []ClocksAddUp
<1>1. Init => OutageInv  BY OutageStart DEF Init
<1>2. OutageInv /\ [Next]_ReportsVars => OutageInv'
  BY OutageStep, ReportsStep
<1>3. OutageInv => ClocksAddUp
  BY CountedAddsUp DEF OutageInv, RowsFit, ClocksAddUp, OutagesAddUp
<1>4. QED  BY <1>1, <1>2, <1>3, PTL DEF Spec

InspectionInv == InspectedRows /\ AnomaliesTypeOK

LEMMA InspectionStart == AnomaliesInit => InspectionInv
BY AnomaliesAssumption DEF AnomaliesInit, InspectionInv, InspectedRows, AnomaliesTypeOK

LEMMA InspectionStep == InspectionInv /\ [Next]_ReportsVars => InspectionInv'
<1> SUFFICES ASSUME InspectionInv, [Next]_ReportsVars PROVE InspectionInv'
  OBVIOUS
<1>1. CASE UNCHANGED inspected
  BY <1>1 DEF InspectionInv, InspectedRows, AnomaliesTypeOK
<1>2. ASSUME NEW t \in StepTools, NEW b \in Batches, Inspect(t, b)
      PROVE  InspectionInv'
  <2>1. b[1] \in Nat /\ b[2] \in Nat /\ b[2] <= b[1] /\ MaxInspections \in Nat
    BY AnomaliesAssumption
  <2>2. /\ inspected[t].total \in Nat /\ inspected[t].failures \in Nat
        /\ inspected[t].failures <= inspected[t].total
    BY DEF InspectionInv, InspectedRows, AnomaliesTypeOK
  <2>3. PICK row : row = [total |-> inspected[t].total + b[1],
                          failures |-> inspected[t].failures + b[2]]
    OBVIOUS
  <2>4. /\ row \in [total : Nat, failures : Nat]
        /\ row.total \in 0 .. MaxInspections /\ row.failures \in 0 .. row.total
    BY <1>2, <2>1, <2>2, <2>3 DEF Inspect
  <2>5. inspected' = [inspected EXCEPT ![t] = row]  BY <1>2, <2>3 DEF Inspect
  <2>6. InspectedRows'  BY <2>4, <2>5 DEF InspectionInv, InspectedRows
  <2>7. ASSUME NEW u \in StepTools
        PROVE  (inspected[u].total \in 0 .. MaxInspections
                /\ inspected[u].failures \in 0 .. inspected[u].total)'
    BY <2>4, <2>5 DEF InspectionInv, InspectedRows, AnomaliesTypeOK
  <2>8. QED  BY <2>6, <2>7 DEF InspectionInv, AnomaliesTypeOK
<1>3. QED  BY <1>1, <1>2 DEF Next, ReportsVars

LEMMA Inspections == Spec => []InspectionInv
<1>1. Init => InspectionInv  BY InspectionStart DEF Init
<1>2. QED  BY <1>1, InspectionStep, PTL DEF Spec

\* Every clock, row and number of inspections has its type, and no tool has
\* failed more inspections than it had.
THEOREM ReportTypes == Spec => []TypeOK
<1>1. Init => OutageInv  BY OutageStart DEF Init
<1>2. OutageInv /\ [Next]_ReportsVars => OutageInv'
  BY OutageStep, ReportsStep
<1>3. OutageInv /\ InspectionInv => TypeOK
  BY DEF OutageInv, ClockInv, InspectionInv, TypeOK
<1>4. QED  BY <1>1, <1>2, <1>3, Inspections, PTL DEF Spec

\* Over the common denominator Scale, a Rate is what main.py:1166 divides:
\* failures / total, with no remainder.
RatesAreExact ==
  /\ Scale \in Nat \ {0}
  /\ \A t \in Samples :
       Rate(t) \in Nat /\ Rate(t) * inspected[t].total = inspected[t].failures * Scale

\* The integers the statistics are computed with stand for the rates of the
\* code, whatever was inspected: nothing is lost in the division by a sample's
\* size, because the scale is a common multiple of all of them.
THEOREM ExactRates == Spec => []RatesAreExact
<1>1. InspectionInv => RatesAreExact
  BY AnomaliesAssumption, SampleRates DEF InspectionInv, RatesAreExact
<1>2. QED  BY <1>1, Inspections, PTL

\* At a step of at most five tools, _detect_quality_anomalies names a tool only
\* when it fails strictly more often than every other sample, whatever the
\* numbers of inspections and failures.
THEOREM NamesTheWorst ==
  ASSUME Cardinality(StepTools) <= 5
  PROVE  Spec => []OnlyTheWorstTool
<1>1. InspectionInv => OnlyTheWorstTool
  BY AnomaliesAssumption, FlaggedIsWorst DEF InspectionInv, OnlyTheWorstTool
<1>2. QED  BY <1>1, Inspections, PTL

\* A tool beyond its worst peer by more than ten points and by more than the
\* peers spread is named, for any number of tools and of inspections: the
\* deviation of the peers is at most half of their spread.
THEOREM FindsTheOutlier == Spec => []ClearOutlierIsFound
<1>1. InspectionInv => ClearOutlierIsFound
  <2> SUFFICES ASSUME InspectionInv, NEW t \in Samples,
                      NEW hi, hi = Max({Rate(u) : u \in Samples \ {t}}),
                      NEW lo, lo = Min({Rate(u) : u \in Samples \ {t}}),
                      Cardinality(Samples \ {t}) >= 2,
                      10 * (Rate(t) - hi) > Scale, Rate(t) - hi > hi - lo
               PROVE  IsFlagged(t)
    BY DEF ClearOutlierIsFound
  <2>1. QED
    BY AnomaliesAssumption, OutlierIsFlagged DEF InspectionInv, Peers
<1>2. QED  BY <1>1, Inspections, PTL
=============================================================================
