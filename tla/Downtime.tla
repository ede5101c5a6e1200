------------------------------ MODULE Downtime ------------------------------
(***************************************************************************)
(* The equipment clocks of app/main.py: run_seconds and down_seconds, which*)
(* are brought up to date only when the status is written, the downtime    *)
(* rows, and the totals every report starts from.  One request at a time:  *)
(* ShopFloor shows what races do to the rows.                              *)
(***************************************************************************)
EXTENDS Integers, Sequences, FiniteSets

CONSTANTS
  Tools,
  Open,            \* SQL NULL in ended_at
  MaxTime,         \* bound: the clock
  MaxOutages       \* bound: downtime rows per tool

ASSUME DowntimeAssumption ==
  Open \notin Nat /\ MaxTime \in Nat /\ MaxOutages \in Nat

VARIABLES
  clock,      \* utcnow(); the equipment was created at 0
  eq,         \* the equipment table
  outage      \* the equipment_downtime_event rows of each tool

downVars == <<clock, eq, outage>>

EquipmentRow ==
  [status : {"RUN", "IDLE", "DOWN"}, run : Nat, down : Nat, since : Nat]
OutageRow == [started : Nat, ended : Nat \cup {Open}]

DownInit ==
  /\ clock = 0
  /\ eq = [t \in Tools |-> [status |-> "IDLE", run |-> 0, down |-> 0, since |-> 0]]
  /\ outage = [t \in Tools |-> <<>>]

\* Mutant: last_status_change moves only when the status does.
StampedOnChange(row, status, now) ==
  [row EXCEPT !.status = status, !.since = IF status = row.status THEN @ ELSE now]

Stamped(row, status, now) == [row EXCEPT !.status = status, !.since = now]

\* The stretch since the last change is added to its counter.
Flushed(row, now) ==
  [row EXCEPT !.run  = IF row.status = "RUN"  THEN @ + (now - row.since) ELSE @,
              !.down = IF row.status = "DOWN" THEN @ + (now - row.since) ELSE @]

\* The open row that started last.
OpenRows(t) == {i \in DOMAIN outage[t] : outage[t][i].ended = Open}
LatestOpen(t) ==
  {i \in OpenRows(t) : \A k \in OpenRows(t) : outage[t][k].started <= outage[t][i].started}

SetStatus(t, status) ==
  /\ eq' = [eq EXCEPT ![t] = Stamped(Flushed(@, clock), status, clock)]
  /\ \/ /\ eq[t].status # "DOWN" /\ status = "DOWN"
        /\ Len(outage[t]) < MaxOutages
        /\ outage' = [outage EXCEPT ![t] = Append(@, [started |-> clock, ended |-> Open])]
     \/ /\ eq[t].status = "DOWN" /\ status # "DOWN"
        /\ IF OpenRows(t) = {} THEN UNCHANGED outage
           ELSE \E i \in LatestOpen(t) : outage' = [outage EXCEPT ![t][i].ended = clock]
     \/ /\ (eq[t].status = "DOWN") = (status = "DOWN")
        /\ UNCHANGED outage
  /\ UNCHANGED clock

\* advance_lot sends a lot to a tool that is not down.
Dispatch(t) ==
  /\ eq[t].status # "DOWN"
  /\ eq' = [eq EXCEPT ![t] = Stamped(Flushed(@, clock), "RUN", clock)]
  /\ UNCHANGED <<clock, outage>>

Tick ==
  /\ clock < MaxTime
  /\ clock' = clock + 1
  /\ UNCHANGED <<eq, outage>>

DownNext ==
  \/ \E t \in Tools, status \in {"RUN", "IDLE", "DOWN"} : SetStatus(t, status)
  \/ \E t \in Tools : Dispatch(t)
  \/ Tick

DownSpec == DownInit /\ [][DownNext]_downVars

-----------------------------------------------------------------------------
(* What the reports add up.                                                *)

EffectiveRun(t) ==
  eq[t].run + (IF eq[t].status = "RUN" THEN clock - eq[t].since ELSE 0)
EffectiveDown(t) ==
  eq[t].down + (IF eq[t].status = "DOWN" THEN clock - eq[t].since ELSE 0)

\* The length of an outage, up to now when it is still open.
Lasted(row) == (IF row.ended = Open THEN clock ELSE row.ended) - row.started
\* The seconds of each row, and their number: the sum of the rows' lengths.
SecondsOf(t) == UNION {{i} \X (1 .. Lasted(outage[t][i])) : i \in DOMAIN outage[t]}
OutageSeconds(t) == Cardinality(SecondsOf(t))

OutagesAddUp == \A t \in Tools : EffectiveDown(t) = OutageSeconds(t)
TimeAddsUp == \A t \in Tools : EffectiveRun(t) + EffectiveDown(t) <= clock

\* A tool's downtime rows add up to its down_seconds (main.py:601, "lets a
\* reader audit that total against the sum of these rows"), however often a
\* status is reported again; and no second is counted twice: what a tool ran and
\* was down is at most its age, so that the uptime of MTBF is never negative and
\* the clamp of availability (main.py:176) never hides anything.
ClocksAddUp == OutagesAddUp /\ TimeAddsUp

DownTypeOK ==
  /\ clock \in Nat
  /\ eq \in [Tools -> EquipmentRow]
  /\ outage \in [Tools -> Seq(OutageRow)]
=============================================================================
