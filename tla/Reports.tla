------------------------------ MODULE Reports -------------------------------
(***************************************************************************)
(* What the report endpoints of app/main.py compute, over the two tables   *)
(* they read: the equipment clocks and the inspections of one step.        *)
(***************************************************************************)
EXTENDS Downtime, Anomalies

ReportsVars == <<downVars, inspected>>

Init == DownInit /\ AnomaliesInit

Next ==
  \/ DownNext /\ UNCHANGED inspected
  \/ \E t \in StepTools, b \in Batches : Inspect(t, b) /\ UNCHANGED downVars

Spec == Init /\ [][Next]_ReportsVars

\* Every counter and every row has its type.
TypeOK == DownTypeOK /\ AnomaliesTypeOK
=============================================================================
