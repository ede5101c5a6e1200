------------------------------ MODULE MCTower -------------------------------
(***************************************************************************)
(* A small instance of ControlTower for TLC: one tool, reported on as its  *)
(* condition worsens and eases; its step and the plant are not.            *)
(***************************************************************************)
EXTENDS ControlTower

CONSTANTS tower, etch1, Etching, plant

Sees(severity, downs, burst, wait) ==
  [severity |-> [t \in Tools |-> severity], downs |-> [t \in Tools |-> downs],
   burst |-> burst, wait |-> [s \in ProcessSteps |-> wait]]

\* A tool that has gone down three times, then four; one whose lots fail as well.
Observed ==
  {Sees("NONE", 3, 0, 0), Sees("NONE", 4, 0, 0), Sees("CRITICAL", 3, 0, 0)}

AllTexts == SUBSET ActionKinds
AllRisks == RiskLevels
=============================================================================
