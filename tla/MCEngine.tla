------------------------------ MODULE MCEngine -------------------------------
(***************************************************************************)
(* A small instance of Engine for TLC: one tool per step of a two-step     *)
(* route.                                                                  *)
(***************************************************************************)
EXTENDS Engine, TLC

CONSTANTS loop1, loop2, l1, l2, t1, t2

OnePerStep == t1 :> 0 @@ t2 :> 1
=============================================================================
