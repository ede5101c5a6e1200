------------------------------ MODULE MCChecks ------------------------------
(***************************************************************************)
(* A small instance of Checks for TLC.                                     *)
(***************************************************************************)
EXTENDS Checks, TLC

CONSTANTS etch1, etch2, Etching, null

Interchangeable == Permutations(Tools)
=============================================================================
