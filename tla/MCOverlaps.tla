----------------------------- MODULE MCOverlaps -----------------------------
(***************************************************************************)
(* Small instances of Overlaps for TLC.                                    *)
(***************************************************************************)
EXTENDS Overlaps, MCShopFloor
=============================================================================
