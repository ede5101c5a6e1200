----------------------------- MODULE MCApprovals ----------------------------
(***************************************************************************)
(* Small instances of Approvals for TLC.                                   *)
(***************************************************************************)
EXTENDS Approvals

CONSTANTS tower, script, ann, board, k1, x, y
=============================================================================
