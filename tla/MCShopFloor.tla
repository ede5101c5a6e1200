---------------------------- MODULE MCShopFloor -----------------------------
(***************************************************************************)
(* Small instances of ShopFloor for TLC.                                   *)
(***************************************************************************)
EXTENDS ShopFloor, TLC

CONSTANTS c1, c2, l1, l2, t1, t2, t3, w1

\* One tool per step of a two-step route.
OnePerStep == t1 :> 0 @@ t2 :> 1
\* A single tool; no lot goes past the first step.
FirstStepOnly == t1 :> 0

LotEndpoints == AllEndpoints \ {"work-orders"}
FloorEndpoints == {"lots", "advance", "equipment-status"}
OrderEndpoints == AllEndpoints \ {"equipment-status", "lots"}

\* Two tools run the last step.
OneThenTwo == t1 :> 0 @@ t2 :> 1 @@ t3 :> 1

Interchangeable == Permutations(Clients) \cup Permutations(Lots)
InterchangeableInspectTools == Interchangeable \cup Permutations({t2, t3})
=============================================================================
