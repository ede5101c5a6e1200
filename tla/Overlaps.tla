------------------------------ MODULE Overlaps ------------------------------
(***************************************************************************)
(* What the equipment handlers promise as long as no two requests have     *)
(* ever been under way at once.  A history variable, added to the steps of *)
(* ShopFloor and read by none of them, remembers whether two have.         *)
(***************************************************************************)
EXTENDS ShopFloor

VARIABLE overlapped   \* history: two requests were once under way at once

historyVars == <<vars, overlapped>>

UnderWay == {c \in Clients : req[c] # Idle}

OverlapsInit == Init /\ overlapped = FALSE

OverlapsNext ==
  /\ Next
  /\ overlapped' = (overlapped \/ Cardinality(UnderWay') > 1)

OverlapsSpec == OverlapsInit /\ [][OverlapsNext]_historyVars

-----------------------------------------------------------------------------

\* Until two requests overlap, dispatch_count is the number of dispatches: it
\* is a race alone that loses one (advance_lot, main.py:755 and 791).
CountsExactUntilOverlap == overlapped \/ DispatchCountIsExact

\* Until two requests overlap, the tools of a step that were never down share
\* the work evenly (docs/architecture/domain-model-and-state-machines.md:88).
WorkEvenUntilOverlap == overlapped \/ DispatchIsEven

\* Until two requests overlap, exactly one outage is open while a tool is
\* down and none otherwise (set_equipment_status, main.py:640-668).
OutagesExactUntilOverlap == overlapped \/ OutageOpenIffDown

\* Until two requests overlap, a lot is put on HOLD only when no tool of its
\* step is available (docs/architecture/domain-model-and-state-machines.md:84).
HoldsStarvedUntilOverlap ==
  [][overlapped' \/ \A l \in Lots :
       lot'[l].status = "HOLD" /\ lot[l].status # "HOLD"
         => \A t \in Tools : ToolStep[t] = lot[l].step => tool[t].status = "DOWN"]_historyVars
=============================================================================
