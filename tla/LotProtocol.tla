---------------------------- MODULE LotProtocol -----------------------------
(***************************************************************************)
(* What the lot commands promise to the caller of the API: every command   *)
(* acts as if it ran alone on the lot's current state.  There are no       *)
(* snapshots here and no requests in flight; a command is one step, with   *)
(* its whole precondition evaluated on the state it changes.               *)
(***************************************************************************)
EXTENDS Integers, Sequences, FiniteSets, LotStates

CONSTANTS Lots, RouteLength, MaxReworkCycles

VARIABLES
  status,    \* of each lot, or "ABSENT"
  step,      \* process steps completed
  verdicts   \* results of the inspections so far, with what was decided

protocolVars == <<status, step, verdicts>>

Verdict(result, disposition) == [result |-> result, disposition |-> disposition]

Newest(l) == verdicts[l][Len(verdicts[l])]
Undecided(l) == verdicts[l] # <<>> /\ Newest(l).disposition = "PENDING"
Reworked(l) == Cardinality({i \in DOMAIN verdicts[l] :
                              verdicts[l][i].disposition = "REWORK"})

Init ==
  /\ status = [l \in Lots |-> "ABSENT"]
  /\ step = [l \in Lots |-> 0]
  /\ verdicts = [l \in Lots |-> <<>>]

Moves(l, s) == status' = [status EXCEPT ![l] = s]

Create(l) ==
  /\ status[l] = "ABSENT"
  /\ Moves(l, "WAITING")
  /\ UNCHANGED <<step, verdicts>>

Hold(l) ==
  /\ status[l] \in {"WAITING", "PROCESSING"}
  /\ Moves(l, "HOLD")
  /\ UNCHANGED <<step, verdicts>>

\* One more process step; after the last the lot waits for its inspection.
RunStep(l) ==
  /\ status[l] \in Advanceable
  /\ step[l] < RouteLength
  /\ step' = [step EXCEPT ![l] = @ + 1]
  /\ LET next == IF step[l] + 1 = RouteLength THEN "QUALITY_HOLD" ELSE "PROCESSING"
     IN  TransitionAllowed(status[l], next) /\ Moves(l, next)
  /\ UNCHANGED verdicts

Pass(l) ==
  /\ status[l] = "QUALITY_HOLD"
  /\ ~ Undecided(l)
  /\ Moves(l, "DONE")
  /\ verdicts' = [verdicts EXCEPT ![l] = Append(@, Verdict("PASS", "NONE"))]
  /\ UNCHANGED step

Fail(l) ==
  /\ status[l] = "QUALITY_HOLD"
  /\ ~ Undecided(l)
  /\ verdicts' = [verdicts EXCEPT ![l] = Append(@, Verdict("FAIL", "PENDING"))]
  /\ UNCHANGED <<status, step>>

Decide(l, disposition, s) ==
  /\ status[l] = "QUALITY_HOLD"
  /\ Undecided(l)
  /\ Moves(l, s)
  /\ verdicts' = [verdicts EXCEPT ![l][Len(verdicts[l])].disposition = disposition]
  /\ UNCHANGED step

Scrap(l) == Decide(l, "SCRAP", "SCRAPPED")

Rework(l) == Reworked(l) < MaxReworkCycles /\ Decide(l, "REWORK", "REWORK")

Reenter(l, s) ==
  /\ status[l] = "REWORK"
  /\ Moves(l, "WAITING")
  /\ step' = [step EXCEPT ![l] = s]
  /\ UNCHANGED verdicts

Next ==
  \E l \in Lots :
    \/ Create(l) \/ Hold(l) \/ RunStep(l)
    \/ Pass(l) \/ Fail(l) \/ Scrap(l) \/ Rework(l)
    \/ \E s \in 0 .. RouteLength - 1 : Reenter(l, s)

Spec == Init /\ [][Next]_protocolVars
=============================================================================
