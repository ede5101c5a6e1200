-------------------------- MODULE ApprovalPromise ---------------------------
(***************************************************************************)
(* What the approval queue promises: a standing problem, named by its      *)
(* dedupe key, is at most one open request; the request shows the highest  *)
(* risk reported while it was open; and it is settled once.                *)
(***************************************************************************)
EXTENDS Naturals

CONSTANTS
  Keys, Risks,
  Tickets,     \* what tells one request from another
  Closed       \* no request of the key is open

VARIABLES
  open,      \* the risk of each key's open request, or Closed
  settled    \* the earlier requests of the key, each with how it ended

promiseVars == <<open, settled>>

Outcomes == {"APPROVED", "REJECTED", "EXPIRED"}

Init ==
  /\ open = [k \in Keys |-> Closed]
  /\ settled = [k \in Keys |-> {}]

Higher(r, s) == IF r > s THEN r ELSE s

Raise(k, risk) ==
  /\ open' = [open EXCEPT ![k] = IF @ = Closed THEN risk ELSE Higher(@, risk)]
  /\ UNCHANGED settled

\* A person settles one request; a sweep settles all that are overdue.
Settle(ks, outcome) ==
  \E ticket \in [ks -> Tickets] :
    /\ \A k \in ks : /\ open[k] # Closed
                    /\ \A o \in Outcomes : <<ticket[k], o>> \notin settled[k]
    /\ open' = [k \in Keys |-> IF k \in ks THEN Closed ELSE open[k]]
    /\ settled' = [k \in Keys |-> IF k \in ks
                                    THEN settled[k] \cup {<<ticket[k], outcome>>}
                                    ELSE settled[k]]

Next ==
  \/ \E k \in Keys, risk \in Risks : Raise(k, risk)
  \/ \E k \in Keys, outcome \in Outcomes \ {"EXPIRED"} : Settle({k}, outcome)
  \/ \E ks \in SUBSET Keys : Settle(ks, "EXPIRED")

Spec == Init /\ [][Next]_promiseVars
=============================================================================
