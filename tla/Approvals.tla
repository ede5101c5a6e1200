----------------------------- MODULE Approvals ------------------------------
(***************************************************************************)
(* The approval queue (app/approvals.py).  Agents propose; a proposal with *)
(* the dedupe key of a PENDING request is folded into it, any other opens  *)
(* one.  People decide requests, and a sweep run by every listing expires  *)
(* the overdue ones.  A fold is written to the row that was read PENDING,  *)
(* with no condition on what it is by then; decisions and sweeps are       *)
(* conditional UPDATEs.                                                    *)
(***************************************************************************)
EXTENDS Integers, Sequences, FiniteSets

CONSTANTS
  Keys,            \* dedupe keys
  Risks,           \* the values of RISK_ORDER
  Texts,           \* title, proposal and evidence, as one value
  Ttls,            \* ttl_seconds of the proposals, in clock units, or Never
  Proposers,       \* clients that propose: the engine's control tower, agents
                   \* and scripts over HTTP; each has one proposal in flight
  People,          \* clients that decide
  Dashboards,      \* clients that list the queue
  Never,           \* SQL NULL in expires_at
  MaxTime,         \* bound: the clock
  MaxRequests,     \* bound: rows
  MaxCount         \* bound: occurrence_count

ASSUME ApprovalsAssumption ==
  /\ Risks \subseteq Nat
  /\ Never \notin Nat
  /\ Ttls \subseteq (Nat \ {0}) \cup {Never}
  /\ MaxTime \in Nat /\ MaxRequests \in Nat /\ MaxCount \in Nat

VARIABLES
  clock,      \* utcnow()
  request,    \* the approval_request table; the index is the id
  job         \* what each client's handler holds between its calls

vars == <<clock, request, job>>

Clients == Proposers \cup People \cup Dashboards
ApprovalStatus == {"PENDING", "APPROVED", "REJECTED", "EXPIRED"}

ApprovalRow ==
  [key : Keys, status : ApprovalStatus, risk : Risks, text : Texts,
   count : Nat \ {0}, expires : Nat \cup {Never}]

Proposal == [key : Keys, risk : Risks, text : Texts, expires : Nat \cup {Never}]

Job ==
       [pc : {"idle"}]
  \cup [pc : {"insert"}, p : Proposal]
  \cup [pc : {"fold"}, p : Proposal, id : Nat \ {0}, seen : ApprovalRow]
  \cup [pc : {"decide"}, id : Nat \ {0}, now : Nat]
  \cup [pc : {"sweep"}, now : Nat]

TypeOK ==
  /\ clock \in 0 .. MaxTime
  /\ request \in Seq(ApprovalRow)
  /\ job \in [Clients -> Job]

Idle == [pc |-> "idle"]

Init ==
  /\ clock = 0
  /\ request = <<>>
  /\ job = [c \in Clients |-> Idle]

Becomes(c, j) == job' = [job EXCEPT ![c] = j]
Answers(c) == Becomes(c, Idle)

-----------------------------------------------------------------------------
(* upsert_request                                                          *)

\* Mutant: the time to live is subtracted.
ExpiryInThePast(now, ttl) == IF ttl = Never THEN Never ELSE now - ttl

ExpiresAt(now, ttl) == IF ttl = Never THEN Never ELSE now + ttl

\* Mutant: a request past its expiry is not folded into.
PendingInTime(key) ==
  {i \in DOMAIN request :
     /\ request[i].key = key
     /\ request[i].status = "PENDING"
     /\ request[i].expires = Never \/ request[i].expires >= clock}

\* A PENDING request counts whether or not it is overdue.
Pending(key) ==
  {i \in DOMAIN request : request[i].key = key /\ request[i].status = "PENDING"}

\* Several PENDING rows of one key have no order: first() is any of them.
FindPending(c, key, risk, text, expires) ==
  LET p == [key |-> key, risk |-> risk, text |-> text, expires |-> expires]
  IN
  /\ job[c] = Idle
  /\ \/ /\ Pending(key) = {} /\ Len(request) < MaxRequests
        /\ Becomes(c, [pc |-> "insert", p |-> p])
     \/ \E i \in Pending(key) :
          /\ request[i].count < MaxCount
          /\ Becomes(c, [pc |-> "fold", p |-> p, id |-> i, seen |-> request[i]])
  /\ UNCHANGED <<clock, request>>

CommitInsert(c) ==
  LET p == job[c].p IN
  /\ job[c].pc = "insert"
  /\ Len(request) < MaxRequests
  /\ request' = Append(request,
       [key |-> p.key, status |-> "PENDING", risk |-> p.risk, text |-> p.text,
        count |-> 1, expires |-> p.expires])
  /\ Answers(c)
  /\ UNCHANGED clock

\* A column is in the UPDATE only when it differs from what was read.
Written(new, seen, current) == IF new = seen THEN current ELSE new

\* Mutant: the risk is the one reported last.
LatestRisk(p, seen, current) == Written(p.risk, seen.risk, current.risk)

PeakRisk(p, seen, current) == IF p.risk > seen.risk THEN p.risk ELSE current.risk

Folded(p, seen, current) ==
  [current EXCEPT
     !.count   = seen.count + 1,
     !.expires = Written(p.expires, seen.expires, @),
     !.text    = Written(p.text, seen.text, @),
     !.risk    = PeakRisk(p, seen, current)]

CommitFold(c) ==
  LET j == job[c] IN
  /\ j.pc = "fold"
  /\ request' = [request EXCEPT ![j.id] = Folded(j.p, j.seen, @)]
  /\ Answers(c)
  /\ UNCHANGED clock

-----------------------------------------------------------------------------
(* decide and expire_stale: both compare with the time their request began *)

Overdue(row, now) == row.expires # Never /\ row.expires < now

ReceiveDecision(c, i) ==
  /\ job[c] = Idle
  /\ Becomes(c, [pc |-> "decide", id |-> i, now |-> clock])
  /\ UNCHANGED <<clock, request>>

\* Mutant: the UPDATE does not ask for a PENDING row.
NotOverdue(row, now) == ~ Overdue(row, now)

Decidable(row, now) == row.status = "PENDING" /\ ~ Overdue(row, now)

\* The outcome, an input of the request, plays no part before this.
CommitDecision(c, outcome) ==
  LET j == job[c] IN
  /\ j.pc = "decide"
  /\ Decidable(request[j.id], j.now)
  /\ request' = [request EXCEPT ![j.id].status = outcome]
  /\ Answers(c)
  /\ UNCHANGED clock

ReceiveListing(c) ==
  /\ job[c] = Idle
  /\ Becomes(c, [pc |-> "sweep", now |-> clock])
  /\ UNCHANGED <<clock, request>>

\* Mutant: the comparison with expires_at is the wrong way round.
StillInTime(row, now) ==
  row.status = "PENDING" /\ row.expires # Never /\ row.expires > now

Stale(row, now) == row.status = "PENDING" /\ Overdue(row, now)

CommitSweep(c) ==
  LET j == job[c] IN
  /\ j.pc = "sweep"
  /\ request' = [i \in DOMAIN request |->
       IF Stale(request[i], j.now)
         THEN [request[i] EXCEPT !.status = "EXPIRED"]
         ELSE request[i]]
  /\ Answers(c)
  /\ UNCHANGED clock

-----------------------------------------------------------------------------

\* A request ends without a write: its UPDATE matched no row (409), the
\* connection was lost or the server crashed.
Abandon(c) ==
  /\ job[c] # Idle
  /\ Answers(c)
  /\ UNCHANGED <<clock, request>>

Tick ==
  /\ clock < MaxTime
  /\ clock' = clock + 1
  /\ UNCHANGED <<request, job>>

Propose(c) ==
  \/ \E key \in Keys, risk \in Risks, text \in Texts, ttl \in Ttls :
       FindPending(c, key, risk, text, ExpiresAt(clock, ttl))
  \/ CommitInsert(c)
  \/ CommitFold(c)

Decide(c) ==
  \/ \E i \in DOMAIN request : ReceiveDecision(c, i)
  \/ \E outcome \in {"APPROVED", "REJECTED"} : CommitDecision(c, outcome)

List(c) == ReceiveListing(c) \/ CommitSweep(c)

Next ==
  \/ \E c \in Proposers : Propose(c)
  \/ \E c \in People : Decide(c)
  \/ \E c \in Dashboards : List(c)
  \/ \E c \in Clients : Abandon(c)
  \/ Tick

\* An open dashboard polls the queue every few seconds, and a poll that is
\* tried again and again is not refused the database for ever.
Fairness ==
  /\ WF_vars(Tick)
  /\ \A c \in Dashboards : WF_vars(ReceiveListing(c)) /\ SF_vars(CommitSweep(c))

Spec == Init /\ [][Next]_vars /\ Fairness

-----------------------------------------------------------------------------

\* The PENDING rows of a key, whether or not a search would find them.
OpenRows(key) ==
  {i \in DOMAIN request : request[i].key = key /\ request[i].status = "PENDING"}

\* One standing problem is one request that counts up, not several
\* (models.py:242): a key has at most one PENDING row.  Nothing but the search
\* before the insert says so: the table has no such constraint.
OnePendingPerKey == \A key \in Keys : Cardinality(OpenRows(key)) <= 1

\* What the search does ensure: each client finds the row it inserted, or
\* another, before it inserts again.  Whatever is decided and expires meanwhile,
\* a key never has more PENDING rows, with the inserts still under way, than
\* there are clients that propose.
Inserting(key) == {c \in Proposers : job[c].pc = "insert" /\ job[c].p.key = key}

PendingWithinProposers ==
  \A key \in Keys :
    Cardinality(OpenRows(key)) + Cardinality(Inserting(key)) <= Cardinality(Proposers)

\* Two people, or a person and a sweep, never both settle one request, and
\* nothing reopens it.
DecisionIsFinal ==
  [][\A i \in DOMAIN request :
       request[i].status # "PENDING" => request'[i].status = request[i].status]_vars

\* A proposal is folded into a request only while that is PENDING
\* (approvals.py:71): what a person has decided on stays as it was decided.
DecidedRequestStands ==
  [][\A i \in DOMAIN request : request[i].status # "PENDING" =>
       request'[i] = request[i]]_vars

\* A request past its expiry does not wait for ever (models.py:244): it is
\* settled, or a new report of the problem renews it.
OverdueIsSettled ==
  \A i \in 1 .. MaxRequests :
    LET waits == /\ i \in DOMAIN request
                 /\ request[i].status = "PENDING" /\ Overdue(request[i], clock)
    IN  waits ~> ~ waits

\* The queue keeps the promise of ApprovalPromise: in particular the risk
\* shown is the peak reported since the request was opened.
CLOSED == -1
OpenRisk(key) ==
  IF Pending(key) = {} THEN CLOSED ELSE request[CHOOSE i \in Pending(key) : TRUE].risk
SettledOf(key) ==
  {<<i, request[i].status>> :
     i \in {k \in DOMAIN request : request[k].key = key /\ request[k].status # "PENDING"}}

Promise ==
  INSTANCE ApprovalPromise WITH
    Closed  <- CLOSED,
    Tickets <- 1 .. MaxRequests,
    open    <- [key \in Keys |-> OpenRisk(key)],
    settled <- [key \in Keys |-> SettledOf(key)]

KeepsPromise == Promise!Spec
=============================================================================
