-------------------------- MODULE ApprovalsProofs ---------------------------
(***************************************************************************)
(* Proofs about the approval queue, for any keys, risks and clients.       *)
(***************************************************************************)
EXTENDS Approvals, FiniteSetTheorems, TLAPS

USE ApprovalsAssumption

\* The fields of a job are those of its pc.
LEMMA JobFields ==
  ASSUME TypeOK, NEW c \in Clients
  PROVE  /\ job[c].pc = "insert" => job[c].p \in Proposal
         /\ job[c].pc = "fold" =>
              job[c].p \in Proposal /\ job[c].id \in Nat \ {0} /\ job[c].seen \in ApprovalRow
         /\ job[c].pc = "decide" => job[c].id \in Nat \ {0} /\ job[c].now \in Nat
         /\ job[c].pc = "sweep" => job[c].now \in Nat
<1>1. job[c] \in Job  BY DEF TypeOK
<1>2. QED  BY <1>1 DEF Job

\* A client that only replaces its own job keeps the jobs' type.
LEMMA JobsTyped ==
  ASSUME TypeOK, NEW c \in Clients, NEW j \in Job, Becomes(c, j)
  PROVE  job' \in [Clients -> Job]
BY DEF TypeOK, Becomes

LEMMA AnswersTyped ==
  ASSUME TypeOK, NEW c \in Clients, Answers(c)
  PROVE  job' \in [Clients -> Job]
<1>1. Idle \in Job  BY DEF Idle, Job
<1>2. QED  BY <1>1, JobsTyped DEF Answers

LEMMA TypeInit == Init => TypeOK
<1>1. Idle \in Job  BY DEF Idle, Job
<1>2. QED  BY <1>1 DEF Init, TypeOK

LEMMA FindTyped ==
  ASSUME TypeOK, NEW c \in Clients, NEW key \in Keys, NEW risk \in Risks,
         NEW text \in Texts, NEW expires \in Nat \cup {Never},
         FindPending(c, key, risk, text, expires)
  PROVE  TypeOK'
<1> DEFINE p == [key |-> key, risk |-> risk, text |-> text, expires |-> expires]
<1>1. p \in Proposal
  BY DEF Proposal
<1>2. UNCHANGED <<clock, request>>  BY DEF FindPending
<1>3. job' \in [Clients -> Job]
  <2>1. CASE Becomes(c, [pc |-> "insert", p |-> p])
    <3>1. [pc |-> "insert", p |-> p] \in Job  BY <1>1 DEF Job
    <3>2. QED  BY <2>1, <3>1, JobsTyped
  <2>2. ASSUME NEW i \in Pending(key),
               Becomes(c, [pc |-> "fold", p |-> p, id |-> i, seen |-> request[i]])
        PROVE  job' \in [Clients -> Job]
    <3>1. i \in Nat \ {0} /\ request[i] \in ApprovalRow
      BY DEF Pending, TypeOK
    <3>2. [pc |-> "fold", p |-> p, id |-> i, seen |-> request[i]] \in Job
      BY <1>1, <3>1 DEF Job
    <3>3. QED  BY <2>2, <3>2, JobsTyped
  <2>3. QED  BY <2>1, <2>2 DEF FindPending
<1>4. QED  BY <1>2, <1>3 DEF TypeOK

\* Replacing every row by a row keeps the table's type.
LEMMA RowsTyped ==
  ASSUME TypeOK, NEW f, f = [i \in DOMAIN request |-> f[i]],
         \A i \in DOMAIN request : f[i] \in ApprovalRow
  PROVE  f \in Seq(ApprovalRow)
<1>1. request \in Seq(ApprovalRow) /\ DOMAIN request = 1 .. Len(request) /\ Len(request) \in Nat
  BY DEF TypeOK
<1>2. f \in [1 .. Len(request) -> ApprovalRow]  BY <1>1
<1>3. QED  BY <1>1, <1>2

LEMMA InsertTyped ==
  ASSUME TypeOK, NEW c \in Clients, CommitInsert(c)
  PROVE  TypeOK'
<1>1. job[c].p \in Proposal  BY JobFields DEF CommitInsert
<1> DEFINE row == [key |-> job[c].p.key, status |-> "PENDING", risk |-> job[c].p.risk,
                   text |-> job[c].p.text, count |-> 1, expires |-> job[c].p.expires]
<1>2. row \in ApprovalRow  BY <1>1 DEF Proposal, ApprovalRow, ApprovalStatus
<1>3. request' = Append(request, row)  BY DEF CommitInsert
<1>4. request' \in Seq(ApprovalRow)  BY <1>2, <1>3 DEF TypeOK
<1>5. job' \in [Clients -> Job]  BY AnswersTyped DEF CommitInsert
<1>6. QED  BY <1>4, <1>5 DEF CommitInsert, TypeOK

LEMMA FoldedTyped ==
  ASSUME NEW p \in Proposal, NEW seen \in ApprovalRow, NEW row \in ApprovalRow
  PROVE  Folded(p, seen, row) \in ApprovalRow
<1>1. seen.count + 1 \in Nat \ {0}  BY DEF ApprovalRow
<1>2. Written(p.expires, seen.expires, row.expires) \in Nat \cup {Never}
  BY DEF Written, ApprovalRow, Proposal
<1>3. Written(p.text, seen.text, row.text) \in Texts
  BY DEF Written, ApprovalRow, Proposal
<1>4. PeakRisk(p, seen, row) \in Risks
  BY DEF PeakRisk, ApprovalRow, Proposal
<1>5. QED  BY <1>1, <1>2, <1>3, <1>4 DEF Folded, ApprovalRow

LEMMA FoldTyped ==
  ASSUME TypeOK, NEW c \in Clients, CommitFold(c)
  PROVE  TypeOK'
<1> DEFINE j == job[c]
<1>1. j.p \in Proposal /\ j.id \in Nat \ {0} /\ j.seen \in ApprovalRow
  BY JobFields DEF CommitFold
<1>2. \A row \in ApprovalRow : Folded(j.p, j.seen, row) \in ApprovalRow
  BY <1>1, FoldedTyped
<1>3. request' = [request EXCEPT ![j.id] = Folded(j.p, j.seen, @)]  BY DEF CommitFold
<1>4. \A i \in DOMAIN request : request'[i] \in ApprovalRow
  BY <1>2, <1>3 DEF TypeOK
<1>5. request' = [i \in DOMAIN request |-> request'[i]]  BY <1>3
<1>6. request' \in Seq(ApprovalRow)  BY <1>4, <1>5, RowsTyped
<1>7. job' \in [Clients -> Job]  BY AnswersTyped DEF CommitFold
<1>8. QED  BY <1>6, <1>7 DEF CommitFold, TypeOK

LEMMA StatusTyped ==
  ASSUME NEW row \in ApprovalRow, NEW s \in ApprovalStatus
  PROVE  [row EXCEPT !.status = s] \in ApprovalRow
BY DEF ApprovalRow

LEMMA DecisionTyped ==
  ASSUME TypeOK, NEW c \in Clients, NEW outcome \in {"APPROVED", "REJECTED"},
         CommitDecision(c, outcome)
  PROVE  TypeOK'
<1>1. request' = [request EXCEPT ![job[c].id].status = outcome]  BY DEF CommitDecision
<1>2. ASSUME NEW i \in DOMAIN request PROVE request'[i] \in ApprovalRow
  <2>1. request[i] \in ApprovalRow /\ outcome \in ApprovalStatus
    BY DEF TypeOK, ApprovalStatus
  <2>2. request'[i] = [request[i] EXCEPT !.status = outcome] \/ request'[i] = request[i]
    BY <1>1
  <2>3. QED  BY <2>1, <2>2, StatusTyped
<1>3. request' = [i \in DOMAIN request |-> request'[i]]  BY <1>1
<1>4. request' \in Seq(ApprovalRow)  BY <1>2, <1>3, RowsTyped
<1>5. job' \in [Clients -> Job]  BY AnswersTyped DEF CommitDecision
<1>6. QED  BY <1>4, <1>5 DEF CommitDecision, TypeOK

LEMMA SweepTyped ==
  ASSUME TypeOK, NEW c \in Clients, CommitSweep(c)
  PROVE  TypeOK'
<1>1. request' = [i \in DOMAIN request |->
        IF Stale(request[i], job[c].now) THEN [request[i] EXCEPT !.status = "EXPIRED"]
                                         ELSE request[i]]
  BY DEF CommitSweep
<1>2. ASSUME NEW i \in DOMAIN request PROVE request'[i] \in ApprovalRow
  <2>1. request[i] \in ApprovalRow /\ "EXPIRED" \in ApprovalStatus
    BY DEF TypeOK, ApprovalStatus
  <2>2. request'[i] = [request[i] EXCEPT !.status = "EXPIRED"] \/ request'[i] = request[i]
    BY <1>1
  <2>3. QED  BY <2>1, <2>2, StatusTyped
<1>3. request' = [i \in DOMAIN request |-> request'[i]]  BY <1>1
<1>4. request' \in Seq(ApprovalRow)  BY <1>2, <1>3, RowsTyped
<1>5. job' \in [Clients -> Job]  BY AnswersTyped DEF CommitSweep
<1>6. QED  BY <1>4, <1>5 DEF CommitSweep, TypeOK

LEMMA TypeStep == TypeOK /\ [Next]_vars => TypeOK'
<1> SUFFICES ASSUME TypeOK, [Next]_vars PROVE TypeOK'
  OBVIOUS
<1>1. ASSUME NEW c \in Proposers, Propose(c) PROVE TypeOK'
  <2>1. \A ttl \in Ttls : ExpiresAt(clock, ttl) \in Nat \cup {Never}
    BY DEF ExpiresAt, TypeOK
  <2>2. QED  BY <1>1, <2>1, FindTyped, InsertTyped, FoldTyped DEF Propose, Clients
<1>2. ASSUME NEW c \in People, Decide(c) PROVE TypeOK'
  <2>1. c \in Clients  BY DEF Clients
  <2>2. ASSUME NEW i \in DOMAIN request, ReceiveDecision(c, i) PROVE TypeOK'
    <3>1. [pc |-> "decide", id |-> i, now |-> clock] \in Job  BY DEF TypeOK, Job
    <3>2. job' \in [Clients -> Job]  BY <2>1, <2>2, <3>1, JobsTyped DEF ReceiveDecision
    <3>3. QED  BY <2>2, <3>2 DEF ReceiveDecision, TypeOK
  <2>3. QED  BY <1>2, <2>1, <2>2, DecisionTyped DEF Decide
<1>3. ASSUME NEW c \in Dashboards, List(c) PROVE TypeOK'
  <2>1. c \in Clients  BY DEF Clients
  <2>2. CASE ReceiveListing(c)
    <3>1. [pc |-> "sweep", now |-> clock] \in Job  BY DEF TypeOK, Job
    <3>2. job' \in [Clients -> Job]  BY <2>1, <2>2, <3>1, JobsTyped DEF ReceiveListing
    <3>3. QED  BY <2>2, <3>2 DEF ReceiveListing, TypeOK
  <2>3. QED  BY <1>3, <2>1, <2>2, SweepTyped DEF List
<1>4. ASSUME NEW c \in Clients, Abandon(c) PROVE TypeOK'
  BY <1>4, AnswersTyped DEF Abandon, TypeOK
<1>5. CASE Tick
  BY <1>5 DEF Tick, TypeOK
<1>6. CASE UNCHANGED vars
  BY <1>6 DEF vars, TypeOK
<1>7. QED  BY <1>1, <1>2, <1>3, <1>4, <1>5, <1>6 DEF Next

\* Every row of the queue and every request in flight keeps its type.
THEOREM ApprovalsTypeCorrect == Spec => []TypeOK
BY TypeInit, TypeStep, PTL DEF Spec

-----------------------------------------------------------------------------
(* A settled request stays settled.                                        *)

LEMMA SettledStep ==
  ASSUME TypeOK, [Next]_vars, NEW i \in DOMAIN request, request[i].status # "PENDING"
  PROVE  request'[i].status = request[i].status
<1>0. request[i] \in ApprovalRow  BY DEF TypeOK
<1>1. ASSUME NEW c \in Proposers, Propose(c) PROVE request'[i].status = request[i].status
  <2>1. c \in Clients  BY DEF Clients
  <2>2. CASE CommitInsert(c)
    BY <2>2 DEF CommitInsert, TypeOK
  <2>3. CASE CommitFold(c)
    <3>1. \A row \in ApprovalRow : Folded(job[c].p, job[c].seen, row).status = row.status
      BY DEF Folded, ApprovalRow
    <3>2. QED  BY <1>0, <2>3, <3>1 DEF CommitFold
  <2>4. QED  BY <1>1, <2>2, <2>3 DEF Propose, FindPending
<1>2. ASSUME NEW c \in People, Decide(c) PROVE request'[i].status = request[i].status
  BY <1>0, <1>2 DEF Decide, ReceiveDecision, CommitDecision, Decidable, ApprovalRow
<1>3. ASSUME NEW c \in Dashboards, List(c) PROVE request'[i].status = request[i].status
  BY <1>3 DEF List, ReceiveListing, CommitSweep, Stale
<1>4. QED
  BY <1>1, <1>2, <1>3 DEF Next, Abandon, Tick, vars

\* However decisions, sweeps, folds and retries race, a request is settled
\* once: the conditional UPDATEs of decide and expire_stale are enough.
THEOREM DecisionsFinal == Spec => DecisionIsFinal
<1>1. TypeOK /\ [Next]_vars =>
        [\A i \in DOMAIN request :
           request[i].status # "PENDING" => request'[i].status = request[i].status]_vars
  BY SettledStep
<1>2. QED  BY <1>1, ApprovalsTypeCorrect, PTL DEF Spec, DecisionIsFinal

-----------------------------------------------------------------------------
(* One proposer, one request per key.                                      *)

\* t's search found no PENDING request of the key it is about to insert, and
\* nobody else can have inserted one since.
Unrivalled(t) == job[t].pc = "insert" => Pending(job[t].p.key) = {}

AtMostOne == \A key \in Keys : \A i, k \in Pending(key) : i = k

SingleInv(t) == TypeOK /\ AtMostOne /\ Unrivalled(t)

\* No row changes its key or becomes PENDING again: the PENDING rows of a key
\* can only get fewer.
RowsOnlySettle ==
  /\ DOMAIN request' = DOMAIN request
  /\ \A i \in DOMAIN request :
       /\ request'[i].key = request[i].key
       /\ request'[i].status = "PENDING" => request[i].status = "PENDING"

LEMMA PendingShrinks ==
  ASSUME RowsOnlySettle, NEW key
  PROVE  Pending(key)' \subseteq Pending(key)
BY DEF RowsOnlySettle, Pending

\* Every step but an insert only settles rows.
LEMMA NoInsertSettles ==
  ASSUME TypeOK, [Next]_vars, \A c \in Proposers : ~ CommitInsert(c)
  PROVE  RowsOnlySettle
<1>0. \A i \in DOMAIN request : request[i] \in ApprovalRow  BY DEF TypeOK
<1>1. CASE UNCHANGED request
  BY <1>1 DEF RowsOnlySettle
<1>2. ASSUME NEW c \in Proposers, CommitFold(c) PROVE RowsOnlySettle
  <2>1. \A row \in ApprovalRow : /\ Folded(job[c].p, job[c].seen, row).status = row.status
                                /\ Folded(job[c].p, job[c].seen, row).key = row.key
    BY DEF Folded, ApprovalRow
  <2>2. QED  BY <1>0, <1>2, <2>1 DEF CommitFold, RowsOnlySettle
<1>3. ASSUME NEW c \in People, NEW outcome \in {"APPROVED", "REJECTED"},
             CommitDecision(c, outcome)
      PROVE  RowsOnlySettle
  BY <1>0, <1>3 DEF CommitDecision, RowsOnlySettle, ApprovalRow
<1>4. ASSUME NEW c \in Dashboards, CommitSweep(c) PROVE RowsOnlySettle
  BY <1>0, <1>4 DEF CommitSweep, RowsOnlySettle, ApprovalRow
<1>5. QED
  BY <1>1, <1>2, <1>3, <1>4
     DEF Next, Propose, Decide, List, FindPending, ReceiveDecision, ReceiveListing,
         Abandon, Tick, vars

LEMMA SingleStep ==
  ASSUME NEW t, Proposers = {t}, SingleInv(t), [Next]_vars
  PROVE  SingleInv(t)'
<1>0. t \in Clients /\ TypeOK  BY DEF Clients, SingleInv
<1>1. TypeOK'  BY <1>0, TypeStep
<1>2. CASE CommitInsert(t)
  <2>1. job[t].p \in Proposal  BY <1>0, <1>2, JobFields DEF CommitInsert
  <2>2. Len(request) \in Nat /\ DOMAIN request = 1 .. Len(request)  BY <1>0 DEF TypeOK
  <2>3. DOMAIN request' = 1 .. Len(request) + 1
    BY <1>0, <1>2 DEF CommitInsert, TypeOK
  <2>4. \A i \in DOMAIN request : request'[i] = request[i]
    BY <1>0, <1>2 DEF CommitInsert, TypeOK
  <2>5. request'[Len(request) + 1].key = job[t].p.key
    BY <1>0, <1>2, <2>2 DEF CommitInsert, TypeOK
  <2>6. \A key : Pending(key)' \subseteq Pending(key)
                   \cup (IF key = job[t].p.key THEN {Len(request) + 1} ELSE {})
    BY <2>2, <2>3, <2>4, <2>5 DEF Pending
  <2>7. Pending(job[t].p.key) = {}  BY <1>2 DEF CommitInsert, SingleInv, Unrivalled
  <2>8. AtMostOne'
    <3>1. SUFFICES ASSUME NEW key \in Keys, NEW i \in Pending(key)', NEW k \in Pending(key)'
                   PROVE  i = k
      BY DEF AtMostOne
    <3>2. CASE key = job[t].p.key
      BY <2>6, <2>7, <3>2
    <3>3. CASE key # job[t].p.key
      <4>1. i \in Pending(key) /\ k \in Pending(key)  BY <2>6, <3>3
      <4>2. QED  BY <4>1 DEF SingleInv, AtMostOne
    <3>4. QED  BY <3>2, <3>3
  <2>9. Unrivalled(t)'
    BY <1>0, <1>2 DEF CommitInsert, Answers, Becomes, Idle, Unrivalled, TypeOK
  <2>10. QED  BY <1>1, <2>8, <2>9 DEF SingleInv
<1>3. CASE ~ CommitInsert(t)
  <2>1. RowsOnlySettle  BY <1>0, <1>3, NoInsertSettles
  <2>2. \A key : Pending(key)' \subseteq Pending(key)  BY <2>1, PendingShrinks
  <2>3. AtMostOne'  BY <2>2 DEF SingleInv, AtMostOne
  <2>4. Unrivalled(t)'
    <3>1. CASE job'[t] = job[t]
      BY <2>2, <3>1 DEF SingleInv, Unrivalled
    <3>2. CASE job'[t].pc # "insert"
      BY <3>2 DEF Unrivalled
    <3>3. ASSUME NEW key \in Keys, NEW risk \in Risks, NEW text \in Texts, NEW expires,
                 FindPending(t, key, risk, text, expires), job'[t].pc = "insert"
          PROVE  Unrivalled(t)'
      <4>1. job'[t].p.key = key /\ Pending(key) = {}
        BY <1>0, <3>3 DEF FindPending, Becomes, TypeOK
      <4>2. QED  BY <2>2, <4>1 DEF Unrivalled
    <3>4. CASE CommitFold(t)
      BY <1>0, <3>4, <3>2 DEF CommitFold, Answers, Becomes, Idle, TypeOK
    <3>5. ASSUME NEW c \in People, Decide(c) PROVE Unrivalled(t)'
      BY <1>0, <3>1, <3>2, <3>5
         DEF Decide, ReceiveDecision, CommitDecision, Answers, Becomes, Idle, TypeOK
    <3>6. ASSUME NEW c \in Dashboards, List(c) PROVE Unrivalled(t)'
      BY <1>0, <3>1, <3>2, <3>6
         DEF List, ReceiveListing, CommitSweep, Answers, Becomes, Idle, TypeOK
    <3>7. ASSUME NEW c \in Clients, Abandon(c) PROVE Unrivalled(t)'
      BY <1>0, <3>1, <3>2, <3>7 DEF Abandon, Answers, Becomes, Idle, TypeOK
    <3>8. CASE Tick \/ UNCHANGED vars
      BY <3>1, <3>8 DEF Tick, vars
    <3>9. CASE Propose(t)
      BY <1>3, <3>2, <3>3, <3>4, <3>9 DEF Propose
    <3>10. QED  BY <3>5, <3>6, <3>7, <3>8, <3>9 DEF Next
  <2>5. QED  BY <1>1, <2>3, <2>4 DEF SingleInv
<1>4. QED  BY <1>2, <1>3

LEMMA SingleInit == ASSUME NEW t, Proposers = {t} PROVE Init => SingleInv(t)
BY TypeInit DEF Init, SingleInv, AtMostOne, Unrivalled, Pending, Idle, Clients

-----------------------------------------------------------------------------
(* Any number of proposers.                                                *)

\* A table has finitely many rows, and the bound is about numbers.
LEMMA CountsAreNumbers ==
  ASSUME TypeOK, IsFiniteSet(Proposers), NEW key
  PROVE  /\ IsFiniteSet(OpenRows(key)) /\ Cardinality(OpenRows(key)) \in Nat
         /\ IsFiniteSet(Inserting(key)) /\ Cardinality(Inserting(key)) \in Nat
         /\ Cardinality(Inserting(key)) <= Cardinality(Proposers)
         /\ Cardinality(Proposers) \in Nat
<1>1. OpenRows(key) \subseteq 1 .. Len(request) /\ Len(request) \in Nat
  BY DEF TypeOK, OpenRows
<1>2. IsFiniteSet(1 .. Len(request))  BY <1>1, FS_Interval
<1>3. IsFiniteSet(OpenRows(key))  BY <1>1, <1>2, FS_Subset
<1>4. Inserting(key) \in SUBSET Proposers  BY DEF Inserting
<1>5. /\ IsFiniteSet(Inserting(key))
      /\ Cardinality(Inserting(key)) <= Cardinality(Proposers)
  BY <1>4, FS_Subset
<1>6. QED  BY <1>3, <1>5, FS_CardinalityType

Counted(key) ==
  Cardinality(OpenRows(key)) + Cardinality(Inserting(key)) <= Cardinality(Proposers)

\* A key that gets no new row and no new insert stays within the bound.
LEMMA FewerStay ==
  ASSUME TypeOK, TypeOK', IsFiniteSet(Proposers), NEW key, Counted(key),
         OpenRows(key)' \subseteq OpenRows(key), Inserting(key)' \subseteq Inserting(key)
  PROVE  Counted(key)'
<1>1. /\ IsFiniteSet(OpenRows(key)) /\ Cardinality(OpenRows(key)) \in Nat
      /\ IsFiniteSet(Inserting(key)) /\ Cardinality(Inserting(key)) \in Nat
      /\ Cardinality(Proposers) \in Nat
  BY CountsAreNumbers
<1>2. /\ IsFiniteSet(OpenRows(key)') /\ Cardinality(OpenRows(key)') <= Cardinality(OpenRows(key))
      /\ IsFiniteSet(Inserting(key)')
      /\ Cardinality(Inserting(key)') <= Cardinality(Inserting(key))
  BY <1>1, FS_Subset
<1>3. Cardinality(OpenRows(key)') \in Nat /\ Cardinality(Inserting(key)') \in Nat
  BY <1>2, FS_CardinalityType
<1>4. QED  BY <1>1, <1>2, <1>3 DEF Counted

\* An insert is begun by a search that found no PENDING row of the key, and by
\* nothing else.
InsertBegins(c, key) ==
  /\ c \in Proposers
  /\ OpenRows(key) = {}
  /\ UNCHANGED request
  /\ \A k : k # key => Inserting(k)' \subseteq Inserting(k)

LEMMA InsertsBegin ==
  ASSUME TypeOK, [Next]_vars
  PROVE  \/ \A k : Inserting(k)' \subseteq Inserting(k)
         \/ \E c \in Proposers, key \in Keys : InsertBegins(c, key)
<1> DEFINE Quiet == \A k : Inserting(k)' \subseteq Inserting(k)
<1>1. ASSUME NEW c \in Clients, NEW j, Becomes(c, j), j.pc # "insert" PROVE Quiet
  BY <1>1 DEF Becomes, Inserting, TypeOK
<1>2. ASSUME NEW c \in Clients, Answers(c) PROVE Quiet
  BY <1>1, <1>2 DEF Answers, Idle
<1>3. ASSUME NEW c \in Proposers, NEW key \in Keys, NEW risk \in Risks, NEW text \in Texts,
             NEW expires, FindPending(c, key, risk, text, expires)
      PROVE  Quiet \/ InsertBegins(c, key)
  <2>1. c \in Clients  BY DEF Clients
  <2> DEFINE p == [key |-> key, risk |-> risk, text |-> text, expires |-> expires]
  <2>2. CASE Pending(key) = {} /\ Becomes(c, [pc |-> "insert", p |-> p])
    <3>1. \A k : k # key => Inserting(k)' \subseteq Inserting(k)
      BY <2>1, <2>2 DEF Becomes, Inserting, TypeOK
    <3>2. OpenRows(key) = {}  BY <2>2 DEF OpenRows, Pending
    <3>3. UNCHANGED request  BY <1>3 DEF FindPending
    <3>4. QED  BY <3>1, <3>2, <3>3 DEF InsertBegins
  <2>3. ASSUME NEW i, Becomes(c, [pc |-> "fold", p |-> p, id |-> i, seen |-> request[i]])
        PROVE  Quiet
    BY <1>1, <2>1, <2>3
  <2>4. QED  BY <1>3, <2>2, <2>3 DEF FindPending
<1>4. ASSUME NEW c \in Proposers, Propose(c)
      PROVE  Quiet \/ \E key \in Keys : InsertBegins(c, key)
  <2>1. c \in Clients  BY DEF Clients
  <2>2. CASE CommitInsert(c) \/ CommitFold(c)
    BY <1>2, <2>1, <2>2 DEF CommitInsert, CommitFold
  <2>3. QED  BY <1>3, <1>4, <2>2 DEF Propose
<1>5. ASSUME NEW c \in People, Decide(c) PROVE Quiet
  <2>1. c \in Clients  BY DEF Clients
  <2>2. ASSUME NEW i, ReceiveDecision(c, i) PROVE Quiet
    BY <1>1, <2>1, <2>2 DEF ReceiveDecision
  <2>3. QED  BY <1>2, <1>5, <2>1, <2>2 DEF Decide, CommitDecision
<1>6. ASSUME NEW c \in Dashboards, List(c) PROVE Quiet
  <2>1. c \in Clients  BY DEF Clients
  <2>2. CASE ReceiveListing(c)  BY <1>1, <2>1, <2>2 DEF ReceiveListing
  <2>3. QED  BY <1>2, <1>6, <2>1, <2>2 DEF List, CommitSweep
<1>7. CASE Tick \/ UNCHANGED vars  BY <1>7 DEF Tick, vars, Inserting
<1>8. QED  BY <1>2, <1>4, <1>5, <1>6, <1>7 DEF Next, Abandon

\* The inserter gives up its place to the row it adds.
LEMMA InsertKeepsCount ==
  ASSUME TypeOK, TypeOK', IsFiniteSet(Proposers), NEW c \in Proposers, CommitInsert(c),
         NEW key \in Keys, Counted(key)
  PROVE  Counted(key)'
<1>1. c \in Clients  BY DEF Clients
<1> DEFINE n == Len(request) + 1
<1>2. /\ DOMAIN request = 1 .. Len(request) /\ Len(request) \in Nat
      /\ DOMAIN request' = 1 .. n
      /\ \A i \in DOMAIN request : request'[i] = request[i]
      /\ request'[n].key = job[c].p.key
  BY DEF CommitInsert, TypeOK
<1>3. job' = [job EXCEPT ![c] = Idle]  BY DEF CommitInsert, Answers, Becomes
<1>4. Inserting(key)' = Inserting(key) \ {c}
  BY <1>1, <1>3 DEF Inserting, Idle, TypeOK
<1>5. CASE job[c].p.key # key
  <2>1. OpenRows(key)' \subseteq OpenRows(key)  BY <1>2, <1>5 DEF OpenRows
  <2>2. QED  BY <1>4, <2>1, FewerStay
<1>6. CASE job[c].p.key = key
  <2>1. OpenRows(key)' \subseteq OpenRows(key) \cup {n}  BY <1>2 DEF OpenRows
  <2>2. c \in Inserting(key)  BY <1>6 DEF CommitInsert, Inserting
  <2>3. /\ IsFiniteSet(OpenRows(key)) /\ Cardinality(OpenRows(key)) \in Nat
        /\ IsFiniteSet(Inserting(key)) /\ Cardinality(Inserting(key)) \in Nat
        /\ Cardinality(Proposers) \in Nat
    BY CountsAreNumbers
  <2>4. Cardinality(Inserting(key)') = Cardinality(Inserting(key)) - 1
    BY <1>4, <2>2, <2>3, FS_RemoveElement
  <2>5. /\ IsFiniteSet(OpenRows(key) \cup {n})
        /\ Cardinality(OpenRows(key) \cup {n}) <= Cardinality(OpenRows(key)) + 1
    <3> HIDE DEF n
    <3>1. IsFiniteSet(OpenRows(key))  BY <2>3
    <3>2. /\ IsFiniteSet(OpenRows(key) \cup {n})
          /\ Cardinality(OpenRows(key) \cup {n}) =
               IF n \in OpenRows(key) THEN Cardinality(OpenRows(key))
                                     ELSE Cardinality(OpenRows(key)) + 1
      BY <3>1, FS_AddElement
    <3>3. QED  BY <2>3, <3>2
  <2>6. /\ Cardinality(OpenRows(key)') <= Cardinality(OpenRows(key) \cup {n})
        /\ Cardinality(OpenRows(key)') \in Nat /\ Cardinality(OpenRows(key) \cup {n}) \in Nat
    BY <2>1, <2>5, FS_Subset, FS_CardinalityType
  <2>7. QED  BY <2>3, <2>4, <2>5, <2>6 DEF Counted
<1>7. QED  BY <1>5, <1>6

LEMMA CountStep ==
  ASSUME TypeOK, [Next]_vars, IsFiniteSet(Proposers), PendingWithinProposers
  PROVE  PendingWithinProposers'
<1>0. TypeOK'  BY TypeStep
<1> SUFFICES ASSUME NEW key \in Keys PROVE Counted(key)'
  BY DEF PendingWithinProposers, Counted
<1>1. Counted(key)  BY DEF PendingWithinProposers, Counted
<1>2. ASSUME NEW c \in Proposers, CommitInsert(c) PROVE Counted(key)'
  BY <1>0, <1>1, <1>2, InsertKeepsCount
<1>3. CASE \A c \in Proposers : ~ CommitInsert(c)
  <2>1. OpenRows(key)' \subseteq OpenRows(key)
    BY <1>3, NoInsertSettles, PendingShrinks DEF OpenRows, Pending
  <2>2. CASE Inserting(key)' \subseteq Inserting(key)
    BY <1>0, <1>1, <2>1, <2>2, FewerStay
  <2>3. ASSUME NEW c \in Proposers, InsertBegins(c, key) PROVE Counted(key)'
    <3>1. OpenRows(key)' = {}  BY <2>3 DEF InsertBegins, OpenRows
    <3>2. Cardinality(OpenRows(key)') = 0  BY <3>1, FS_EmptySet
    <3>3. /\ Cardinality(Inserting(key)') \in Nat /\ Cardinality(Proposers) \in Nat
          /\ Cardinality(Inserting(key)') <= Cardinality(Proposers)
      <4>1. Inserting(key)' \in SUBSET Proposers  BY DEF Inserting
      <4>2. QED  BY <4>1, FS_Subset, FS_CardinalityType
    <3>4. QED  BY <3>2, <3>3 DEF Counted
  <2>4. QED  BY <2>2, <2>3, InsertsBegin DEF InsertBegins
<1>4. QED  BY <1>2, <1>3

LEMMA CountInit == ASSUME IsFiniteSet(Proposers) PROVE Init => PendingWithinProposers
<1> SUFFICES ASSUME Init, NEW key \in Keys
             PROVE  Cardinality(OpenRows(key)) + Cardinality(Inserting(key))
                      <= Cardinality(Proposers)
  BY DEF PendingWithinProposers
<1>1. OpenRows(key) = {} /\ Inserting(key) = {}
  BY DEF Init, OpenRows, Inserting, Idle, Clients
<1>2. Cardinality(OpenRows(key)) = 0 /\ Cardinality(Inserting(key)) = 0
  BY <1>1, FS_EmptySet
<1>3. Cardinality(Proposers) \in Nat  BY FS_CardinalityType
<1>4. QED  BY <1>2, <1>3

\* However many clients propose, and however their searches and inserts race
\* each other, the decisions and the sweeps, a standing problem is at most as
\* many PENDING requests as there are clients that report it; with the control
\* tower as the only one, it is one.
THEOREM ProposersBoundPending ==
  ASSUME IsFiniteSet(Proposers)
  PROVE  Spec => []PendingWithinProposers
<1>1. Init => PendingWithinProposers  BY CountInit
<1>2. TypeOK /\ PendingWithinProposers /\ [Next]_vars => PendingWithinProposers'
  BY CountStep
<1>3. QED  BY <1>1, <1>2, ApprovalsTypeCorrect, PTL DEF Spec

-----------------------------------------------------------------------------
(* The queue implements ApprovalPromise, with one proposer.                *)

\* t folds into the row it read: only t changes a risk, and nobody a key.
FoldFresh(t) ==
  job[t].pc = "fold" =>
    /\ job[t].id \in DOMAIN request
    /\ request[job[t].id].key = job[t].p.key
    /\ request[job[t].id].risk = job[t].seen.risk

PromiseInv(t) == SingleInv(t) /\ FoldFresh(t) /\ Len(request) <= MaxRequests

LEMMA PromiseInit == ASSUME NEW t, Proposers = {t} PROVE Init => PromiseInv(t)
BY SingleInit DEF Init, PromiseInv, FoldFresh, Idle, Clients

\* A row keeps its key, and its risk but for a fold.
LEMMA RowsKeep ==
  ASSUME TypeOK, [Next]_vars, NEW i \in DOMAIN request
  PROVE  /\ i \in DOMAIN request'
         /\ request'[i].key = request[i].key
         /\ (\A c \in Proposers : ~ CommitFold(c)) => request'[i].risk = request[i].risk
<1>0. request[i] \in ApprovalRow  BY DEF TypeOK
<1>1. CASE UNCHANGED request  BY <1>1
<1>2. ASSUME NEW c \in Proposers, CommitInsert(c)
      PROVE  i \in DOMAIN request' /\ request'[i] = request[i]
  BY <1>2 DEF CommitInsert, TypeOK
<1>3. ASSUME NEW c \in Proposers, CommitFold(c)
      PROVE  i \in DOMAIN request' /\ request'[i].key = request[i].key
  <2>1. \A row \in ApprovalRow : Folded(job[c].p, job[c].seen, row).key = row.key
    BY DEF Folded, ApprovalRow
  <2>2. QED  BY <1>0, <1>3, <2>1 DEF CommitFold
<1>4. ASSUME NEW c \in People, NEW outcome \in {"APPROVED", "REJECTED"},
             CommitDecision(c, outcome)
      PROVE  /\ i \in DOMAIN request' /\ request'[i].key = request[i].key
             /\ request'[i].risk = request[i].risk
  BY <1>0, <1>4 DEF CommitDecision, ApprovalRow
<1>5. ASSUME NEW c \in Dashboards, CommitSweep(c)
      PROVE  /\ i \in DOMAIN request' /\ request'[i].key = request[i].key
             /\ request'[i].risk = request[i].risk
  BY <1>0, <1>5 DEF CommitSweep, ApprovalRow
<1>6. QED
  BY <1>1, <1>2, <1>3, <1>4, <1>5
     DEF Next, Propose, Decide, List, FindPending, ReceiveDecision, ReceiveListing,
         Abandon, Tick, vars

\* t's job changes only by a call of t, and a fold is begun or ended by t.
LEMMA FoldBegins ==
  ASSUME NEW t, Proposers = {t}, TypeOK, [Next]_vars, job'[t].pc = "fold"
  PROVE  \/ job'[t] = job[t] /\ ~ CommitFold(t)
         \/ /\ UNCHANGED request
            /\ \E i \in Pending(job'[t].p.key) :
                 job'[t].id = i /\ job'[t].seen = request[i]
<1>0. t \in Clients  BY DEF Clients
<1>1. ASSUME NEW key \in Keys, NEW risk \in Risks, NEW text \in Texts, NEW expires,
             FindPending(t, key, risk, text, expires)
      PROVE  /\ UNCHANGED request
             /\ \E i \in Pending(job'[t].p.key) :
                  job'[t].id = i /\ job'[t].seen = request[i]
  <2> DEFINE p == [key |-> key, risk |-> risk, text |-> text, expires |-> expires]
  <2>1. job'[t] # [pc |-> "insert", p |-> p]  OBVIOUS
  <2>2. PICK i \in Pending(key) :
          job'[t] = [pc |-> "fold", p |-> p, id |-> i, seen |-> request[i]]
    BY <1>0, <1>1, <2>1 DEF FindPending, Becomes, TypeOK
  <2>3. QED  BY <1>1, <2>2 DEF FindPending
<1>2. ~ CommitInsert(t) /\ ~ CommitFold(t)
  BY <1>0 DEF CommitInsert, CommitFold, Answers, Becomes, Idle, TypeOK
<1>3. ASSUME NEW c \in Clients, NEW j, Becomes(c, j), j.pc # "fold"
      PROVE  job'[t] = job[t]
  BY <1>0, <1>3 DEF Becomes, TypeOK
<1>4. CASE \/ \E c \in People : Decide(c)
           \/ \E c \in Dashboards : List(c)
           \/ \E c \in Clients : Abandon(c)
           \/ Tick \/ UNCHANGED vars
  <2>1. \A c \in Clients : Answers(c) => job'[t] = job[t]
    BY <1>3 DEF Answers, Idle
  <2>2. ASSUME NEW c \in People, Decide(c) PROVE job'[t] = job[t]
    <3>1. c \in Clients  BY DEF Clients
    <3>2. QED  BY <1>3, <2>1, <2>2, <3>1 DEF Decide, ReceiveDecision, CommitDecision
  <2>3. ASSUME NEW c \in Dashboards, List(c) PROVE job'[t] = job[t]
    <3>1. c \in Clients  BY DEF Clients
    <3>2. QED  BY <1>3, <2>1, <2>3, <3>1 DEF List, ReceiveListing, CommitSweep
  <2>4. QED  BY <1>2, <1>4, <2>1, <2>2, <2>3 DEF Abandon, Tick, vars
<1>5. CASE Propose(t)  BY <1>1, <1>2, <1>5 DEF Propose
<1>6. QED  BY <1>4, <1>5 DEF Next

LEMMA PromiseInvStep ==
  ASSUME NEW t, Proposers = {t}, PromiseInv(t), [Next]_vars
  PROVE  PromiseInv(t)'
<1>0. TypeOK /\ SingleInv(t)'  BY SingleStep DEF PromiseInv, SingleInv
<1>1. FoldFresh(t)'
  <2> SUFFICES ASSUME job'[t].pc = "fold"
               PROVE  /\ job'[t].id \in DOMAIN request'
                      /\ request'[job'[t].id].key = job'[t].p.key
                      /\ request'[job'[t].id].risk = job'[t].seen.risk
    BY DEF FoldFresh
  <2>1. CASE job'[t] = job[t] /\ ~ CommitFold(t)
    BY <1>0, <2>1, RowsKeep DEF PromiseInv, FoldFresh
  <2>2. CASE job'[t] # job[t] \/ CommitFold(t)
    BY <1>0, <2>2, FoldBegins DEF Pending
  <2>3. QED  BY <2>1, <2>2
<1>2. Len(request') <= MaxRequests
  <2>1. CASE CommitInsert(t)
    BY <1>0, <2>1 DEF CommitInsert, TypeOK
  <2>2. CASE ~ CommitInsert(t)
    <3>1. DOMAIN request' = DOMAIN request
      BY <1>0, <2>2, NoInsertSettles DEF RowsOnlySettle
    <3>2. Len(request') = Len(request)
      BY <1>0, <3>1 DEF SingleInv, TypeOK
    <3>3. QED  BY <3>2 DEF PromiseInv
  <2>3. QED  BY <2>1, <2>2
<1>3. QED  BY <1>0, <1>1, <1>2 DEF PromiseInv

\* The shape of a step of the promise, in terms of the keys.
LEMMA Raises ==
  ASSUME NEW k \in Keys, NEW risk \in Risks,
         \A key \in Keys :
           /\ SettledOf(key)' = SettledOf(key)
           /\ OpenRisk(key)' = IF key # k THEN OpenRisk(key)
                               ELSE IF OpenRisk(k) = CLOSED THEN risk
                               ELSE Promise!Higher(OpenRisk(k), risk)
  PROVE  Promise!Next
<1>1. Promise!Raise(k, risk)  BY DEF Promise!Raise
<1>2. QED  BY <1>1 DEF Promise!Next

LEMMA Settles ==
  ASSUME NEW ks \in SUBSET Keys, NEW outcome, NEW ticket \in [ks -> 1 .. MaxRequests],
         \/ outcome = "EXPIRED"
         \/ outcome \in {"APPROVED", "REJECTED"} /\ \E k \in Keys : ks = {k},
         \A k \in ks : /\ OpenRisk(k) # CLOSED /\ OpenRisk(k)' = CLOSED
                       /\ \A o : <<ticket[k], o>> \notin SettledOf(k)
                       /\ SettledOf(k)' = SettledOf(k) \cup {<<ticket[k], outcome>>},
         \A k \in Keys \ ks : OpenRisk(k)' = OpenRisk(k) /\ SettledOf(k)' = SettledOf(k)
  PROVE  Promise!Next
<1>1. Promise!Settle(ks, outcome)
  <2>1. \A k \in ks : [key \in Keys |-> OpenRisk(key)][k] = OpenRisk(k)
                      /\ [key \in Keys |-> SettledOf(key)][k] = SettledOf(k)
    OBVIOUS
  <2>2. [key \in Keys |-> OpenRisk(key)]' =
          [k \in Keys |-> IF k \in ks THEN CLOSED ELSE [key \in Keys |-> OpenRisk(key)][k]]
    OBVIOUS
  <2>3. [key \in Keys |-> SettledOf(key)]' =
          [k \in Keys |-> IF k \in ks
             THEN [key \in Keys |-> SettledOf(key)][k] \cup {<<ticket[k], outcome>>}
             ELSE [key \in Keys |-> SettledOf(key)][k]]
    OBVIOUS
  <2>4. QED  BY <2>1, <2>2, <2>3 DEF Promise!Settle
<1>2. CASE outcome = "EXPIRED"  BY <1>1, <1>2 DEF Promise!Next
<1>3. CASE outcome \in {"APPROVED", "REJECTED"} /\ \E k \in Keys : ks = {k}
  <2>1. PICK k \in Keys : ks = {k}  BY <1>3
  <2>2. Promise!Settle({k}, outcome)  BY <1>1, <2>1
  <2>3. outcome \in Promise!Outcomes \ {"EXPIRED"}  BY <1>3 DEF Promise!Outcomes
  <2>4. QED  BY <2>2, <2>3 DEF Promise!Next
<1>4. QED  BY <1>2, <1>3

\* The one PENDING row of a key is the open request; the others are settled.
LEMMA ChosenOfOne ==
  ASSUME NEW S, NEW i, S = {i}
  PROVE  (CHOOSE x \in S : TRUE) = i
OBVIOUS

LEMMA OpenIs ==
  ASSUME AtMostOne, NEW key \in Keys
  PROVE  /\ Pending(key) = {} => OpenRisk(key) = CLOSED
         /\ \A i \in Pending(key) : OpenRisk(key) = request[i].risk
<1>1. ASSUME NEW i \in Pending(key) PROVE OpenRisk(key) = request[i].risk
  <2>1. Pending(key) = {i}  BY DEF AtMostOne
  <2>2. (CHOOSE x \in Pending(key) : TRUE) = i  BY <2>1, ChosenOfOne
  <2>3. QED  BY <1>1, <2>2 DEF OpenRisk
<1>2. QED  BY <1>1 DEF OpenRisk

LEMMA OpenIsNext ==
  ASSUME AtMostOne', NEW key \in Keys
  PROVE  /\ Pending(key)' = {} => OpenRisk(key)' = CLOSED
         /\ \A i \in Pending(key)' : OpenRisk(key)' = request'[i].risk
<1>1. ASSUME NEW i \in Pending(key)' PROVE OpenRisk(key)' = request'[i].risk
  <2>1. Pending(key)' = {i}  BY DEF AtMostOne
  <2>2. (CHOOSE x \in Pending(key)' : TRUE) = i  BY <2>1, ChosenOfOne
  <2>3. QED  BY <1>1, <2>2 DEF OpenRisk
<1>2. QED  BY <1>1 DEF OpenRisk

\* Settling the PENDING rows in D is a step of the promise.
LEMMA RowsSettled ==
  ASSUME NEW t, PromiseInv(t), PromiseInv(t)',
         NEW D \in SUBSET DOMAIN request, NEW outcome \in {"APPROVED", "REJECTED", "EXPIRED"},
         outcome = "EXPIRED" \/ \E i \in D : D = {i},
         DOMAIN request' = DOMAIN request,
         \A i \in DOMAIN request :
           /\ request'[i].key = request[i].key /\ request'[i].risk = request[i].risk
           /\ i \in D => request[i].status = "PENDING" /\ request'[i].status = outcome
           /\ i \notin D => request'[i].status = request[i].status
  PROVE  Promise!Next
<1> DEFINE ks == {request[i].key : i \in D}
           ticket == [k \in ks |-> CHOOSE i \in D : request[i].key = k]
<1>1. /\ \A i \in DOMAIN request : request[i].key \in Keys /\ request[i].risk \in Nat
      /\ DOMAIN request \subseteq 1 .. MaxRequests
  <2>1. request \in Seq(ApprovalRow) /\ Len(request) <= MaxRequests
    BY DEF PromiseInv, SingleInv, TypeOK
  <2>2. Len(request) \in Nat /\ DOMAIN request = 1 .. Len(request)  BY <2>1
  <2>3. \A i \in DOMAIN request : request[i] \in ApprovalRow  BY <2>1
  <2>4. DOMAIN request \subseteq 1 .. MaxRequests  BY <2>1, <2>2
  <2>5. QED  BY <2>3, <2>4 DEF ApprovalRow
<1>2. ks \in SUBSET Keys  BY <1>1
<1>3. \A k \in ks : ticket[k] \in D /\ request[ticket[k]].key = k
  OBVIOUS
<1>4. ticket \in [ks -> 1 .. MaxRequests]  BY <1>1, <1>3
<1>5. AtMostOne /\ AtMostOne'  BY DEF PromiseInv, SingleInv
<1>6. ASSUME NEW k \in ks
      PROVE  /\ OpenRisk(k) # CLOSED /\ OpenRisk(k)' = CLOSED
             /\ \A o : <<ticket[k], o>> \notin SettledOf(k)
             /\ SettledOf(k)' = SettledOf(k) \cup {<<ticket[k], outcome>>}
  <2>1. PICK i \in D : i = ticket[k] /\ request[i].key = k  BY <1>3
  <2>2. k \in Keys /\ i \in Pending(k)  BY <1>1, <2>1 DEF Pending
  <2>3. Pending(k) = {i}  BY <1>5, <2>2 DEF AtMostOne
  <2>4. Pending(k)' = {}  BY <2>3, <2>1 DEF Pending
  <2>5. OpenRisk(k) # CLOSED /\ OpenRisk(k)' = CLOSED
    BY <1>1, <1>5, <2>2, <2>4, OpenIs, OpenIsNext DEF CLOSED
  <2>6. \A o : <<i, o>> \notin SettledOf(k)  BY <2>1 DEF SettledOf
  <2>7. \A j \in D : request[j].key = k => j = i  BY <2>3 DEF Pending
  <2>8. SettledOf(k)' = SettledOf(k) \cup {<<i, outcome>>}
    BY <2>1, <2>7 DEF SettledOf
  <2>9. QED  BY <2>1, <2>5, <2>6, <2>8
<1>7. ASSUME NEW k \in Keys \ ks
      PROVE  OpenRisk(k)' = OpenRisk(k) /\ SettledOf(k)' = SettledOf(k)
  <2>1. \A i \in D : request[i].key # k  BY <1>7
  <2>2. Pending(k)' = Pending(k)  BY <2>1 DEF Pending
  <2>3. SettledOf(k)' = SettledOf(k)  BY <2>1 DEF SettledOf
  <2>4. CASE Pending(k) = {}  BY <1>5, <2>2, <2>3, <2>4, OpenIs, OpenIsNext
  <2>5. ASSUME NEW i \in Pending(k) PROVE OpenRisk(k)' = OpenRisk(k)
    <3>1. request'[i].risk = request[i].risk  BY DEF Pending
    <3>2. QED  BY <1>5, <2>2, <3>1, OpenIs, OpenIsNext
  <2>6. QED  BY <2>3, <2>4, <2>5
<1>8. \/ outcome = "EXPIRED"
      \/ outcome \in {"APPROVED", "REJECTED"} /\ \E k \in Keys : ks = {k}
  BY <1>1
<1> HIDE DEF ks, ticket
<1>9. QED  BY <1>2, <1>4, <1>6, <1>7, <1>8, Settles

LEMMA InsertRaises ==
  ASSUME NEW t, Proposers = {t}, PromiseInv(t), PromiseInv(t)', CommitInsert(t)
  PROVE  Promise!Next
<1> DEFINE p == job[t].p
<1>0. TypeOK /\ AtMostOne /\ AtMostOne' /\ t \in Clients
  BY DEF PromiseInv, SingleInv, Clients
<1>1. p \in Proposal  BY <1>0, JobFields DEF CommitInsert
<1>2. p.key \in Keys /\ p.risk \in Risks  BY <1>1 DEF Proposal
<1>3. Len(request) \in Nat /\ DOMAIN request = 1 .. Len(request)  BY <1>0 DEF TypeOK
<1>4. /\ DOMAIN request' = 1 .. Len(request) + 1
      /\ \A i \in DOMAIN request : request'[i] = request[i]
      /\ request'[Len(request) + 1].key = p.key
      /\ request'[Len(request) + 1].risk = p.risk
      /\ request'[Len(request) + 1].status = "PENDING"
  BY <1>0 DEF CommitInsert, TypeOK
<1>5. Pending(p.key) = {}  BY DEF CommitInsert, PromiseInv, SingleInv, Unrivalled
<1>6. \A key \in Keys :
        Pending(key)' = Pending(key) \cup (IF key = p.key THEN {Len(request) + 1} ELSE {})
  BY <1>3, <1>4 DEF Pending
<1>7. \A key \in Keys : SettledOf(key)' = SettledOf(key)
  BY <1>3, <1>4 DEF SettledOf
<1>8. PICK k \in Keys : k = p.key /\ OpenRisk(k) = CLOSED /\ OpenRisk(k)' = p.risk
  <2>1. PICK k \in Keys : k = p.key  BY <1>2
  <2>2. OpenRisk(k) = CLOSED  BY <1>0, <1>5, <2>1, OpenIs
  <2>3. Len(request) + 1 \in Pending(k)'  BY <1>6, <2>1
  <2>4. OpenRisk(k)' = p.risk  BY <1>0, <1>4, <2>3, OpenIsNext
  <2>5. QED  BY <2>1, <2>2, <2>4
<1>9. ASSUME NEW key \in Keys, key # k PROVE OpenRisk(key)' = OpenRisk(key)
  <2>1. Pending(key)' = Pending(key)  BY <1>6, <1>8, <1>9
  <2>2. CASE Pending(key) = {}  BY <1>0, <2>1, <2>2, OpenIs, OpenIsNext
  <2>3. ASSUME NEW i \in Pending(key) PROVE OpenRisk(key)' = OpenRisk(key)
    <3>1. request'[i].risk = request[i].risk  BY <1>4 DEF Pending
    <3>2. QED  BY <1>0, <2>1, <3>1, OpenIs, OpenIsNext
  <2>4. QED  BY <2>2, <2>3
<1> HIDE DEF p
<1>10. QED  BY <1>2, <1>7, <1>8, <1>9, Raises

\* A fold into a settled row changes nothing the promise speaks of.
LEMMA FoldRaises ==
  ASSUME NEW t, Proposers = {t}, PromiseInv(t), PromiseInv(t)', CommitFold(t)
  PROVE  Promise!Next \/ UNCHANGED Promise!promiseVars
<1> DEFINE j == job[t]
<1>0. TypeOK /\ AtMostOne /\ AtMostOne' /\ t \in Clients
  BY DEF PromiseInv, SingleInv, Clients
<1>1. j.p \in Proposal /\ j.seen \in ApprovalRow  BY <1>0, JobFields DEF CommitFold
<1>2. PICK k \in Keys : k = j.p.key /\ j.p.risk \in Risks  BY <1>1 DEF Proposal
<1>3. /\ j.id \in DOMAIN request /\ request[j.id].key = k
      /\ request[j.id].risk = j.seen.risk
  BY <1>2 DEF CommitFold, PromiseInv, FoldFresh
<1>4. \A row \in ApprovalRow :
        /\ Folded(j.p, j.seen, row).status = row.status
        /\ Folded(j.p, j.seen, row).key = row.key
        /\ Folded(j.p, j.seen, row).risk = PeakRisk(j.p, j.seen, row)
  BY DEF Folded, ApprovalRow
<1>5. \A i \in DOMAIN request : request[i] \in ApprovalRow  BY <1>0 DEF TypeOK
<1>6. request' = [request EXCEPT ![j.id] = Folded(j.p, j.seen, @)]  BY DEF CommitFold
<1> HIDE DEF j
<1>7. /\ DOMAIN request' = DOMAIN request
      /\ \A i \in DOMAIN request :
           /\ request'[i].key = request[i].key
           /\ request'[i].status = request[i].status
           /\ i # j.id => request'[i].risk = request[i].risk
  BY <1>4, <1>5, <1>6
<1>8. request'[j.id].risk = Promise!Higher(request[j.id].risk, j.p.risk)
  <2>1. request'[j.id].risk = PeakRisk(j.p, j.seen, request[j.id])
    BY <1>3, <1>4, <1>5, <1>6
  <2>2. {j.p.risk, request[j.id].risk} \subseteq Nat
    BY <1>2, <1>3, <1>5 DEF ApprovalRow
  <2>3. QED  BY <1>3, <2>1, <2>2 DEF PeakRisk, Promise!Higher
<1>9. \A key \in Keys : Pending(key)' = Pending(key) /\ SettledOf(key)' = SettledOf(key)
  BY <1>7 DEF Pending, SettledOf
<1>10. ASSUME NEW key \in Keys, j.id \notin Pending(key)
       PROVE  OpenRisk(key)' = OpenRisk(key)
  <2>1. CASE Pending(key) = {}  BY <1>0, <1>9, <2>1, OpenIs, OpenIsNext
  <2>2. ASSUME NEW i \in Pending(key) PROVE OpenRisk(key)' = OpenRisk(key)
    <3>1. request'[i].risk = request[i].risk  BY <1>7, <1>10, <2>2 DEF Pending
    <3>2. QED  BY <1>0, <1>9, <3>1, OpenIs, OpenIsNext
  <2>3. QED  BY <2>1, <2>2
<1>11. CASE request[j.id].status # "PENDING"
  <2>1. \A key \in Keys : j.id \notin Pending(key)  BY <1>11 DEF Pending
  <2>2. \A key \in Keys : OpenRisk(key)' = OpenRisk(key)  BY <1>10, <2>1
  <2>3. QED  BY <1>9, <2>2 DEF Promise!promiseVars
<1>12. CASE request[j.id].status = "PENDING"
  <2>1. j.id \in Pending(k)  BY <1>3, <1>12 DEF Pending
  <2>2. /\ OpenRisk(k) = request[j.id].risk /\ OpenRisk(k) # CLOSED
        /\ OpenRisk(k)' = Promise!Higher(OpenRisk(k), j.p.risk)
    <3>1. OpenRisk(k) = request[j.id].risk  BY <1>0, <1>2, <2>1, OpenIs
    <3>2. OpenRisk(k)' = request'[j.id].risk  BY <1>0, <1>2, <1>9, <2>1, OpenIsNext
    <3>3. request[j.id].risk \in Nat  BY <1>3, <1>5 DEF ApprovalRow
    <3>4. QED  BY <1>8, <3>1, <3>2, <3>3 DEF CLOSED
  <2>3. \A key \in Keys : key # k => j.id \notin Pending(key)  BY <1>3 DEF Pending
  <2>4. \A key \in Keys : key # k => OpenRisk(key)' = OpenRisk(key)  BY <1>10, <2>3
  <2>5. Promise!Next  BY <1>2, <1>9, <2>2, <2>4, Raises
  <2>6. QED  BY <2>5
<1>13. QED  BY <1>11, <1>12

LEMMA DecisionSettles ==
  ASSUME NEW t, PromiseInv(t), PromiseInv(t)', NEW c \in Clients,
         NEW outcome \in {"APPROVED", "REJECTED"}, CommitDecision(c, outcome)
  PROVE  Promise!Next \/ UNCHANGED request
<1> DEFINE i == job[c].id
<1>1. \A k \in DOMAIN request : request[k] \in ApprovalRow
  BY DEF PromiseInv, SingleInv, TypeOK
<1>2. request' = [request EXCEPT ![i].status = outcome]  BY DEF CommitDecision
<1>3. CASE i \notin DOMAIN request
  <2>1. request \in Seq(ApprovalRow)  BY DEF PromiseInv, SingleInv, TypeOK
  <2> HIDE DEF i
  <2>2. request' = request  BY <1>2, <1>3, <2>1
  <2>3. QED  BY <2>2
<1>4. CASE i \in DOMAIN request
  <2>1. request[i].status = "PENDING"  BY DEF CommitDecision, Decidable
  <2>2. \A k \in DOMAIN request :
          /\ request'[k].key = request[k].key /\ request'[k].risk = request[k].risk
          /\ k \in {i} => request[k].status = "PENDING" /\ request'[k].status = outcome
          /\ k \notin {i} => request'[k].status = request[k].status
    BY <1>1, <1>2, <2>1 DEF ApprovalRow
  <2>3. DOMAIN request' = DOMAIN request  BY <1>2
  <2>4. {i} \in SUBSET DOMAIN request  BY <1>4
  <2> HIDE DEF i
  <2>5. QED  BY <2>2, <2>3, <2>4, RowsSettled
<1>5. QED  BY <1>3, <1>4

LEMMA SweepSettles ==
  ASSUME NEW t, PromiseInv(t), PromiseInv(t)', NEW c \in Clients, CommitSweep(c)
  PROVE  Promise!Next
<1> DEFINE D == {i \in DOMAIN request : Stale(request[i], job[c].now)}
<1>1. \A k \in DOMAIN request : request[k] \in ApprovalRow
  BY DEF PromiseInv, SingleInv, TypeOK
<1>2. request' = [i \in DOMAIN request |->
        IF i \in D THEN [request[i] EXCEPT !.status = "EXPIRED"] ELSE request[i]]
  BY DEF CommitSweep
<1>3. \A k \in DOMAIN request :
        /\ request'[k].key = request[k].key /\ request'[k].risk = request[k].risk
        /\ k \in D => request[k].status = "PENDING" /\ request'[k].status = "EXPIRED"
        /\ k \notin D => request'[k].status = request[k].status
  BY <1>1, <1>2 DEF Stale, ApprovalRow
<1>4. DOMAIN request' = DOMAIN request /\ D \in SUBSET DOMAIN request  BY <1>2
<1> HIDE DEF D
<1>5. QED  BY <1>3, <1>4, RowsSettled

\* Every step of the queue is a step of the promise, or none.
LEMMA PromiseStep ==
  ASSUME NEW t, Proposers = {t}, PromiseInv(t), PromiseInv(t)', [Next]_vars
  PROVE  [Promise!Next]_(Promise!promiseVars)
<1>1. CASE UNCHANGED request
  <2>1. \A key \in Keys : OpenRisk(key)' = OpenRisk(key) /\ SettledOf(key)' = SettledOf(key)
    BY <1>1 DEF OpenRisk, SettledOf, Pending
  <2>2. QED  BY <2>1 DEF Promise!promiseVars
<1>2. CASE Propose(t)
  BY <1>1, <1>2, InsertRaises, FoldRaises DEF Propose, FindPending
<1>3. ASSUME NEW c \in People, Decide(c)
      PROVE  Promise!Next \/ UNCHANGED request
  <2>1. c \in Clients  BY DEF Clients
  <2>2. QED  BY <1>3, <2>1, DecisionSettles DEF Decide, ReceiveDecision
<1>4. ASSUME NEW c \in Dashboards, List(c)
      PROVE  Promise!Next \/ UNCHANGED request
  <2>1. c \in Clients  BY DEF Clients
  <2>2. QED  BY <1>4, <2>1, SweepSettles DEF List, ReceiveListing
<1>5. QED  BY <1>1, <1>2, <1>3, <1>4 DEF Next, Abandon, Tick, vars

\* With one proposer the queue keeps the promise of ApprovalPromise, for any
\* keys, people and dashboards: an open request shows the peak of the risks
\* reported since it was opened, and each request is settled once.
THEOREM QueueKeepsPromise ==
  ASSUME NEW CONSTANT t, Proposers = {t}
  PROVE  Spec => KeepsPromise
<1>1. Init => PromiseInv(t)  BY PromiseInit
<1>2. PromiseInv(t) /\ [Next]_vars => PromiseInv(t)'  BY PromiseInvStep
<1>3. Init => Promise!Init
  BY DEF Init, Promise!Init, OpenRisk, SettledOf, Pending
<1>4. PromiseInv(t) /\ PromiseInv(t)' /\ [Next]_vars => [Promise!Next]_(Promise!promiseVars)
  BY PromiseStep
<1>5. QED  BY <1>1, <1>2, <1>3, <1>4, PTL DEF Spec, KeepsPromise, Promise!Spec
=============================================================================
