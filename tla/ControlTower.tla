---------------------------- MODULE ControlTower ----------------------------
(***************************************************************************)
(* A check cycle from the rules' proposals to the decision log             *)
(* (app/control_tower.py, app/llm_agent.py, _propose_actions of            *)
(* app/simulation.py) over the approval queue it feeds.  The engine's      *)
(* thread runs one cycle at a time, but every model call and every commit  *)
(* leaves room for people to decide, for requests to expire and for the    *)
(* server to die.                                                          *)
(***************************************************************************)
EXTENDS Approvals, RuleAgents

CONSTANTS
  Tower,           \* the engine's thread: the only proposer
  Observations,    \* what the database may show a cycle
  ModelKinds,      \* the actions a root-cause model may name
  Settlements,     \* how requests are settled
  Cooldown,        \* COOLDOWN_SECONDS, in clock units
  MaxDecisions,    \* bound: rows of control_tower_decision
  MaxCuts          \* bound: cycles that die between a request and its decision

ASSUME ControlTowerAssumption ==
  /\ Proposers = {Tower}
  /\ Settlements \subseteq ApprovalStatus \ {"PENDING"}
  /\ Keys = Scopes /\ Risks = RiskLevels /\ Texts = SUBSET ActionKinds
  /\ Observations \subseteq Observation /\ ModelKinds \subseteq ActionKinds
  /\ Cooldown \in Nat /\ MaxDecisions \in Nat /\ MaxCuts \in Nat

VARIABLES
  cycle,       \* what the running cycle holds
  analyzed,    \* llm_agent_run, root-cause: when each tool was last analysed
  advised,     \* llm_agent_run, tower-advisor: the last usable answer
  decision,    \* the control_tower_decision table
  cut          \* history: requests whose decision a dying cycle never wrote

towerVars == <<cycle, analyzed, advised, decision, cut>>
allVars == <<vars, towerVars>>

NoCycle == [pc |-> "idle"]

\* The equipment_id of a proposal; proposals about none share SQL's NULL.
EquipmentOf(scope) == IF scope \in Tools THEN scope ELSE Never
NoAnswer == [at |-> Never, escalate |-> FALSE]

TowerInit ==
  /\ Init
  /\ cycle = NoCycle
  /\ analyzed = [t \in Tools |-> Never]
  /\ advised = [e \in Tools \cup {Never} |-> NoAnswer]
  /\ decision = <<>>
  /\ cut = {}

Recent(at, now) == at # Never /\ at >= now - Cooldown

-----------------------------------------------------------------------------
(* Propose, plan and advise.  Nobody else reads or writes llm_agent_run, so *)
(* all calls of one kind are one step; the time they take is the clock's.  *)

MaxRisk(ps) == Max({p.risk : p \in ps})
About(ps, t) == {p \in ps : p.scope = t}

\* The tools a rule found worth a person's time and no call was spent on lately.
Targets(ps) ==
  {t \in Tools : /\ \E p \in About(ps, t) : p.risk >= MEDIUM
                 /\ ~ Recent(analyzed[t], clock)}

\* A usable answer names any action and takes the rule's risk.
Hypothesis(ps, t, kind) ==
  [agent |-> "llm:root-cause", scope |-> t, kind |-> kind, risk |-> MaxRisk(About(ps, t))]

\* Without a client nothing is asked.  Every call is logged, usable or not; an
\* agent that fails part of the way proposes nothing.
Gather(obs) ==
  LET ps == RuleProposals(obs) IN
  /\ cycle = NoCycle
  /\ \E asked \in SUBSET Targets(ps) :
       /\ analyzed' = [t \in Tools |-> IF t \in asked THEN clock ELSE analyzed[t]]
       /\ \E usable \in SUBSET asked : \E kind \in [usable -> ModelKinds] :
            LET all == ps \cup {Hypothesis(ps, t, kind[t]) : t \in usable}
            IN  cycle' = [pc |-> "advise", now |-> clock, plan |-> Plan(all)]
  /\ UNCHANGED <<vars, advised, decision, cut>>

\* Mutant: the advice starts from the risk the open request shows already.
AdvisedFromPeak(d, escalate) ==
  LET shown == {request[i].risk : i \in Pending(d.scope)} \cup {d.risk}
  IN  ApplyAdvice([d EXCEPT !.risk = Max(shown)], escalate)

Advised(d, escalate) == ApplyAdvice(d, escalate)

\* BLOCK never reaches the model.
OpenTo(plan) == {d \in plan : d.disposition # "BLOCK"}

\* Inside the cooldown the last usable answer about the equipment is used
\* again; otherwise the model is called, and an unusable answer leaves the
\* decision as planned.  A usable one serves the rest of the cycle too.  No
\* decision is changed without a client or when the advisor fails.
Advise ==
  LET open == OpenTo(cycle.plan)
      cached == {d \in open : Recent(advised[EquipmentOf(d.scope)].at, cycle.now)}
  IN
  /\ cycle.pc = "advise"
  /\ \E heeded \in SUBSET open :
     \E called \in SUBSET {EquipmentOf(d.scope) : d \in open \ cached} :
     \E escalate \in [called -> BOOLEAN] :
       /\ advised' = [e \in Tools \cup {Never} |->
            IF e \in called THEN [at |-> cycle.now, escalate |-> escalate[e]] ELSE advised[e]]
       /\ heeded # {} => cached \subseteq heeded
                        /\ called \subseteq {EquipmentOf(d.scope) : d \in heeded}
       /\ \A d \in heeded : Recent(advised'[EquipmentOf(d.scope)].at, cycle.now)
       /\ cycle' = [pc |-> "queue", now |-> cycle.now,
            todo |-> (cycle.plan \ heeded)
              \cup {Advised(d, advised'[EquipmentOf(d.scope)].escalate) : d \in heeded}]
  /\ UNCHANGED <<vars, analyzed, decision, cut>>

-----------------------------------------------------------------------------
(* Queue and record.                                                       *)

Reach(d) ==
  /\ cycle.pc = "queue"
  /\ d \in cycle.todo

\* upsert_request looks for the PENDING row to fold into ...
FindRequest(d) ==
  /\ Reach(d)
  /\ d.disposition = "QUEUE"
  /\ \E ttl \in Ttls :
       FindPending(Tower, d.scope, d.risk, d.kinds, ExpiresAt(cycle.now, ttl))
  /\ cycle' = [pc |-> "upsert", now |-> cycle.now, todo |-> cycle.todo \ {d}, d |-> d]
  /\ UNCHANGED <<analyzed, advised, decision, cut>>

\* ... and commits the request before the decision that explains it.
CommitRequest ==
  /\ cycle.pc = "upsert"
  /\ \E id \in 1 .. Len(request) + 1 :
       /\ \/ CommitInsert(Tower) /\ id = Len(request) + 1
          \/ CommitFold(Tower) /\ id = job[Tower].id
       /\ cycle' = [pc |-> "record", now |-> cycle.now, todo |-> cycle.todo,
                    d |-> cycle.d, approval |-> id]
  /\ UNCHANGED <<analyzed, advised, decision, cut>>

\* The reason of a BLOCK names its kinds; that of the others follows from the
\* risk planned and the risk advised.
Row(d, approval) ==
  [disposition |-> d.disposition, scope |-> d.scope, planned |-> d.planned, risk |-> d.risk,
   agents |-> d.agents, kinds |-> IF d.disposition = "BLOCK" THEN d.kinds ELSE {},
   approval |-> approval]

Last(d) == {n \in DOMAIN decision :
  /\ decision[n].scope = d.scope /\ decision[n].disposition = d.disposition
  /\ \A k \in n + 1 .. Len(decision) :
       decision[k].scope # d.scope \/ decision[k].disposition # d.disposition}

\* Mutant: a higher risk of the same request is taken for a repeat.
SameRequest(d, approval) ==
  \E n \in Last(d) : /\ decision[n].agents = d.agents
                     /\ decision[n].approval = approval

IsRepeat(d, approval) ==
  \E n \in Last(d) :
    /\ decision[n].risk = d.risk
    /\ decision[n].agents = d.agents
    /\ decision[n].approval = approval
    /\ d.disposition = "QUEUE" \/ decision[n].kinds = Row(d, approval).kinds

Record(d, approval) ==
  IF IsRepeat(d, approval)
    THEN UNCHANGED decision
    ELSE /\ Len(decision) < MaxDecisions
         /\ decision' = Append(decision, Row(d, approval))

RecordOnly(d) ==
  /\ Reach(d)
  /\ d.disposition # "QUEUE"
  /\ Record(d, Never)
  /\ cycle' = [pc |-> "queue", now |-> cycle.now, todo |-> cycle.todo \ {d}]
  /\ UNCHANGED <<vars, analyzed, advised, cut>>

RecordRequest ==
  /\ cycle.pc = "record"
  /\ Record(cycle.d, cycle.approval)
  /\ cycle' = [pc |-> "queue", now |-> cycle.now, todo |-> cycle.todo]
  /\ UNCHANGED <<vars, analyzed, advised, cut>>

EndCycle ==
  /\ cycle.pc = "queue"
  /\ cycle.todo = {}
  /\ cycle' = NoCycle
  /\ UNCHANGED <<vars, analyzed, advised, decision, cut>>

\* A statement fails or the server dies: what was committed stays.
CutShort ==
  /\ cycle # NoCycle
  /\ cycle' = NoCycle
  /\ IF cycle.pc = "record"
       THEN /\ Cardinality(cut) < MaxCuts
            /\ cut' = cut \cup {[approval |-> cycle.approval, risk |-> cycle.d.risk]}
       ELSE UNCHANGED cut
  /\ job' = [job EXCEPT ![Tower] = Idle]
  /\ UNCHANGED <<clock, request, analyzed, advised, decision>>

-----------------------------------------------------------------------------

TowerStep ==
  \/ \E obs \in Observations : Gather(obs)
  \/ Advise
  \/ cycle.pc = "queue" /\ \E d \in cycle.todo : FindRequest(d) \/ RecordOnly(d)
  \/ CommitRequest
  \/ RecordRequest
  \/ EndCycle
  \/ CutShort

\* A person decides a PENDING request or a sweep expires it: what Approvals
\* shows in detail is here one step, taken at any time.
Settle(i, outcome) ==
  /\ request[i].status = "PENDING"
  /\ request' = [request EXCEPT ![i].status = outcome]
  /\ UNCHANGED <<clock, job, towerVars>>

QueueStep ==
  \/ \E i \in DOMAIN request, outcome \in Settlements : Settle(i, outcome)
  \/ Tick /\ UNCHANGED towerVars

TowerNext == TowerStep \/ QueueStep
TowerSpec == TowerInit /\ [][TowerNext]_allVars

-----------------------------------------------------------------------------

DecisionRow ==
  [disposition : {"BLOCK", "AUTO_RECORD", "QUEUE"}, scope : Scopes, planned : RiskLevels,
   risk : RiskLevels, agents : SUBSET AgentNames, kinds : SUBSET ActionKinds,
   approval : (Nat \ {0}) \cup {Never}]

Cycle ==
       [pc : {"idle"}]
  \cup [pc : {"advise"}, now : Nat, plan : SUBSET PlannedDecision]
  \cup [pc : {"queue"}, now : Nat, todo : SUBSET PlannedDecision]
  \cup [pc : {"upsert"}, now : Nat, todo : SUBSET PlannedDecision, d : PlannedDecision]
  \cup [pc : {"record"}, now : Nat, todo : SUBSET PlannedDecision, d : PlannedDecision,
        approval : Nat \ {0}]

\* Every row and everything a cycle carries from step to step has its type.
TowerTypeOK ==
  /\ TypeOK
  /\ cycle \in Cycle
  /\ analyzed \in [Tools -> Nat \cup {Never}]
  /\ advised \in [Tools \cup {Never} -> [at : Nat \cup {Never}, escalate : BOOLEAN]]
  /\ decision \in Seq(DecisionRow)
  /\ cut \subseteq [approval : Nat \ {0}, risk : RiskLevels]

Citing(i) == {n \in DOMAIN decision : decision[n].approval = i}

\* The gate (control_tower.py:91): whatever a model answers and whoever folds
\* into whose request, a request asks for allowed actions only and its risk is
\* worth a person's time.
OnlyAllowedReachesPeople ==
  \A i \in DOMAIN request :
    request[i].text \subseteq ALLOWED_ACTION_KINDS /\ request[i].risk >= MEDIUM

\* A model only adds to what a rule found (llm_agent.py:3): no decision but a
\* BLOCK is a model's alone.
RulesOwnEveryDecision ==
  \A n \in DOMAIN decision :
    decision[n].disposition # "BLOCK" => decision[n].agents \cap RuleAgentNames # {}

\* Every request shows a risk some recorded decision gives for it, unless a
\* cycle died between the two commits: dropping the repeats of a standing
\* condition never drops the decision that raised a request.
EveryRequestIsExplained ==
  \A i \in DOMAIN request :
    \/ \E n \in Citing(i) : /\ decision[n].disposition = "QUEUE"
                            /\ decision[n].risk = request[i].risk
    \/ [approval |-> i, risk |-> request[i].risk] \in cut
    \/ cycle.pc = "record" /\ cycle.approval = i

\* However often a problem is reported and a cached answer is used again, a
\* request shows at most one level more than the worst a rule planned for it
\* (llm_agent.py:386, "the risk can only rise by one level").
RiskWithinOneStep ==
  \A i \in DOMAIN request :
    \/ \E n \in Citing(i) : request[i].risk <= decision[n].planned + 1
    \/ \E lost \in cut : lost.approval = i
    \/ cycle.pc = "record" /\ cycle.approval = i
=============================================================================
