----------------------------- MODULE RuleAgents -----------------------------
(***************************************************************************)
(* The rule-based agents (app/equipment_agent.py, app/production_agent.py, *)
(* the quality agent of app/simulation.py) and the plan the control tower  *)
(* makes of what they propose (app/control_tower.py): the part of a check  *)
(* cycle that only computes.                                               *)
(***************************************************************************)
EXTENDS Integers, FiniteSets, FiniteSetsExt

CONSTANTS
  Tools,           \* the equipment the agents look at
  ProcessSteps,    \* the steps of the route, as names of a proposal's subject
  Factory          \* the subject of a factory-wide proposal

ASSUME RuleAgentsAssumption ==
  Factory \notin Tools \cup ProcessSteps /\ Tools \cap ProcessSteps = {}

\* A proposal about no equipment is told apart by its equipment_name; its
\* dedupe key and its name determine each other.
Scopes == Tools \cup ProcessSteps \cup {Factory}

LOW == 0
MEDIUM == 1
HIGH == 2
CRITICAL == 3
RiskLevels == LOW .. CRITICAL

ALLOWED_ACTION_KINDS == {"STOP_NEW_DISPATCH", "REVIEW_RECIPE", "INSPECT_EQUIPMENT"}
\* Any other string a model may answer with.
ActionKinds == ALLOWED_ACTION_KINDS \cup {"OTHER"}

RuleAgentNames == {"rule:quality-anomaly", "rule:equipment-downtime", "rule:production-hold"}
AgentNames == RuleAgentNames \cup {"llm:root-cause"}

AgentProposal ==
  [agent : AgentNames, scope : Scopes, kind : ActionKinds, risk : RiskLevels]

-----------------------------------------------------------------------------
(* What each rule makes of its measurement.                                *)

EQUIPMENT_DOWN_RISK_TIERS == {<<6, HIGH>>, <<4, MEDIUM>>, <<3, LOW>>}
CONCURRENT_DOWN_RISK_TIERS == {<<8, HIGH>>, <<5, MEDIUM>>}
HOLD_RISK_TIERS == {<<240, HIGH>>, <<90, MEDIUM>>, <<30, LOW>>}

\* The risk of the highest tier that is reached; none below the lowest.
RiskFor(tiers, n) ==
  {t[2] : t \in {t \in tiers : n >= t[1] /\ \A u \in tiers : n >= u[1] => u[1] <= t[1]}}

SeverityRisk(severity) ==
  CASE severity = "WARNING"  -> {HIGH}
    [] severity = "CRITICAL" -> {CRITICAL}
    [] OTHER                 -> {}

\* What the database shows a check cycle: each tool's anomaly, how often it
\* went down lately, how many tools of the plant went down at almost once, and
\* the seconds the longest open HOLD of each step has lasted.
Severities == {"NONE", "WATCH", "WARNING", "CRITICAL"}
Observation ==
  [severity : [Tools -> Severities], downs : [Tools -> Nat], burst : Nat,
   wait : [ProcessSteps -> Nat]]

ProposalsOf(agent, scope, kind, risks) ==
  {[agent |-> agent, scope |-> scope, kind |-> kind, risk |-> r] : r \in risks}

QualityProposals(obs) ==
  UNION {ProposalsOf("rule:quality-anomaly", t, "STOP_NEW_DISPATCH",
                     SeverityRisk(obs.severity[t])) : t \in Tools}

ProposeFromDowntime(obs) ==
  UNION {ProposalsOf("rule:equipment-downtime", t, "INSPECT_EQUIPMENT",
                     RiskFor(EQUIPMENT_DOWN_RISK_TIERS, obs.downs[t])) : t \in Tools}

ProposeFromConcurrentDowns(obs) ==
  ProposalsOf("rule:equipment-downtime", Factory, "INSPECT_EQUIPMENT",
              RiskFor(CONCURRENT_DOWN_RISK_TIERS, obs.burst))

ProposeFromStepHoldWait(obs) ==
  UNION {ProposalsOf("rule:production-hold", s, "INSPECT_EQUIPMENT",
                     RiskFor(HOLD_RISK_TIERS, obs.wait[s])) : s \in ProcessSteps}

RuleProposals(obs) ==
  QualityProposals(obs) \cup ProposeFromDowntime(obs)
    \cup ProposeFromConcurrentDowns(obs) \cup ProposeFromStepHoldWait(obs)

-----------------------------------------------------------------------------
(* The plan.                                                               *)

\* Agents and kinds are joined in the order of the proposals, which is the
\* same in every cycle, so that as sets they say as much.
Merged(ps, s) ==
  LET group == {p \in ps : p.scope = s}
      risk  == Max({p.risk : p \in group})
  IN  [scope |-> s, planned |-> risk, risk |-> risk,
       agents |-> {p.agent : p \in group}, kinds |-> {p.kind : p \in group}]

Disposition(risk) == IF risk < MEDIUM THEN "AUTO_RECORD" ELSE "QUEUE"

Planned(merged, disposition) ==
  [disposition |-> disposition, scope |-> merged.scope, planned |-> merged.planned,
   risk |-> merged.risk, agents |-> merged.agents, kinds |-> merged.kinds]

Allowed(ps) == {p \in ps : p.kind \in ALLOWED_ACTION_KINDS}

\* Mutant: proposals are grouped first and blocked when none of a group is allowed.
PlanGroups(ps) ==
  LET Blocked(s) == \A p \in ps : p.scope = s => p.kind \notin ALLOWED_ACTION_KINDS
  IN  {LET m == Merged(ps, s)
       IN  Planned(m, IF Blocked(s) THEN "BLOCK" ELSE Disposition(m.risk)) :
         s \in {p.scope : p \in ps}}

\* Mutant: every agent's proposals are a group of their own.
PlanPerAgent(ps) ==
  {LET m == Merged({p}, p.scope)
   IN  Planned(m, IF p.kind \in ALLOWED_ACTION_KINDS THEN Disposition(m.risk) ELSE "BLOCK") :
     p \in ps}

\* A disallowed action never rides along with an allowed one.
Plan(ps) ==
  LET allowed == Allowed(ps)
      blocked == ps \ allowed
  IN      {Planned(Merged(blocked, s), "BLOCK") : s \in {p.scope : p \in blocked}}
     \cup {LET m == Merged(allowed, s) IN Planned(m, Disposition(m.risk)) :
             s \in {p.scope : p \in allowed}}

PlannedDecision ==
  [disposition : {"BLOCK", "AUTO_RECORD", "QUEUE"}, scope : Scopes, planned : RiskLevels,
   risk : RiskLevels, agents : SUBSET AgentNames, kinds : SUBSET ActionKinds]

-----------------------------------------------------------------------------
(* The model inside the control tower.                                     *)

\* Mutant: CRITICAL is raised too.
RiskUpAlways(risk) == risk + 1

RiskUp(risk) == IF risk = CRITICAL THEN CRITICAL ELSE risk + 1

\* It may raise the risk by one level; the disposition follows.
ApplyAdvice(d, escalate) ==
  LET risk == IF escalate THEN RiskUp(d.risk) ELSE d.risk
  IN  [d EXCEPT !.risk = risk, !.disposition = Disposition(risk)]
=============================================================================
