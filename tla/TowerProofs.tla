---------------------------- MODULE TowerProofs -----------------------------
(***************************************************************************)
(* Proofs about the control tower, for any equipment, any observations and *)
(* any answers of the model.                                               *)
(***************************************************************************)
EXTENDS ControlTower, ApprovalsProofs

USE ApprovalsAssumption, RuleAgentsAssumption, ControlTowerAssumption

LEMMA Levels ==
  /\ RiskLevels = 0 .. 3 /\ LOW = 0 /\ MEDIUM = 1 /\ HIGH = 2 /\ CRITICAL = 3
BY DEF RiskLevels, LOW, MEDIUM, HIGH, CRITICAL

-----------------------------------------------------------------------------
(* What the rules propose.                                                 *)

\* Some risks have a highest.
LEMMA MaxOfRisks ==
  ASSUME NEW S \in SUBSET RiskLevels, S # {}
  PROVE  Max(S) \in S
<1>1. \E x \in S : \A y \in S : x >= y
  <2>1. \A x \in S : x = 0 \/ x = 1 \/ x = 2 \/ x = 3  BY Levels
  <2>2. CASE 3 \in S  BY <2>1, <2>2
  <2>3. CASE 3 \notin S /\ 2 \in S  BY <2>1, <2>3
  <2>4. CASE 3 \notin S /\ 2 \notin S /\ 1 \in S  BY <2>1, <2>4
  <2>5. CASE 3 \notin S /\ 2 \notin S /\ 1 \notin S
    <3>1. \A x \in S : x = 0  BY <2>1, <2>5
    <3>2. PICK x \in S : TRUE  OBVIOUS
    <3>3. \A y \in S : x >= y  BY <3>1
    <3>4. QED  BY <3>3
  <2>6. QED  BY <2>2, <2>3, <2>4, <2>5
<1>2. QED  BY <1>1 DEF Max

\* A proposal of a rule: typed, and of an action people may be asked for.
RuleProposal(p) ==
  p \in AgentProposal /\ p.agent \in RuleAgentNames /\ p.kind \in ALLOWED_ACTION_KINDS

LEMMA ProposalsSound ==
  ASSUME NEW agent \in RuleAgentNames, NEW scope \in Scopes,
         NEW kind \in ALLOWED_ACTION_KINDS, NEW risks \in SUBSET RiskLevels
  PROVE  \A p \in ProposalsOf(agent, scope, kind, risks) : RuleProposal(p)
BY DEF ProposalsOf, RuleProposal, AgentProposal, AgentNames, ActionKinds

LEMMA TiersTyped ==
  ASSUME NEW tiers, \A t \in tiers : t[2] \in RiskLevels, NEW n
  PROVE  RiskFor(tiers, n) \in SUBSET RiskLevels
BY DEF RiskFor

LEMMA RisksTyped ==
  /\ \A s : SeverityRisk(s) \in SUBSET RiskLevels
  /\ \A n : RiskFor(EQUIPMENT_DOWN_RISK_TIERS, n) \in SUBSET RiskLevels
  /\ \A n : RiskFor(CONCURRENT_DOWN_RISK_TIERS, n) \in SUBSET RiskLevels
  /\ \A n : RiskFor(HOLD_RISK_TIERS, n) \in SUBSET RiskLevels
<1>1. ASSUME NEW s PROVE SeverityRisk(s) \in SUBSET RiskLevels
  BY Levels DEF SeverityRisk
<1>2. \A t \in EQUIPMENT_DOWN_RISK_TIERS : t[2] \in RiskLevels
  BY Levels DEF EQUIPMENT_DOWN_RISK_TIERS
<1>3. \A t \in CONCURRENT_DOWN_RISK_TIERS : t[2] \in RiskLevels
  BY Levels DEF CONCURRENT_DOWN_RISK_TIERS
<1>4. \A t \in HOLD_RISK_TIERS : t[2] \in RiskLevels
  BY Levels DEF HOLD_RISK_TIERS
<1>5. QED  BY <1>1, <1>2, <1>3, <1>4, TiersTyped

LEMMA RulesSound == ASSUME NEW obs PROVE \A p \in RuleProposals(obs) : RuleProposal(p)
<1>1. /\ "STOP_NEW_DISPATCH" \in ALLOWED_ACTION_KINDS
      /\ "INSPECT_EQUIPMENT" \in ALLOWED_ACTION_KINDS
      /\ {"rule:quality-anomaly", "rule:equipment-downtime", "rule:production-hold"}
           \subseteq RuleAgentNames
      /\ Tools \subseteq Scopes /\ ProcessSteps \subseteq Scopes /\ Factory \in Scopes
  BY DEF ALLOWED_ACTION_KINDS, RuleAgentNames, Scopes
<1>2. \A p \in QualityProposals(obs) : RuleProposal(p)
  <2> DEFINE quality(t) == ProposalsOf("rule:quality-anomaly", t, "STOP_NEW_DISPATCH",
                                       SeverityRisk(obs.severity[t]))
  <2>1. \A t \in Tools : \A p \in quality(t) : RuleProposal(p)
    BY <1>1, RisksTyped, ProposalsSound
  <2>2. QualityProposals(obs) = UNION {quality(t) : t \in Tools}  BY DEF QualityProposals
  <2> HIDE DEF quality
  <2>3. QED  BY <2>1, <2>2
<1>3. \A p \in ProposeFromDowntime(obs) : RuleProposal(p)
  <2> DEFINE downtime(t) == ProposalsOf("rule:equipment-downtime", t, "INSPECT_EQUIPMENT",
                              RiskFor(EQUIPMENT_DOWN_RISK_TIERS, obs.downs[t]))
  <2>1. \A t \in Tools : \A p \in downtime(t) : RuleProposal(p)
    BY <1>1, RisksTyped, ProposalsSound
  <2>2. ProposeFromDowntime(obs) = UNION {downtime(t) : t \in Tools}
    BY DEF ProposeFromDowntime
  <2> HIDE DEF downtime
  <2>3. QED  BY <2>1, <2>2
<1>4. \A p \in ProposeFromConcurrentDowns(obs) : RuleProposal(p)
  BY <1>1, RisksTyped, ProposalsSound DEF ProposeFromConcurrentDowns
<1>5. \A p \in ProposeFromStepHoldWait(obs) : RuleProposal(p)
  <2> DEFINE hold(s) == ProposalsOf("rule:production-hold", s, "INSPECT_EQUIPMENT",
                                    RiskFor(HOLD_RISK_TIERS, obs.wait[s]))
  <2>1. \A s \in ProcessSteps : \A p \in hold(s) : RuleProposal(p)
    BY <1>1, RisksTyped, ProposalsSound
  <2>2. ProposeFromStepHoldWait(obs) = UNION {hold(s) : s \in ProcessSteps}
    BY DEF ProposeFromStepHoldWait
  <2> HIDE DEF hold
  <2>3. QED  BY <2>1, <2>2
<1>6. QED  BY <1>2, <1>3, <1>4, <1>5 DEF RuleProposals

-----------------------------------------------------------------------------
(* What the plan makes of proposals.                                       *)

\* What must hold of a decision for people to see it, whatever model had a say.
Sound(d) ==
  /\ d \in PlannedDecision
  /\ d.disposition # "BLOCK" => /\ d.kinds \subseteq ALLOWED_ACTION_KINDS
                                /\ d.agents \cap RuleAgentNames # {}
  /\ d.disposition = "QUEUE" => d.risk >= MEDIUM

LEMMA MergedTyped ==
  ASSUME NEW ps \in SUBSET AgentProposal, NEW s, \E p \in ps : p.scope = s
  PROVE  /\ Merged(ps, s).scope = s /\ s \in Scopes
         /\ Merged(ps, s).risk \in RiskLevels
         /\ Merged(ps, s).planned \in RiskLevels
         /\ \A p \in ps : p.scope = s => p.agent \in Merged(ps, s).agents
         /\ \A k \in Merged(ps, s).kinds : \E p \in ps : p.kind = k
         /\ Merged(ps, s).agents \subseteq AgentNames
         /\ Merged(ps, s).kinds \subseteq ActionKinds
<1> DEFINE group == {p \in ps : p.scope = s}
           risks == {p.risk : p \in group}
<1>1. \A p \in group : /\ p.risk \in RiskLevels /\ p.agent \in AgentNames
                       /\ p.kind \in ActionKinds /\ p.scope \in Scopes
  BY DEF AgentProposal
<1>2. risks \in SUBSET RiskLevels /\ risks # {}  BY <1>1
<1>3. Max(risks) \in RiskLevels
  <2> HIDE DEF risks
  <2>1. QED  BY <1>2, MaxOfRisks
<1>4. Merged(ps, s) = [scope |-> s, planned |-> Max(risks), risk |-> Max(risks),
                       agents |-> {p.agent : p \in group}, kinds |-> {p.kind : p \in group}]
  BY DEF Merged
<1>5. QED  BY <1>1, <1>3, <1>4

LEMMA PlannedTyped ==
  ASSUME NEW ps \in SUBSET AgentProposal, NEW s, \E p \in ps : p.scope = s,
         NEW disposition \in {"BLOCK", "AUTO_RECORD", "QUEUE"}
  PROVE  Planned(Merged(ps, s), disposition) \in PlannedDecision
BY MergedTyped DEF Planned, PlannedDecision

LEMMA DispositionGates ==
  ASSUME NEW risk \in RiskLevels
  PROVE  /\ Disposition(risk) \in {"AUTO_RECORD", "QUEUE"}
         /\ Disposition(risk) = "QUEUE" => risk >= MEDIUM
BY Levels DEF Disposition

\* Allowed proposals of one scope, one of them a rule's, make a sound decision.
LEMMA GroupSound ==
  ASSUME NEW ps \in SUBSET AgentProposal, \A p \in ps : p.kind \in ALLOWED_ACTION_KINDS,
         NEW s, NEW q \in ps, RuleProposal(q), q.scope = s
  PROVE  Sound(Planned(Merged(ps, s), Disposition(Merged(ps, s).risk)))
<1> DEFINE m == Merged(ps, s)
           d == Planned(m, Disposition(m.risk))
<1>1. /\ m.risk \in RiskLevels
      /\ q.agent \in m.agents
      /\ \A k \in m.kinds : \E p \in ps : p.kind = k
  BY MergedTyped
<1>2. m.agents \cap RuleAgentNames # {}  BY <1>1 DEF RuleProposal
<1>3. m.kinds \subseteq ALLOWED_ACTION_KINDS  BY <1>1
<1>4. /\ Disposition(m.risk) \in {"AUTO_RECORD", "QUEUE"}
      /\ Disposition(m.risk) = "QUEUE" => m.risk >= MEDIUM
  BY <1>1, DispositionGates
<1>5. d \in PlannedDecision  BY <1>4, PlannedTyped
<1>6. /\ d.disposition = Disposition(m.risk) /\ d.risk = m.risk
      /\ d.agents = m.agents /\ d.kinds = m.kinds
  <2> HIDE DEF m
  <2>1. QED  BY DEF Planned
<1> HIDE DEF m, d
<1>7. Sound(d)  BY <1>2, <1>3, <1>4, <1>5, <1>6 DEF Sound
<1>8. QED  BY <1>7 DEF d, m

\* A plan is sound when every allowed proposal shares its scope with a rule's.
LEMMA PlanSound ==
  ASSUME NEW ps \in SUBSET AgentProposal,
         \A p \in ps : \E q \in ps : RuleProposal(q) /\ q.scope = p.scope
  PROVE  \A d \in Plan(ps) : Sound(d)
<1> DEFINE allowed == Allowed(ps)
           blocked == ps \ allowed
<1>1. allowed \in SUBSET AgentProposal /\ blocked \in SUBSET AgentProposal
      /\ \A p \in allowed : p.kind \in ALLOWED_ACTION_KINDS
  BY DEF Allowed
<1>2. ASSUME NEW s \in {p.scope : p \in blocked}
      PROVE  Sound(Planned(Merged(blocked, s), "BLOCK"))
  <2>1. Planned(Merged(blocked, s), "BLOCK") \in PlannedDecision  BY <1>1, <1>2, PlannedTyped
  <2>2. Planned(Merged(blocked, s), "BLOCK").disposition = "BLOCK"  BY DEF Planned
  <2>3. QED  BY <2>1, <2>2 DEF Sound
<1>3. ASSUME NEW s \in {p.scope : p \in allowed}
      PROVE  Sound(Planned(Merged(allowed, s), Disposition(Merged(allowed, s).risk)))
  <2>1. PICK q \in ps : RuleProposal(q) /\ q.scope = s  BY <1>3 DEF Allowed
  <2>2. q \in allowed  BY <2>1 DEF Allowed, RuleProposal
  <2> HIDE DEF allowed
  <2>3. QED  BY <1>1, <2>1, <2>2, GroupSound
<1>4. QED  BY <1>2, <1>3 DEF Plan

\* Advice raises the risk, and nothing else but the disposition that follows.
LEMMA AdvisedSound ==
  ASSUME NEW d, Sound(d), d.disposition # "BLOCK", NEW escalate \in BOOLEAN
  PROVE  Sound(Advised(d, escalate))
<1> DEFINE risk == IF escalate THEN RiskUp(d.risk) ELSE d.risk
<1>1. d \in PlannedDecision /\ d.risk \in RiskLevels  BY DEF Sound, PlannedDecision
<1>2. risk \in RiskLevels  BY <1>1, Levels DEF RiskUp
<1>3. Advised(d, escalate) = [d EXCEPT !.risk = risk, !.disposition = Disposition(risk)]
  BY DEF Advised, ApplyAdvice
<1> HIDE DEF risk
<1>4. /\ Disposition(risk) \in {"AUTO_RECORD", "QUEUE"}
      /\ Disposition(risk) = "QUEUE" => risk >= MEDIUM
  BY <1>2, DispositionGates
<1>5. /\ Advised(d, escalate) \in PlannedDecision
      /\ Advised(d, escalate).disposition = Disposition(risk)
      /\ Advised(d, escalate).risk = risk
      /\ Advised(d, escalate).kinds = d.kinds
      /\ Advised(d, escalate).agents = d.agents
  BY <1>1, <1>2, <1>3, <1>4 DEF PlannedDecision
<1>6. QED  BY <1>4, <1>5 DEF Sound

-----------------------------------------------------------------------------
(* The invariant: what a cycle carries is sound from the plan to the queue. *)

SoundDecision == {d \in PlannedDecision : Sound(d)}
QueuedDecision == {d \in SoundDecision : d.disposition = "QUEUE"}

SoundCycle ==
       [pc : {"idle"}]
  \cup [pc : {"advise"}, now : Nat, plan : SUBSET SoundDecision]
  \cup [pc : {"queue"}, now : Nat, todo : SUBSET SoundDecision]
  \cup [pc : {"upsert"}, now : Nat, todo : SUBSET SoundDecision, d : QueuedDecision]
  \cup [pc : {"record"}, now : Nat, todo : SUBSET SoundDecision, d : QueuedDecision,
        approval : Nat \ {0}]

\* What the tower is about to write to the queue has passed the gate too.
GatedJob ==
  job[Tower].pc \in {"insert", "fold"} =>
    job[Tower].p.text \subseteq ALLOWED_ACTION_KINDS /\ job[Tower].p.risk >= MEDIUM

LogTyped ==
  /\ analyzed \in [Tools -> Nat \cup {Never}]
  /\ advised \in [Tools \cup {Never} -> [at : Nat \cup {Never}, escalate : BOOLEAN]]
  /\ decision \in Seq(DecisionRow)
  /\ cut \subseteq [approval : Nat \ {0}, risk : RiskLevels]

TowerInv ==
  /\ TypeOK
  /\ cycle \in SoundCycle
  /\ LogTyped
  /\ GatedJob
  /\ OnlyAllowedReachesPeople
  /\ RulesOwnEveryDecision

LEMMA CycleFields ==
  ASSUME cycle \in SoundCycle
  PROVE  /\ cycle.pc = "advise" => cycle.now \in Nat /\ cycle.plan \subseteq SoundDecision
         /\ cycle.pc \in {"queue", "upsert", "record"} =>
              cycle.now \in Nat /\ cycle.todo \subseteq SoundDecision
         /\ cycle.pc \in {"upsert", "record"} => cycle.d \in QueuedDecision
         /\ cycle.pc = "record" => cycle.approval \in Nat \ {0}
BY DEF SoundCycle

LEMMA TowerIsClient == Tower \in Clients
BY DEF Clients

LEMMA TowerInitial == TowerInit => TowerInv
<1>1. SUFFICES ASSUME TowerInit PROVE TowerInv  OBVIOUS
<1>2. TypeOK  BY <1>1, TypeInit DEF TowerInit
<1>3. cycle \in SoundCycle  BY <1>1 DEF TowerInit, NoCycle, SoundCycle
<1>4. LogTyped  BY <1>1 DEF TowerInit, LogTyped, NoAnswer
<1>5. GatedJob  BY <1>1, TowerIsClient DEF TowerInit, Init, Idle, GatedJob
<1>6. OnlyAllowedReachesPeople  BY <1>1 DEF TowerInit, Init, OnlyAllowedReachesPeople
<1>7. RulesOwnEveryDecision  BY <1>1 DEF TowerInit, RulesOwnEveryDecision
<1>8. QED  BY <1>2, <1>3, <1>4, <1>5, <1>6, <1>7 DEF TowerInv

\* A step that leaves the queue alone and puts a sound cycle in place.
LEMMA QueueAlone ==
  ASSUME TowerInv, UNCHANGED vars, cycle' \in SoundCycle, LogTyped', RulesOwnEveryDecision'
  PROVE  TowerInv'
BY DEF TowerInv, vars, TypeOK, GatedJob, OnlyAllowedReachesPeople

-----------------------------------------------------------------------------
(* Gather and Advise.                                                      *)

LEMMA HypothesisTyped ==
  ASSUME NEW obs, NEW t \in Targets(RuleProposals(obs)), NEW kind \in ModelKinds
  PROVE  /\ Hypothesis(RuleProposals(obs), t, kind) \in AgentProposal
         /\ \E q \in RuleProposals(obs) :
              q.scope = Hypothesis(RuleProposals(obs), t, kind).scope
<1> DEFINE about == About(RuleProposals(obs), t)
           risks == {p.risk : p \in about}
<1>1. PICK q \in about : TRUE  BY DEF Targets
<1>2. q \in RuleProposals(obs) /\ q.scope = t  BY <1>1 DEF About
<1>3. \A p \in about : p.risk \in RiskLevels
  BY RulesSound DEF About, RuleProposal, AgentProposal
<1>4. risks \in SUBSET RiskLevels /\ risks # {}  BY <1>1, <1>3
<1>5. Max(risks) \in RiskLevels
  <2> HIDE DEF risks
  <2>1. QED  BY <1>4, MaxOfRisks
<1>6. MaxRisk(about) \in RiskLevels  BY <1>5 DEF MaxRisk
<1>7. t \in Scopes /\ kind \in ActionKinds /\ "llm:root-cause" \in AgentNames
  BY DEF Targets, Scopes, ControlTowerAssumption, AgentNames
<1>8. QED  BY <1>2, <1>6, <1>7 DEF Hypothesis, AgentProposal

LEMMA GatherKeeps ==
  ASSUME TowerInv, NEW obs \in Observations, Gather(obs)
  PROVE  TowerInv'
<1> DEFINE ps == RuleProposals(obs)
<1> DEFINE With(usable, kind) == ps \cup {Hypothesis(ps, t, kind[t]) : t \in usable}
<1>a. PICK asked \in SUBSET Targets(ps) :
        /\ analyzed' = [t \in Tools |-> IF t \in asked THEN clock ELSE analyzed[t]]
        /\ \E usable \in SUBSET asked : \E kind \in [usable -> ModelKinds] :
             cycle' = [pc |-> "advise", now |-> clock, plan |-> Plan(With(usable, kind))]
  BY DEF Gather
<1>b. PICK usable \in SUBSET asked :
        \E kind \in [usable -> ModelKinds] :
          cycle' = [pc |-> "advise", now |-> clock, plan |-> Plan(With(usable, kind))]
  BY <1>a
<1>1. PICK kind \in [usable -> ModelKinds] :
        cycle' = [pc |-> "advise", now |-> clock, plan |-> Plan(With(usable, kind))]
  BY <1>b
<1> DEFINE all == ps \cup {Hypothesis(ps, t, kind[t]) : t \in usable}
<1>2. \A p \in ps : RuleProposal(p)  BY RulesSound
<1>3. ASSUME NEW t \in usable
      PROVE  /\ Hypothesis(ps, t, kind[t]) \in AgentProposal
             /\ \E q \in ps : q.scope = Hypothesis(ps, t, kind[t]).scope
  <2>1. t \in Targets(ps) /\ kind[t] \in ModelKinds  OBVIOUS
  <2>2. QED  BY <2>1, HypothesisTyped
<1> HIDE DEF ps
<1>4. all \in SUBSET AgentProposal  BY <1>2, <1>3 DEF RuleProposal
<1>5. \A p \in all : \E q \in all : RuleProposal(q) /\ q.scope = p.scope
  BY <1>2, <1>3
<1> HIDE DEF all
<1>6. \A d \in Plan(all) : Sound(d)  BY <1>4, <1>5, PlanSound
<1>7. Plan(all) \subseteq SoundDecision  BY <1>6 DEF Sound, SoundDecision
<1>8. clock \in Nat  BY DEF TowerInv, TypeOK
<1>9. cycle' = [pc |-> "advise", now |-> clock, plan |-> Plan(all)]  BY <1>1 DEF all
<1>10. cycle' \in SoundCycle  BY <1>7, <1>8, <1>9 DEF SoundCycle
<1>11. LogTyped'  BY <1>a, <1>8 DEF Gather, TowerInv, LogTyped
<1>12. RulesOwnEveryDecision'  BY DEF Gather, TowerInv, RulesOwnEveryDecision
<1>13. QED  BY <1>10, <1>11, <1>12, QueueAlone DEF Gather

LEMMA AdviseKeeps ==
  ASSUME TowerInv, Advise
  PROVE  TowerInv'
<1> DEFINE open == OpenTo(cycle.plan)
           cached == {d \in open : Recent(advised[EquipmentOf(d.scope)].at, cycle.now)}
           answers == Tools \cup {Never}
<1> DEFINE Outcome(heeded, called, escalate) ==
             /\ advised' = [e \in Tools \cup {Never} |->
                  IF e \in called THEN [at |-> cycle.now, escalate |-> escalate[e]]
                                  ELSE advised[e]]
             /\ cycle' = [pc |-> "queue", now |-> cycle.now,
                  todo |-> (cycle.plan \ heeded)
                    \cup {Advised(d, advised'[EquipmentOf(d.scope)].escalate) : d \in heeded}]
<1>a. PICK heeded \in SUBSET open,
           called \in SUBSET {EquipmentOf(d.scope) : d \in open \ cached} :
        \E escalate \in [called -> BOOLEAN] : Outcome(heeded, called, escalate)
  BY DEF Advise
<1>1. PICK escalate \in [called -> BOOLEAN] : Outcome(heeded, called, escalate)
  BY <1>a
<1>2. cycle.now \in Nat /\ cycle.plan \subseteq SoundDecision
  BY CycleFields DEF TowerInv, Advise
<1>3. advised' \in [answers -> [at : Nat \cup {Never}, escalate : BOOLEAN]]
  <2>1. advised \in [answers -> [at : Nat \cup {Never}, escalate : BOOLEAN]]
    BY DEF TowerInv, LogTyped
  <2>2. \A e \in called : [at |-> cycle.now, escalate |-> escalate[e]]
                            \in [at : Nat \cup {Never}, escalate : BOOLEAN]
    BY <1>2
  <2>3. QED  BY <1>1, <2>1, <2>2
<1>4. ASSUME NEW d \in heeded
      PROVE  Advised(d, advised'[EquipmentOf(d.scope)].escalate) \in SoundDecision
  <2>1. Sound(d) /\ d.disposition # "BLOCK"  BY <1>2 DEF OpenTo, SoundDecision
  <2>2. advised'[EquipmentOf(d.scope)].escalate \in BOOLEAN
    BY <1>3 DEF EquipmentOf
  <2>3. Sound(Advised(d, advised'[EquipmentOf(d.scope)].escalate))
    BY <2>1, <2>2, AdvisedSound
  <2>4. QED  BY <2>3 DEF Sound, SoundDecision
<1>5. (cycle.plan \ heeded)
        \cup {Advised(d, advised'[EquipmentOf(d.scope)].escalate) : d \in heeded}
          \in SUBSET SoundDecision
  BY <1>2, <1>4
<1>6. cycle' \in SoundCycle  BY <1>1, <1>2, <1>5 DEF SoundCycle
<1>7. LogTyped'  BY <1>3 DEF Advise, TowerInv, LogTyped
<1>8. RulesOwnEveryDecision'  BY DEF Advise, TowerInv, RulesOwnEveryDecision
<1>9. QED  BY <1>6, <1>7, <1>8, QueueAlone DEF Advise

-----------------------------------------------------------------------------
(* Into the queue.                                                         *)

\* A step of the queue that keeps its type and the gate, whatever the cycle does.
LEMMA GateKept ==
  ASSUME TowerInv, TypeOK', cycle' \in SoundCycle, LogTyped', RulesOwnEveryDecision',
         GatedJob', OnlyAllowedReachesPeople'
  PROVE  TowerInv'
BY DEF TowerInv

LEMMA FindKeeps ==
  ASSUME TowerInv, NEW d \in cycle.todo, FindRequest(d)
  PROVE  TowerInv'
<1>1. d \in QueuedDecision /\ cycle.now \in Nat /\ cycle.todo \subseteq SoundDecision
  BY CycleFields DEF FindRequest, Reach, TowerInv, QueuedDecision
<1>2. /\ d.scope \in Keys /\ d.risk \in Risks /\ d.kinds \in Texts
      /\ d.kinds \subseteq ALLOWED_ACTION_KINDS /\ d.risk >= MEDIUM
  BY <1>1 DEF QueuedDecision, SoundDecision, Sound, PlannedDecision
<1>3. PICK ttl \in Ttls :
        FindPending(Tower, d.scope, d.risk, d.kinds, ExpiresAt(cycle.now, ttl))
  BY DEF FindRequest
<1> DEFINE expires == ExpiresAt(cycle.now, ttl)
           p == [key |-> d.scope, risk |-> d.risk, text |-> d.kinds, expires |-> expires]
<1>4. expires \in Nat \cup {Never}  BY <1>1 DEF ExpiresAt
<1>5. TypeOK'
  <2> HIDE DEF expires
  <2>1. QED  BY <1>2, <1>3, <1>4, TowerIsClient, FindTyped DEF TowerInv, expires
<1>6. cycle' \in SoundCycle
  <2>1. cycle' = [pc |-> "upsert", now |-> cycle.now, todo |-> cycle.todo \ {d}, d |-> d]
    BY DEF FindRequest
  <2>2. QED  BY <1>1, <2>1 DEF SoundCycle
<1>7. LogTyped' /\ RulesOwnEveryDecision'
  BY DEF FindRequest, TowerInv, LogTyped, RulesOwnEveryDecision
<1>8. OnlyAllowedReachesPeople'
  BY <1>3 DEF FindPending, TowerInv, OnlyAllowedReachesPeople
<1>9. GatedJob'
  <2>1. job \in [Clients -> Job]  BY DEF TowerInv, TypeOK
  <2>2. job'[Tower].p = p
    BY <1>3, <2>1, TowerIsClient DEF FindPending, Becomes
  <2>3. QED  BY <1>2, <2>2 DEF GatedJob
<1>10. QED  BY <1>5, <1>6, <1>7, <1>8, <1>9, GateKept

LEMMA IdleTower ==
  ASSUME TypeOK, Answers(Tower)
  PROVE  GatedJob'
<1>1. job \in [Clients -> Job]  BY DEF TypeOK
<1>2. job'[Tower] = Idle  BY <1>1, TowerIsClient DEF Answers, Becomes
<1>3. QED  BY <1>2 DEF GatedJob, Idle

LEMMA InsertGated ==
  ASSUME TowerInv, CommitInsert(Tower)
  PROVE  OnlyAllowedReachesPeople'
<1> DEFINE p == job[Tower].p
           row == [key |-> p.key, status |-> "PENDING", risk |-> p.risk, text |-> p.text,
                   count |-> 1, expires |-> p.expires]
<1>1. request' = Append(request, row)  BY DEF CommitInsert
<1>2. p.text \subseteq ALLOWED_ACTION_KINDS /\ p.risk >= MEDIUM
  BY DEF CommitInsert, TowerInv, GatedJob
<1>3. request \in Seq(ApprovalRow)  BY DEF TowerInv, TypeOK
<1>4. ASSUME NEW i \in DOMAIN request'
      PROVE  (i \in DOMAIN request /\ request'[i] = request[i]) \/ request'[i] = row
  <2> HIDE DEF row
  <2>1. QED  BY <1>1, <1>3
<1>5. QED  BY <1>2, <1>4 DEF TowerInv, OnlyAllowedReachesPeople

LEMMA FoldGated ==
  ASSUME TowerInv, CommitFold(Tower)
  PROVE  OnlyAllowedReachesPeople'
<1> DEFINE j == job[Tower]
<1>1. j.p.text \subseteq ALLOWED_ACTION_KINDS /\ j.p.risk >= MEDIUM
  BY DEF CommitFold, TowerInv, GatedJob
<1>2. request' = [request EXCEPT ![j.id] = Folded(j.p, j.seen, @)]  BY DEF CommitFold
<1>3. ASSUME NEW i \in DOMAIN request
      PROVE  request'[i].text \subseteq ALLOWED_ACTION_KINDS /\ request'[i].risk >= MEDIUM
  <2>1. /\ request[i] \in ApprovalRow
        /\ request[i].text \subseteq ALLOWED_ACTION_KINDS /\ request[i].risk >= MEDIUM
    BY DEF TowerInv, TypeOK, OnlyAllowedReachesPeople
  <2>2. CASE i # j.id  BY <1>2, <2>1, <2>2
  <2>3. CASE i = j.id
    <3>1. request'[i] = Folded(j.p, j.seen, request[i])  BY <1>2, <2>3
    <3>2. /\ request'[i].text = Written(j.p.text, j.seen.text, request[i].text)
          /\ request'[i].risk = PeakRisk(j.p, j.seen, request[i])
      BY <2>1, <3>1 DEF Folded, ApprovalRow
    <3>3. QED  BY <1>1, <2>1, <3>2 DEF Written, PeakRisk
  <2>4. QED  BY <2>2, <2>3
<1>4. DOMAIN request' = DOMAIN request  BY <1>2
<1>5. QED  BY <1>3, <1>4 DEF OnlyAllowedReachesPeople

LEMMA CommitKeeps ==
  ASSUME TowerInv, CommitRequest
  PROVE  TowerInv'
<1>1. PICK id \in 1 .. Len(request) + 1 :
        cycle' = [pc |-> "record", now |-> cycle.now, todo |-> cycle.todo,
                  d |-> cycle.d, approval |-> id]
  BY DEF CommitRequest
<1>2. CommitInsert(Tower) \/ CommitFold(Tower)  BY DEF CommitRequest
<1>3. TypeOK  BY DEF TowerInv
<1>4. TypeOK'  BY <1>2, <1>3, TowerIsClient, InsertTyped, FoldTyped
<1>5. GatedJob'  BY <1>2, <1>3, IdleTower DEF CommitInsert, CommitFold
<1>6. OnlyAllowedReachesPeople'  BY <1>2, InsertGated, FoldGated
<1>7. cycle' \in SoundCycle
  <2>1. /\ cycle.now \in Nat /\ cycle.todo \subseteq SoundDecision
        /\ cycle.d \in QueuedDecision
    BY CycleFields DEF CommitRequest, TowerInv
  <2>2. id \in Nat \ {0}  BY <1>3 DEF TypeOK
  <2>3. QED  BY <1>1, <2>1, <2>2 DEF SoundCycle
<1>8. LogTyped' /\ RulesOwnEveryDecision'
  BY DEF CommitRequest, TowerInv, LogTyped, RulesOwnEveryDecision
<1>9. QED  BY <1>4, <1>5, <1>6, <1>7, <1>8, GateKept

-----------------------------------------------------------------------------
(* Into the log.                                                           *)

LEMMA RecordSound ==
  ASSUME TowerInv, NEW d \in SoundDecision, NEW approval \in (Nat \ {0}) \cup {Never},
         Record(d, approval)
  PROVE  decision' \in Seq(DecisionRow) /\ RulesOwnEveryDecision'
<1>1. decision \in Seq(DecisionRow) /\ RulesOwnEveryDecision  BY DEF TowerInv, LogTyped
<1>2. CASE UNCHANGED decision  BY <1>1, <1>2 DEF RulesOwnEveryDecision
<1>3. CASE decision' = Append(decision, Row(d, approval))
  <2> DEFINE row == Row(d, approval)
  <2>1. row \in DecisionRow
    BY DEF Row, DecisionRow, SoundDecision, PlannedDecision
  <2>2. row.disposition # "BLOCK" => row.agents \cap RuleAgentNames # {}
    BY DEF Row, SoundDecision, Sound
  <2> HIDE DEF row
  <2>3. decision' = Append(decision, row)  BY <1>3 DEF row
  <2>4. ASSUME NEW n \in DOMAIN decision'
        PROVE  (n \in DOMAIN decision /\ decision'[n] = decision[n]) \/ decision'[n] = row
    BY <1>1, <2>3
  <2>5. decision' \in Seq(DecisionRow)  BY <1>1, <2>1, <2>3
  <2>6. RulesOwnEveryDecision'  BY <1>1, <2>2, <2>4 DEF RulesOwnEveryDecision
  <2>7. QED  BY <2>5, <2>6
<1>4. QED  BY <1>2, <1>3 DEF Record

LEMMA RecordOnlyKeeps ==
  ASSUME TowerInv, NEW d \in cycle.todo, RecordOnly(d)
  PROVE  TowerInv'
<1>1. d \in SoundDecision /\ cycle.now \in Nat /\ cycle.todo \subseteq SoundDecision
  BY CycleFields DEF RecordOnly, Reach, TowerInv
<1>2. decision' \in Seq(DecisionRow) /\ RulesOwnEveryDecision'
  BY <1>1, RecordSound DEF RecordOnly
<1>3. LogTyped'  BY <1>2 DEF RecordOnly, TowerInv, LogTyped
<1>4. cycle' = [pc |-> "queue", now |-> cycle.now, todo |-> cycle.todo \ {d}]
  BY DEF RecordOnly
<1>5. cycle' \in SoundCycle  BY <1>1, <1>4 DEF SoundCycle
<1>6. QED  BY <1>2, <1>3, <1>5, QueueAlone DEF RecordOnly

LEMMA RecordRequestKeeps ==
  ASSUME TowerInv, RecordRequest
  PROVE  TowerInv'
<1>1. /\ cycle.d \in SoundDecision /\ cycle.approval \in Nat \ {0}
      /\ cycle.now \in Nat /\ cycle.todo \subseteq SoundDecision
  BY CycleFields DEF RecordRequest, TowerInv, QueuedDecision
<1>2. decision' \in Seq(DecisionRow) /\ RulesOwnEveryDecision'
  BY <1>1, RecordSound DEF RecordRequest
<1>3. LogTyped'  BY <1>2 DEF RecordRequest, TowerInv, LogTyped
<1>4. cycle' = [pc |-> "queue", now |-> cycle.now, todo |-> cycle.todo]
  BY DEF RecordRequest
<1>5. cycle' \in SoundCycle  BY <1>1, <1>4 DEF SoundCycle
<1>6. QED  BY <1>2, <1>3, <1>5, QueueAlone DEF RecordRequest

-----------------------------------------------------------------------------
(* The end of a cycle, and everybody else.                                 *)

LEMMA EndKeeps ==
  ASSUME TowerInv, EndCycle
  PROVE  TowerInv'
<1>1. cycle' \in SoundCycle  BY DEF EndCycle, NoCycle, SoundCycle
<1>2. LogTyped' /\ RulesOwnEveryDecision'
  BY DEF EndCycle, TowerInv, LogTyped, RulesOwnEveryDecision
<1>3. QED  BY <1>1, <1>2, QueueAlone DEF EndCycle

LEMMA CutKeeps ==
  ASSUME TowerInv, CutShort
  PROVE  TowerInv'
<1>1. cycle' \in SoundCycle  BY DEF CutShort, NoCycle, SoundCycle
<1>2. cut' \subseteq [approval : Nat \ {0}, risk : RiskLevels]
  <2>1. CASE cycle.pc = "record"
    <3>1. cycle.approval \in Nat \ {0} /\ cycle.d \in PlannedDecision
      BY <2>1, CycleFields DEF TowerInv, QueuedDecision, SoundDecision
    <3>2. QED  BY <2>1, <3>1 DEF CutShort, TowerInv, LogTyped, PlannedDecision
  <2>2. CASE cycle.pc # "record"  BY <2>2 DEF CutShort, TowerInv, LogTyped
  <2>3. QED  BY <2>1, <2>2
<1>3. LogTyped' /\ RulesOwnEveryDecision'
  BY <1>2 DEF CutShort, TowerInv, LogTyped, RulesOwnEveryDecision
<1>4. TypeOK /\ Answers(Tower)  BY DEF CutShort, TowerInv, Answers, Becomes
<1>5. TypeOK'
  <2>1. job' \in [Clients -> Job]  BY <1>4, TowerIsClient, AnswersTyped
  <2>2. QED  BY <1>4, <2>1 DEF CutShort, TypeOK
<1>6. GatedJob'  BY <1>4, IdleTower
<1>7. OnlyAllowedReachesPeople'  BY DEF CutShort, TowerInv, OnlyAllowedReachesPeople
<1>8. QED  BY <1>1, <1>3, <1>5, <1>6, <1>7, GateKept

LEMMA SettleKeeps ==
  ASSUME TowerInv, NEW i \in DOMAIN request, NEW outcome \in Settlements, Settle(i, outcome)
  PROVE  TowerInv'
<1>1. request' = [request EXCEPT ![i].status = outcome]  BY DEF Settle
<1>2. outcome \in ApprovalStatus  OBVIOUS
<1>3. ASSUME NEW k \in DOMAIN request
      PROVE  /\ request'[k] \in ApprovalRow
             /\ request'[k].text = request[k].text /\ request'[k].risk = request[k].risk
  <2>1. request[k] \in ApprovalRow  BY DEF TowerInv, TypeOK
  <2>2. request'[k] = request[k] \/ request'[k] = [request[k] EXCEPT !.status = outcome]
    BY <1>1
  <2>3. QED  BY <1>2, <2>1, <2>2 DEF ApprovalRow
<1>4. request' = [k \in DOMAIN request |-> request'[k]]  BY <1>1
<1>5. request' \in Seq(ApprovalRow)  BY <1>3, <1>4, RowsTyped DEF TowerInv
<1>6. TypeOK'  BY <1>5 DEF Settle, TowerInv, TypeOK
<1>7. cycle' \in SoundCycle /\ LogTyped' /\ RulesOwnEveryDecision' /\ GatedJob'
  BY DEF Settle, towerVars, TowerInv, LogTyped, RulesOwnEveryDecision, GatedJob
<1>8. OnlyAllowedReachesPeople'
  BY <1>3, <1>4 DEF TowerInv, OnlyAllowedReachesPeople
<1>9. QED  BY <1>6, <1>7, <1>8, GateKept

LEMMA TimeKeeps ==
  ASSUME TowerInv, Tick, UNCHANGED towerVars
  PROVE  TowerInv'
<1>1. TypeOK'  BY DEF Tick, TowerInv, TypeOK
<1>2. cycle' \in SoundCycle /\ LogTyped' /\ RulesOwnEveryDecision'
  BY DEF towerVars, TowerInv, LogTyped, RulesOwnEveryDecision
<1>3. GatedJob' /\ OnlyAllowedReachesPeople'
  BY DEF Tick, TowerInv, GatedJob, OnlyAllowedReachesPeople
<1>4. QED  BY <1>1, <1>2, <1>3, GateKept

LEMMA StutterKeeps ==
  ASSUME TowerInv, UNCHANGED allVars
  PROVE  TowerInv'
<1>1. UNCHANGED vars /\ UNCHANGED towerVars  BY DEF allVars
<1>2. cycle' \in SoundCycle /\ LogTyped' /\ RulesOwnEveryDecision'
  BY <1>1 DEF towerVars, TowerInv, LogTyped, RulesOwnEveryDecision
<1>3. QED  BY <1>1, <1>2, QueueAlone

LEMMA TowerInductive == TowerInv /\ [TowerNext]_allVars => TowerInv'
<1>1. SUFFICES ASSUME TowerInv, [TowerNext]_allVars PROVE TowerInv'  OBVIOUS
<1>2. ASSUME NEW obs \in Observations, Gather(obs) PROVE TowerInv'
  BY <1>1, <1>2, GatherKeeps
<1>3. CASE Advise  BY <1>1, <1>3, AdviseKeeps
<1>4. ASSUME NEW d \in cycle.todo, FindRequest(d) PROVE TowerInv'
  BY <1>1, <1>4, FindKeeps
<1>5. ASSUME NEW d \in cycle.todo, RecordOnly(d) PROVE TowerInv'
  BY <1>1, <1>5, RecordOnlyKeeps
<1>6. CASE CommitRequest  BY <1>1, <1>6, CommitKeeps
<1>7. CASE RecordRequest  BY <1>1, <1>7, RecordRequestKeeps
<1>8. CASE EndCycle  BY <1>1, <1>8, EndKeeps
<1>9. CASE CutShort  BY <1>1, <1>9, CutKeeps
<1>10. CASE QueueStep
  <2>1. ASSUME NEW i \in DOMAIN request, NEW outcome \in Settlements, Settle(i, outcome)
        PROVE  TowerInv'
    BY <1>1, <2>1, SettleKeeps
  <2>2. CASE Tick /\ UNCHANGED towerVars  BY <1>1, <2>2, TimeKeeps
  <2>3. QED  BY <1>10, <2>1, <2>2 DEF QueueStep
<1>11. CASE UNCHANGED allVars  BY <1>1, <1>11, StutterKeeps
<1>12. CASE TowerStep
  BY <1>2, <1>3, <1>4, <1>5, <1>6, <1>7, <1>8, <1>9, <1>12 DEF TowerStep
<1>13. QED  BY <1>1, <1>10, <1>11, <1>12 DEF TowerNext

LEMMA TowerAlways == TowerSpec => []TowerInv
BY TowerInitial, TowerInductive, PTL DEF TowerSpec

-----------------------------------------------------------------------------

\* Every row and everything a cycle carries has its type (control_tower.py,
\* llm_agent.py).
THEOREM TowerTypeCorrect == TowerSpec => []TowerTypeOK
<1>1. TowerInv => TowerTypeOK
  <2>1. SoundCycle \subseteq Cycle  BY DEF SoundCycle, Cycle, SoundDecision, QueuedDecision
  <2>2. QED  BY <2>1 DEF TowerInv, LogTyped, TowerTypeOK
<1>2. QED  BY <1>1, TowerAlways, PTL

\* No request ever shows people an action outside the allowed ones or a risk
\* below MEDIUM, whatever the models answer (control_tower.py:115-139).
THEOREM GateHolds == TowerSpec => []OnlyAllowedReachesPeople
<1>1. TowerInv => OnlyAllowedReachesPeople  BY DEF TowerInv
<1>2. QED  BY <1>1, TowerAlways, PTL

\* No model ever gets a decision of its own (llm_agent.py:3).
THEOREM RulesDecide == TowerSpec => []RulesOwnEveryDecision
<1>1. TowerInv => RulesOwnEveryDecision  BY DEF TowerInv
<1>2. QED  BY <1>1, TowerAlways, PTL

-----------------------------------------------------------------------------
(* Requests and the decisions that explain them.                           *)

\* A decision of the plan has the risk the rules gave it; once advised, at most
\* one level more, and so has the row it leaves.
WithinOneStep(d) == d.risk <= d.planned + 1

StepInv ==
  /\ cycle.pc = "advise" => \A d \in cycle.plan : d.risk = d.planned
  /\ cycle.pc \in {"queue", "upsert", "record"} => \A d \in cycle.todo : WithinOneStep(d)
  /\ cycle.pc \in {"upsert", "record"} => WithinOneStep(cycle.d)
  /\ \A n \in DOMAIN decision : WithinOneStep(decision[n])

\* The risk a request shows is that of a decision about it, or a dead cycle's.
Explained(i) ==
  \/ \E n \in Citing(i) : /\ decision[n].disposition = "QUEUE"
                          /\ decision[n].risk = request[i].risk
  \/ [approval |-> i, risk |-> request[i].risk] \in cut

\* What is written to the queue is the decision that is recorded next, and a
\* request is unexplained only between the two commits.
ExplainInv ==
  /\ cycle.pc = "upsert" /\ job[Tower].pc \in {"insert", "fold"} =>
       job[Tower].p.risk = cycle.d.risk
  /\ \A i \in DOMAIN request :
       \/ Explained(i)
       \/ cycle.pc = "record" /\ cycle.approval = i /\ request[i].risk = cycle.d.risk

LogInv == TowerInv /\ StepInv /\ ExplainInv

LEMMA LogInitial == TowerInit => LogInv
BY TowerInitial DEF TowerInit, Init, LogInv, StepInv, ExplainInv, NoCycle

\* A row that is added keeps the ones before it.
LEMMA LogGrows ==
  ASSUME TowerInv, NEW d \in SoundDecision, NEW approval, Record(d, approval)
  PROVE  /\ \A n \in DOMAIN decision : n \in DOMAIN decision' /\ decision'[n] = decision[n]
         /\ \A n \in DOMAIN decision' : \/ n \in DOMAIN decision
                                        \/ decision'[n] = Row(d, approval)
         /\ \E n \in DOMAIN decision' : /\ decision'[n].disposition = d.disposition
                                        /\ decision'[n].risk = d.risk
                                        /\ decision'[n].approval = approval
<1>1. decision \in Seq(DecisionRow)  BY DEF TowerInv, LogTyped
<1>2. CASE IsRepeat(d, approval) /\ UNCHANGED decision
  BY <1>2 DEF IsRepeat, Last
<1>3. CASE decision' = Append(decision, Row(d, approval))
  <2> DEFINE row == Row(d, approval)
  <2>1. row.disposition = d.disposition /\ row.risk = d.risk /\ row.approval = approval
    BY DEF Row
  <2> HIDE DEF row
  <2>2. decision' = Append(decision, row)  BY <1>3 DEF row
  <2>3. /\ Len(decision) \in Nat /\ DOMAIN decision = 1 .. Len(decision)
        /\ DOMAIN decision' = 1 .. Len(decision) + 1 /\ decision'[Len(decision) + 1] = row
        /\ \A n \in DOMAIN decision : decision'[n] = decision[n]
    BY <1>1, <2>2
  <2>4. Len(decision) + 1 \in DOMAIN decision'  BY <2>3
  <2>5. \A n \in DOMAIN decision' : n \in DOMAIN decision \/ decision'[n] = row
    BY <2>3
  <2>6. QED  BY <2>1, <2>3, <2>4, <2>5 DEF row
<1>4. QED  BY <1>2, <1>3 DEF Record

\* What was explained stays so while the log and the history grow and no risk
\* changes.
LEMMA StaysExplained ==
  ASSUME NEW i, Explained(i), request'[i].risk = request[i].risk,
         \A n \in DOMAIN decision : n \in DOMAIN decision' /\ decision'[n] = decision[n],
         cut \subseteq cut'
  PROVE  Explained(i)'
BY DEF Explained, Citing

LEMMA PlanKeepsRisk == ASSUME NEW ps PROVE \A d \in Plan(ps) : d.risk = d.planned
<1>1. \A m, disposition : /\ Planned(m, disposition).risk = m.risk
                          /\ Planned(m, disposition).planned = m.planned
  BY DEF Planned
<1>2. \A qs, s : Merged(qs, s).risk = Merged(qs, s).planned  BY DEF Merged
<1>3. QED  BY <1>1, <1>2 DEF Plan

LEMMA AdvisedWithin ==
  ASSUME NEW d \in SoundDecision, d.risk = d.planned, NEW escalate \in BOOLEAN
  PROVE  WithinOneStep(Advised(d, escalate))
<1> DEFINE risk == IF escalate THEN RiskUp(d.risk) ELSE d.risk
<1>1. d \in PlannedDecision /\ d.risk \in RiskLevels
  BY DEF SoundDecision, PlannedDecision
<1>2. risk <= d.risk + 1  BY <1>1, Levels DEF RiskUp
<1>3. Advised(d, escalate) = [d EXCEPT !.risk = risk, !.disposition = Disposition(risk)]
  BY DEF Advised, ApplyAdvice
<1> HIDE DEF risk
<1>4. Advised(d, escalate).risk = risk /\ Advised(d, escalate).planned = d.planned
  BY <1>1, <1>3 DEF PlannedDecision
<1>5. QED  BY <1>2, <1>4 DEF WithinOneStep

LEMMA LevelWithin ==
  ASSUME NEW d \in SoundDecision, d.risk = d.planned
  PROVE  WithinOneStep(d)
BY Levels DEF SoundDecision, PlannedDecision, WithinOneStep

\* The cycle's steps that leave the queue and the log alone.
LEMMA GatherLogs ==
  ASSUME LogInv, NEW obs, Gather(obs)
  PROVE  StepInv' /\ ExplainInv'
<1>1. \E ps : cycle' = [pc |-> "advise", now |-> clock, plan |-> Plan(ps)]
  BY DEF Gather
<1>2. cycle'.pc = "advise" /\ \A d \in cycle'.plan : d.risk = d.planned
  BY <1>1, PlanKeepsRisk
<1>3. StepInv'  BY <1>2 DEF Gather, LogInv, StepInv
<1>4. \A i \in DOMAIN request : Explained(i)
  BY DEF Gather, NoCycle, LogInv, ExplainInv
<1>5. ExplainInv'
  BY <1>2, <1>4, StaysExplained DEF Gather, vars, ExplainInv
<1>6. QED  BY <1>3, <1>5

LEMMA AdviseLogs ==
  ASSUME LogInv, Advise
  PROVE  StepInv' /\ ExplainInv'
<1> DEFINE open == OpenTo(cycle.plan)
<1>1. PICK heeded \in SUBSET open :
        cycle' = [pc |-> "queue", now |-> cycle.now,
          todo |-> (cycle.plan \ heeded)
            \cup {Advised(d, advised'[EquipmentOf(d.scope)].escalate) : d \in heeded}]
  BY DEF Advise
<1>2. /\ cycle.plan \subseteq SoundDecision /\ \A d \in cycle.plan : d.risk = d.planned
      /\ \A e \in Tools \cup {Never} : advised'[e].escalate \in BOOLEAN
  <2>1. cycle.plan \subseteq SoundDecision /\ \A d \in cycle.plan : d.risk = d.planned
    BY CycleFields DEF Advise, LogInv, TowerInv, StepInv
  <2>2. TowerInv'  BY AdviseKeeps DEF LogInv
  <2>3. QED  BY <2>1, <2>2 DEF TowerInv, LogTyped
<1>3. ASSUME NEW d \in heeded
      PROVE  WithinOneStep(Advised(d, advised'[EquipmentOf(d.scope)].escalate))
  <2>1. d \in SoundDecision /\ d.risk = d.planned  BY <1>2 DEF OpenTo
  <2>2. advised'[EquipmentOf(d.scope)].escalate \in BOOLEAN  BY <1>2 DEF EquipmentOf
  <2>3. QED  BY <2>1, <2>2, AdvisedWithin
<1>4. \A d \in cycle.plan : WithinOneStep(d)  BY <1>2, LevelWithin
<1>5. cycle'.pc = "queue" /\ \A d \in cycle'.todo : WithinOneStep(d)
  BY <1>1, <1>3, <1>4
<1>6. StepInv'  BY <1>5 DEF Advise, LogInv, StepInv
<1>7. \A i \in DOMAIN request : Explained(i)
  BY DEF Advise, LogInv, ExplainInv
<1>8. ExplainInv'
  BY <1>5, <1>7, StaysExplained DEF Advise, vars, ExplainInv
<1>9. QED  BY <1>6, <1>8

LEMMA FindLogs ==
  ASSUME LogInv, NEW d \in cycle.todo, FindRequest(d)
  PROVE  StepInv' /\ ExplainInv'
<1>1. cycle' = [pc |-> "upsert", now |-> cycle.now, todo |-> cycle.todo \ {d}, d |-> d]
  BY DEF FindRequest
<1>2. WithinOneStep(d) /\ \A e \in cycle.todo : WithinOneStep(e)
  BY DEF FindRequest, Reach, LogInv, StepInv
<1>3. StepInv'  BY <1>1, <1>2 DEF FindRequest, LogInv, StepInv
<1>4. job'[Tower].p.risk = d.risk /\ UNCHANGED request
  <2>1. PICK ttl \in Ttls :
          FindPending(Tower, d.scope, d.risk, d.kinds, ExpiresAt(cycle.now, ttl))
    BY DEF FindRequest
  <2>2. job \in [Clients -> Job]  BY DEF LogInv, TowerInv, TypeOK
  <2>3. QED  BY <2>1, <2>2, TowerIsClient DEF FindPending, Becomes
<1>5. \A i \in DOMAIN request : Explained(i)
  BY DEF FindRequest, Reach, LogInv, ExplainInv
<1>6. ExplainInv'
  BY <1>1, <1>4, <1>5, StaysExplained DEF FindRequest, ExplainInv
<1>7. QED  BY <1>3, <1>6

\* The commit of a request raises it to the decision's risk or keeps a risk
\* that was explained before.
LEMMA CommitLogs ==
  ASSUME LogInv, CommitRequest
  PROVE  StepInv' /\ ExplainInv'
<1>1. PICK id \in 1 .. Len(request) + 1 :
        /\ \/ CommitInsert(Tower) /\ id = Len(request) + 1
           \/ CommitFold(Tower) /\ id = job[Tower].id
        /\ cycle' = [pc |-> "record", now |-> cycle.now, todo |-> cycle.todo,
                     d |-> cycle.d, approval |-> id]
  BY DEF CommitRequest
<1>2. StepInv'  BY <1>1 DEF CommitRequest, LogInv, StepInv
<1>3. UNCHANGED <<decision, cut>> /\ cycle.pc = "upsert"  BY DEF CommitRequest
<1>4. \A i \in DOMAIN request : request'[i].risk = request[i].risk => Explained(i)'
  <2>1. \A i \in DOMAIN request : Explained(i)  BY <1>3 DEF LogInv, ExplainInv
  <2>2. /\ \A n \in DOMAIN decision : n \in DOMAIN decision' /\ decision'[n] = decision[n]
        /\ cut \subseteq cut'
    BY <1>3
  <2>3. QED  BY <2>1, <2>2, StaysExplained
<1>5. /\ request \in Seq(ApprovalRow) /\ Len(request) \in Nat
      /\ DOMAIN request = 1 .. Len(request)
      /\ \A i \in DOMAIN request : request[i] \in ApprovalRow
  BY DEF LogInv, TowerInv, TypeOK
<1>6. job[Tower].pc \in {"insert", "fold"} => job[Tower].p.risk = cycle.d.risk
  BY <1>3 DEF LogInv, ExplainInv
<1>7. ASSUME NEW i \in DOMAIN request'
      PROVE  Explained(i)' \/ (cycle'.approval = i /\ request'[i].risk = cycle'.d.risk)
  <2>1. CASE CommitInsert(Tower) /\ id = Len(request) + 1
    <3>1. /\ i \in DOMAIN request => request'[i].risk = request[i].risk
          /\ i \notin DOMAIN request =>
               i = Len(request) + 1 /\ request'[i].risk = job[Tower].p.risk
      BY <1>5, <2>1 DEF CommitInsert
    <3>2. CASE i \in DOMAIN request
      BY <1>4, <3>1, <3>2
    <3>3. CASE i \notin DOMAIN request
      BY <1>1, <1>6, <2>1, <3>1, <3>3 DEF CommitInsert
    <3>4. QED  BY <3>2, <3>3
  <2>2. CASE CommitFold(Tower) /\ id = job[Tower].id
    <3> DEFINE j == job[Tower]
    <3>1. request' = [request EXCEPT ![j.id] = Folded(j.p, j.seen, @)] /\ j.pc = "fold"
      BY <2>2 DEF CommitFold
    <3> HIDE DEF j
    <3>2. i \in DOMAIN request /\ request[i] \in ApprovalRow  BY <1>5, <3>1
    <3>3. request'[i].risk = request[i].risk \/ (i = j.id /\ request'[i].risk = j.p.risk)
      <4>1. CASE i # j.id  BY <3>1, <3>2, <4>1
      <4>2. CASE i = j.id
        <5>1. request'[i] = Folded(j.p, j.seen, request[i])  BY <3>1, <3>2, <4>2
        <5>2. request'[i].risk = PeakRisk(j.p, j.seen, request[i])
          BY <3>2, <5>1 DEF Folded, ApprovalRow
        <5>3. QED  BY <4>2, <5>2 DEF PeakRisk
      <4>3. QED  BY <4>1, <4>2
    <3>4. CASE request'[i].risk = request[i].risk
      BY <1>4, <3>2, <3>4
    <3>5. CASE i = j.id /\ request'[i].risk = j.p.risk
      BY <1>1, <1>6, <2>2, <3>1, <3>5 DEF j
    <3>6. QED  BY <3>3, <3>4, <3>5
  <2>3. QED  BY <1>1, <2>1, <2>2
<1>8. cycle'.pc = "record"  BY <1>1
<1>9. ExplainInv'  BY <1>7, <1>8 DEF ExplainInv
<1>10. QED  BY <1>2, <1>9

LEMMA RecordWithin ==
  ASSUME LogInv, NEW d \in SoundDecision, WithinOneStep(d), NEW approval, Record(d, approval)
  PROVE  \A n \in DOMAIN decision' : WithinOneStep(decision'[n])
<1>1. WithinOneStep(Row(d, approval))  BY DEF Row, WithinOneStep
<1>2. QED  BY <1>1, LogGrows DEF LogInv, StepInv

LEMMA RecordOnlyLogs ==
  ASSUME LogInv, NEW d \in cycle.todo, RecordOnly(d)
  PROVE  StepInv' /\ ExplainInv'
<1>1. cycle' = [pc |-> "queue", now |-> cycle.now, todo |-> cycle.todo \ {d}]
  BY DEF RecordOnly
<1>2. d \in SoundDecision /\ \A e \in cycle.todo : WithinOneStep(e)
  BY CycleFields DEF RecordOnly, Reach, LogInv, TowerInv, StepInv
<1>3. StepInv'  BY <1>1, <1>2, RecordWithin DEF RecordOnly, StepInv
<1>4. \A i \in DOMAIN request : Explained(i)
  BY DEF RecordOnly, Reach, LogInv, ExplainInv
<1>5. \A n \in DOMAIN decision : n \in DOMAIN decision' /\ decision'[n] = decision[n]
  BY <1>2, LogGrows DEF RecordOnly, LogInv
<1>6. UNCHANGED <<request, cut>>  BY DEF RecordOnly, vars
<1>7. ExplainInv'  BY <1>1, <1>4, <1>5, <1>6, StaysExplained DEF ExplainInv
<1>8. QED  BY <1>3, <1>7

LEMMA RecordRequestLogs ==
  ASSUME LogInv, RecordRequest
  PROVE  StepInv' /\ ExplainInv'
<1>1. cycle' = [pc |-> "queue", now |-> cycle.now, todo |-> cycle.todo]
  BY DEF RecordRequest
<1>2. /\ cycle.pc = "record" /\ cycle.d \in SoundDecision /\ cycle.d.disposition = "QUEUE"
      /\ WithinOneStep(cycle.d) /\ \A e \in cycle.todo : WithinOneStep(e)
  BY CycleFields DEF RecordRequest, LogInv, TowerInv, StepInv, QueuedDecision
<1>3. Record(cycle.d, cycle.approval)  BY DEF RecordRequest
<1>4. StepInv'  BY <1>1, <1>2, <1>3, RecordWithin DEF StepInv
<1>5. /\ \A n \in DOMAIN decision : n \in DOMAIN decision' /\ decision'[n] = decision[n]
      /\ \E n \in DOMAIN decision' : /\ decision'[n].disposition = "QUEUE"
                                     /\ decision'[n].risk = cycle.d.risk
                                     /\ decision'[n].approval = cycle.approval
  BY <1>2, <1>3, LogGrows DEF LogInv
<1>6. UNCHANGED <<request, cut>>  BY DEF RecordRequest, vars
<1>7. ASSUME NEW i \in DOMAIN request PROVE Explained(i)'
  <2>1. CASE Explained(i)  BY <1>5, <1>6, <2>1, StaysExplained
  <2>2. CASE cycle.approval = i /\ request[i].risk = cycle.d.risk
    BY <1>5, <1>6, <2>2 DEF Explained, Citing
  <2>3. QED  BY <2>1, <2>2 DEF LogInv, ExplainInv
<1>8. ExplainInv'  BY <1>1, <1>6, <1>7 DEF ExplainInv
<1>9. QED  BY <1>4, <1>8

LEMMA EndLogs ==
  ASSUME LogInv, EndCycle
  PROVE  StepInv' /\ ExplainInv'
<1>1. cycle' = NoCycle /\ UNCHANGED <<request, decision, cut>>  BY DEF EndCycle, vars
<1>2. StepInv'  BY <1>1 DEF NoCycle, LogInv, StepInv
<1>3. \A i \in DOMAIN request : Explained(i)  BY DEF EndCycle, LogInv, ExplainInv
<1>4. ExplainInv'  BY <1>1, <1>3, StaysExplained DEF NoCycle, ExplainInv
<1>5. QED  BY <1>2, <1>4

\* A cycle that dies between the two commits leaves its request in the history.
LEMMA CutLogs ==
  ASSUME LogInv, CutShort
  PROVE  StepInv' /\ ExplainInv'
<1>1. cycle' = NoCycle /\ UNCHANGED <<request, decision>> /\ cut \subseteq cut'
  BY DEF CutShort
<1>2. StepInv'  BY <1>1 DEF NoCycle, LogInv, StepInv
<1>3. ASSUME NEW i \in DOMAIN request PROVE Explained(i)'
  <2>1. CASE Explained(i)  BY <1>1, <2>1, StaysExplained
  <2>2. CASE cycle.pc = "record" /\ cycle.approval = i /\ request[i].risk = cycle.d.risk
    BY <1>1, <2>2 DEF CutShort, Explained
  <2>3. QED  BY <2>1, <2>2 DEF LogInv, ExplainInv
<1>4. ExplainInv'  BY <1>1, <1>3 DEF NoCycle, ExplainInv
<1>5. QED  BY <1>2, <1>4

LEMMA QueueLogs ==
  ASSUME LogInv, QueueStep \/ UNCHANGED allVars
  PROVE  StepInv' /\ ExplainInv'
<1>1. UNCHANGED towerVars /\ UNCHANGED job
  BY DEF QueueStep, Settle, Tick, allVars, vars
<1>2. /\ DOMAIN request' = DOMAIN request
      /\ \A i \in DOMAIN request : request'[i].risk = request[i].risk
  <2>1. ASSUME NEW i \in DOMAIN request, NEW outcome \in Settlements, Settle(i, outcome)
        PROVE  /\ DOMAIN request' = DOMAIN request
               /\ \A k \in DOMAIN request : request'[k].risk = request[k].risk
    <3>1. \A k \in DOMAIN request : request[k] \in ApprovalRow
      BY DEF LogInv, TowerInv, TypeOK
    <3>2. QED  BY <2>1, <3>1 DEF Settle, ApprovalRow
  <2>2. QED  BY <2>1 DEF QueueStep, Tick, allVars, vars
<1>3. StepInv'  BY <1>1 DEF towerVars, LogInv, StepInv
<1>4. \A i \in DOMAIN request : Explained(i) => Explained(i)'
  BY <1>1, <1>2, StaysExplained DEF towerVars
<1>5. ExplainInv'  BY <1>1, <1>2, <1>4 DEF towerVars, LogInv, ExplainInv
<1>6. QED  BY <1>3, <1>5

LEMMA LogInductive == LogInv /\ [TowerNext]_allVars => LogInv'
<1>1. SUFFICES ASSUME LogInv, [TowerNext]_allVars PROVE LogInv'  OBVIOUS
<1>2. TowerInv'  BY <1>1, TowerInductive DEF LogInv
<1>3. CASE TowerStep
  BY <1>1, <1>2, <1>3, GatherLogs, AdviseLogs, FindLogs, CommitLogs, RecordOnlyLogs,
     RecordRequestLogs, EndLogs, CutLogs
     DEF TowerStep, LogInv
<1>4. CASE QueueStep \/ UNCHANGED allVars
  BY <1>1, <1>2, <1>4, QueueLogs DEF LogInv
<1>5. QED  BY <1>1, <1>3, <1>4 DEF TowerNext

LEMMA LogAlways == TowerSpec => []LogInv
BY LogInitial, LogInductive, PTL DEF TowerSpec

\* For any observations, answers and interleaved decisions: the risk a request
\* shows is one that a recorded decision gives for it, unless a cycle died
\* between the two commits (control_tower.py:260-330).
THEOREM RequestsExplained == TowerSpec => []EveryRequestIsExplained
<1>1. LogInv => EveryRequestIsExplained
  BY DEF LogInv, ExplainInv, Explained, EveryRequestIsExplained
<1>2. QED  BY <1>1, LogAlways, PTL

\* A model raises a request by one level at most, however often it is asked
\* about the same problem (llm_agent.py:386).
THEOREM RiskRisesOneStep == TowerSpec => []RiskWithinOneStep
<1>1. LogInv => RiskWithinOneStep
  <2>1. ASSUME LogInv, NEW i \in DOMAIN request
        PROVE  \/ \E n \in Citing(i) : request[i].risk <= decision[n].planned + 1
               \/ \E lost \in cut : lost.approval = i
               \/ cycle.pc = "record" /\ cycle.approval = i
    <3>1. ASSUME NEW n \in Citing(i), decision[n].risk = request[i].risk
          PROVE  request[i].risk <= decision[n].planned + 1
      BY <2>1, <3>1 DEF Citing, LogInv, StepInv, WithinOneStep
    <3>2. [approval |-> i, risk |-> request[i].risk] \in cut =>
            \E lost \in cut : lost.approval = i
      OBVIOUS
    <3>3. QED  BY <2>1, <3>1, <3>2 DEF LogInv, ExplainInv, Explained
  <2>2. QED  BY <2>1 DEF RiskWithinOneStep
<1>2. QED  BY <1>1, LogAlways, PTL
=============================================================================
