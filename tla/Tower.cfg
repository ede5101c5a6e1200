\* One tool, its step and the plant; the engine may die between any two commits.
SPECIFICATION TowerSpec
CONSTANTS
  tower = tower  etch1 = etch1  Etching = Etching  plant = plant
  Tower = tower
  Tools = {etch1}
  ProcessSteps = {Etching}
  Factory = plant
  Observations <- Observed
  ModelKinds = {"INSPECT_EQUIPMENT", "OTHER"}
  Settlements = {"REJECTED"}
  Cooldown = 0
  Keys = {etch1, Etching, plant}
  Risks <- AllRisks
  Texts <- AllTexts
  Ttls = {Never}
  Proposers = {tower}
  People = {}
  Dashboards = {}
  Never = Never
  MaxTime = 1
  MaxRequests = 2
  MaxCount = 2
  MaxDecisions = 2
  MaxCuts = 1
INVARIANTS
  TowerTypeOK
  OnlyAllowedReachesPeople
  RulesOwnEveryDecision
  EveryRequestIsExplained
  RiskWithinOneStep
PROPERTIES
  KeepsPromise
CHECK_DEADLOCK FALSE
