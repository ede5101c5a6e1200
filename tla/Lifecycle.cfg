\* One lot through its whole life, two clients racing on every command and status report.
SPECIFICATION OverlapsSpec
CONSTANTS
  c1 = c1  c2 = c2   l1 = l1  l2 = l2   t1 = t1  t2 = t2  t3 = t3  w1 = w1
  NoTool = NoTool
  NoOrder = NoOrder
  Lots = {l1}
  Tools = {t1, t2}
  Orders = {}
  Clients = {c1, c2}
  Endpoints <- LotEndpoints
  Reports = {"DOWN", "IDLE"}
  RouteLength = 2
  ToolStep <- OnePerStep
  MaxReworkCycles = 1
  Quantities = {1}
  MaxOutages = 1
SYMMETRY Interchangeable
INVARIANTS
  TypeOK
  JournalReplaysLot
  JournalIsChain
  StepMatchesStatus
  RefusedOnlyAfterRework
  DownHasOpenOutage
  DispatchNeverOvercounted
  OutagesExactUntilOverlap
PROPERTIES
  CommandsAreAtomic
  HoldsStarvedUntilOverlap
CHECK_DEADLOCK FALSE
