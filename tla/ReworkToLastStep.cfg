\* A rework release to the last step leaves a lot no advance accepts.
SPECIFICATION Spec
CONSTANTS
  c1 = c1  c2 = c2   l1 = l1  l2 = l2   t1 = t1  t2 = t2  t3 = t3  w1 = w1
  NoTool = NoTool
  NoOrder = NoOrder
  Lots = {l1}
  Tools = {t1, t2}
  Orders = {}
  Clients = {c1}
  Endpoints <- LotEndpoints
  Reports = {"IDLE", "DOWN"}
  RouteLength = 2
  ToolStep <- OnePerStep
  MaxReworkCycles = 1
  Quantities = {1}
  MaxOutages = 0
SYMMETRY Interchangeable
INVARIANTS
  AdvanceNeverRefused
CHECK_DEADLOCK FALSE
