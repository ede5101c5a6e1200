\* Two dispatches to one tool race and one is not counted.
SPECIFICATION Spec
CONSTANTS
  c1 = c1  c2 = c2   l1 = l1  l2 = l2   t1 = t1  t2 = t2  t3 = t3  w1 = w1
  NoTool = NoTool
  NoOrder = NoOrder
  Lots = {l1, l2}
  Tools = {t1, t2}
  Orders = {}
  Clients = {c1, c2}
  Endpoints <- FloorEndpoints
  Reports = {"IDLE", "DOWN"}
  RouteLength = 2
  ToolStep <- OnePerStep
  MaxReworkCycles = 1
  Quantities = {1}
  MaxOutages = 0
SYMMETRY Interchangeable
INVARIANTS
  DispatchCountIsExact
CHECK_DEADLOCK FALSE
