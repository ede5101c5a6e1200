\* Two reports of one outage race and leave a row open behind the tool's recovery.
SPECIFICATION Spec
CONSTANTS
  c1 = c1  c2 = c2   l1 = l1  l2 = l2   t1 = t1  t2 = t2  t3 = t3  w1 = w1
  NoTool = NoTool
  NoOrder = NoOrder
  Lots = {}
  Tools = {t1}
  Orders = {}
  Clients = {c1, c2}
  Endpoints <- FloorEndpoints
  Reports = {"IDLE", "DOWN"}
  RouteLength = 2
  ToolStep <- FirstStepOnly
  MaxReworkCycles = 1
  Quantities = {1}
  MaxOutages = 2
SYMMETRY Interchangeable
INVARIANTS
  OutageOpenIffDown
CHECK_DEADLOCK FALSE
