\* One lot, a quick stop() and start(), a tool that fails, one mishap.
SPECIFICATION EngineSpec
CONSTANTS
  loop1 = loop1  loop2 = loop2  l1 = l1  l2 = l2  t1 = t1  t2 = t2
  NoTool = NoTool
  NoOrder = NoOrder
  Lots = {l1}
  Tools = {t1, t2}
  Orders = {}
  Clients = {loop1, loop2}
  Endpoints <- AllEndpoints
  Reports = {}
  RouteLength = 2
  ToolStep <- OnePerStep
  MaxReworkCycles = 1
  Quantities = {1}
  MaxOutages = 1
  MaxWip = 1
  ReworkStep = 0
  Faulty = {t2}
  MaxFailures = 1
  MaxStops = 1
INVARIANTS
  EngineTypeOK
  OnlyAFailureForgets
PROPERTIES
  SpawnedLotsFinish
CHECK_DEADLOCK FALSE
