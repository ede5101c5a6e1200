\* A work order filled by two lots that pass, are reworked or scrapped, two clients racing
\* on orders, inspections, dispositions and releases.
SPECIFICATION OverlapsSpec
CONSTANTS
  c1 = c1  c2 = c2   l1 = l1  l2 = l2   t1 = t1  t2 = t2  t3 = t3  w1 = w1
  NoTool = NoTool
  NoOrder = NoOrder
  Lots = {l1, l2}
  Tools = {t1, t2, t3}
  Orders = {w1}
  Clients = {c1, c2}
  Endpoints <- OrderEndpoints
  Reports = {}
  RouteLength = 2
  ToolStep <- OneThenTwo
  MaxReworkCycles = 1
  Quantities = {1, 2}
  MaxOutages = 0
SYMMETRY InterchangeableInspectTools
INVARIANTS
  AttemptsAreContiguous
  OneUndecidedFailure
  ReworkBounded
  VerdictDecidesStatus
  InspectionBlamesLastTool
  OrderCountsItsLots
  CompletedIffBuilt
  CountsExactUntilOverlap
  WorkEvenUntilOverlap
PROPERTIES
  TerminalIsFinal
  CompletedIsFinal
CHECK_DEADLOCK FALSE
