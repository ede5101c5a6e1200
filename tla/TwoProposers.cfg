\* The control tower and a client over HTTP report the same problem at once.
SPECIFICATION Spec
CONSTANTS
  tower = tower  script = script  ann = ann  board = board  k1 = k1  x = x  y = y
  Keys = {k1}
  Risks = {1}
  Texts = {x}
  Ttls = {1}
  Proposers = {tower, script}
  People = {ann}
  Dashboards = {board}
  Never = Never
  MaxTime = 1
  MaxRequests = 2
  MaxCount = 2
INVARIANTS
  OnePendingPerKey
CHECK_DEADLOCK FALSE
