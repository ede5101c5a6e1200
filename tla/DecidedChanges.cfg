\* The control tower folds a new report into a request while a person decides on it.
SPECIFICATION Spec
CONSTANTS
  tower = tower  script = script  ann = ann  board = board  k1 = k1  x = x  y = y
  Keys = {k1}
  Risks = {1, 2}
  Texts = {x, y}
  Ttls = {1}
  Proposers = {tower}
  People = {ann}
  Dashboards = {}
  Never = Never
  MaxTime = 1
  MaxRequests = 1
  MaxCount = 2
PROPERTIES
  DecidedRequestStands
CHECK_DEADLOCK FALSE
