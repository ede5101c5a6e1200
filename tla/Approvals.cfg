\* The control tower and a client over HTTP propose; that client, as the
\* calibration script does, and a person decide; a dashboard sweeps.
SPECIFICATION Spec
CONSTANTS
  tower = tower  script = script  ann = ann  board = board  k1 = k1  x = x  y = y
  Keys = {k1}
  Risks = {1}
  Texts = {x}
  Ttls = {1}
  Proposers = {tower, script}
  People = {ann, script}
  Dashboards = {board}
  Never = Never
  MaxTime = 2
  MaxRequests = 2
  MaxCount = 2
INVARIANTS
  TypeOK
  PendingWithinProposers
PROPERTIES
  DecisionIsFinal
  OverdueIsSettled
CHECK_DEADLOCK FALSE
