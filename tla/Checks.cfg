\* Two tools and a step, whose conditions stand longer than the suppression window.
SPECIFICATION Spec
CONSTANTS
  etch1 = etch1  etch2 = etch2  Etching = Etching  null = null
  Tools = {etch1, etch2}
  ProcessSteps = {Etching}
  Null = null
  Suppress = 1
  MaxTime = 2
  MaxTasks = 3
  MaxHits = 1
SYMMETRY Interchangeable
INVARIANTS
  TypeOK
  OneInvestigationPerWindow
  FoundIsInvestigated
CHECK_DEADLOCK FALSE
