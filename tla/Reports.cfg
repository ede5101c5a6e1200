\* The downtime of one tool and the inspections of the three of its step.
SPECIFICATION Spec
CONSTANTS
  i1 = i1  i2 = i2  i3 = i3  null = null
  Tools = {i1}
  Open = null
  MaxTime = 2
  MaxOutages = 2
  StepTools = {i1, i2, i3}
  Batches <- Arrivals
  MaxInspections = 11
SYMMETRY Interchangeable
INVARIANTS
  ClocksAddUp
  OnlyTheWorstTool
  ClearOutlierIsFound
CHECK_DEADLOCK FALSE
