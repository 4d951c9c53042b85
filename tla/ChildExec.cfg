CONSTANTS
  j1 = j1
  j2 = j2
  j3 = j3
  r1 = r1
  r2 = r2
  Jobs = {j1, j2, j3}
  Roots = {r1}
  NoRoot = NoRoot
  Statuses = {0}
  NoStatus = NoStatus
SPECIFICATION Spec
SYMMETRY Symmetry
INVARIANTS
  ChildTypeOK
  LimitsBeforeCommand
  LonePivotSucceeds
  ZeroMeansCompleted
CHECK_DEADLOCK FALSE
