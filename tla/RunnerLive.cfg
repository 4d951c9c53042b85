CONSTANTS
  Statuses = {0}
  NoCode = NoCode
  Listeners = {}
  ChanCap = 1
  MaxOut = 1
  Callers = {c1, c2}
  ReadBuf = 1
SPECIFICATION FairSpec
PROPERTIES
  ForcedStopReturns
  ClosedPipesComplete
CHECK_DEADLOCK FALSE
