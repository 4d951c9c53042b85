CONSTANTS
  Statuses = {0}
  NoCode = NoCode
  Listeners = {}
  ChanCap = 1
  MaxOut = 3
  Calls = {c1, c2}
  Earlier = Earlier
  NoJob = NoJob
  Chunk = 2
SPECIFICATION EndlessSpec
INVARIANTS
  TypeOK
  CodeMeansAllOutput
  StoppedHasCode
  NeverBackwards
PROPERTY EveryRpcReturns
CHECK_DEADLOCK FALSE
