CONSTANTS
  Statuses = {0}
  NoCode = NoCode
  Listeners = {Update}
  Update = Update
  ChanCap = 2
  MaxOut = 3
  Chunk = 2
SPECIFICATION EndlessSpec
INVARIANTS
  TypeOK
  ExitsAfterDrain
PROPERTIES
  CommandEnds
  SignalEnds
CHECK_DEADLOCK FALSE
