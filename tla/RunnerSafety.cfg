CONSTANTS
  Statuses = {0}
  NoCode = NoCode
  Listeners = {l1}
  ChanCap = 1
  MaxOut = 2
  Callers = {c1}
  ReadBuf = 2
SPECIFICATION Spec
INVARIANTS
  TypeOK
  OutputComplete
  DoneMeansReaped
  StopCodeIsFinal
PROPERTIES
  ImplementsContract
