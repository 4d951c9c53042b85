CONSTANTS
  Statuses = {0}
  NoCode = NoCode
  Listeners = {"stdout", "stderr"}
  ChanCap = 2
  MaxOut = 3
  Requests = {{"stdout"}, {"stdout", "stderr"}}
  Chunk = 2
  NoMsg = NoMsg
SPECIFICATION Spec
CONSTRAINT ShortStderr
INVARIANTS
  TypeOK
  CodeIsPresent
  NoLostUpdate
PROPERTY Contiguous
CHECK_DEADLOCK FALSE
