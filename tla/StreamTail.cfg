CONSTANTS
  Statuses = {0}
  NoCode = NoCode
  Listeners = {"stdout", "stderr"}
  ChanCap = 2
  MaxOut = 2
  Requests = {{"stdout"}, {"stdout", "stderr"}}
  Chunk = 1
  NoMsg = NoMsg
SPECIFICATION Spec
INVARIANT AllOutputBeforeCode
CHECK_DEADLOCK FALSE
