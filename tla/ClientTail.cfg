CONSTANTS
  Statuses = {}
  NoCode = NoCode
  Listeners = {"stdout", "stderr"}
  ChanCap = 1
  MaxOut = 3
  Requests = {{"stdout"}, {"stdout", "stderr"}}
  Chunk = 1
  NoMsg = NoMsg
  WireCap = 2
SPECIFICATION ShortSpec
INVARIANTS
  CompleteMeansPrinted
  ErrorHasCause
PROPERTIES
  PrintsInOrder
  TailEnds
  ServerLetsGo
CHECK_DEADLOCK FALSE
