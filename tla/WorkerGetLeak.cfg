CONSTANTS
  c1 = c1
  c2 = c2
  c3 = c3
  Calls = {c1, c2, c3}
  Kinds = {"get", "shutdown"}
  Namespaces = {n1}
  Ids = {i1}
  Uuids = {}
  NoId = NoId
  HasLimits = FALSE
  Nil = Nil
  Absent = Absent
  NoCall = NoCall
SPECIFICATION FairSpec
PROPERTY ShutdownReturns
CHECK_DEADLOCK FALSE
