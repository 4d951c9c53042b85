CONSTANTS
  Rpcs = {c1, c2}
  Graceful = Graceful
  Forced = Forced
  Deferred = Deferred
  Calls = {c1, c2, Graceful, Forced, Deferred}
  Kinds = {"submit", "get", "shutdown"}
  Namespaces = {n1}
  Ids = {u1, u2}
  Uuids = {u1, u2}
  NoId = NoId
  HasLimits = FALSE
  Nil = Nil
  Absent = Absent
  NoCall = NoCall
SPECIFICATION ServeSpec
INVARIANT ForcedAfterTimeout
CHECK_DEADLOCK FALSE
