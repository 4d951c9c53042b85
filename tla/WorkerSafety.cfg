CONSTANTS
  c1 = c1
  c2 = c2
  c3 = c3
  Calls = {c1, c2, c3}
  Kinds = {"submit", "get", "shutdown"}
  Namespaces = {n1, n2}
  Ids = {i1, u1, u2, u3}
  Uuids = {u1, u2, u3}
  NoId = NoId
  HasLimits = FALSE
  Nil = Nil
  Absent = Absent
  NoCall = NoCall
SPECIFICATION Spec
SYMMETRY Symmetry
INVARIANTS
  TypeOK
  NoPanic
  NoJobEscapesShutdown
  GetFindsSubmitted
  PlaceholdersAreTemporary
PROPERTY ImplementsRegistry
CHECK_DEADLOCK FALSE
