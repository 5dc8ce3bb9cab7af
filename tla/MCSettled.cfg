SPECIFICATION SettlingSpec
CONSTANTS
  Clients = {c1, c2}
  Sockets = {s1}
  NoSocket = NoSocket
  Ops = {"stop", "open", "observe", "remove"}
  Faults = {"crash", "late", "outside"}
  InitialKinds = {"pinned"}
  MaxIncarnations = 1
  MaxRevisions = 3
CHECK_DEADLOCK FALSE
INVARIANTS
  StopIsDeclared
PROPERTIES
  StopsConclude
  OverWorkIsSettled
