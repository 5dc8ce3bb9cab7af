SPECIFICATION Spec
CONSTANTS
  Clients = {c1, c2}
  Sockets = {s1}
  NoSocket = NoSocket
  Ops = {"observe", "restart", "remove"}
  Faults = {}
  InitialKinds = {"pinned"}
  MaxIncarnations = 2
  MaxRevisions = 3
CHECK_DEADLOCK FALSE
PROPERTY RemovedIsFinal
