SPECIFICATION Spec
CONSTANTS
  Clients = {c1, c2}
  Sockets = {s1}
  NoSocket = NoSocket
  Ops = {"create", "observe"}
  Faults = {}
  InitialKinds = {"absent"}
  MaxIncarnations = 2
  MaxRevisions = 3
CHECK_DEADLOCK FALSE
INVARIANT RunningWorkIsActionable
