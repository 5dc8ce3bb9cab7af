SPECIFICATION ScopedSpec
CONSTANTS
  Clients = {c1, c2}
  Sockets = {s1, s2}
  NoSocket = NoSocket
  Ops = {"create", "stop", "open", "observe", "restart", "remove"}
  Faults = {"crash", "late", "sshdrop", "serverexit", "outside", "split"}
  InitialKinds = {"absent", "pinned", "unpinned", "legacy"}
  MaxIncarnations = 2
  MaxRevisions = 3
SYMMETRY ScopeSymmetry
CHECK_DEADLOCK FALSE
INVARIANTS
  TypeOK
  KillsHitTheirTarget
  ReapsSparePinnedWork
  EndedIsTrueOfPinned
  LoneWorkIsActionable
  OneIncarnation
