SPECIFICATION Spec
CONSTANTS
  Sessions = {w1, w2, w3}
  GroupIds = {g1}
  Clients = {c1}
  Capabilities = {all, some}
  MaxWorkers = 1
  NoGroup = NoGroup
  NoRecord = NoRecord
  MaxEdits = 2
  MaxIncarnations = 2
SYMMETRY Symmetry
CHECK_DEADLOCK FALSE
INVARIANTS
  NoDanglingMember
  ReturningWorkersAreNew
PROPERTIES
  ConfirmedMembersStayed
  EditsSpareTheUnseen
  PruneDropsWhatWasPreviewed
