SPECIFICATION LiveSpec
CONSTANTS
  Workers = {w1}
  Occupants = {o1, o2}
  Prompted = {w1}
  None = None
  MaxMemberships = 2
  MaxIncarnations = 2
  MaxMoves = 2
  MaxResults = 1
CHECK_DEADLOCK FALSE
INVARIANTS
  OneOccupantIsLive
  FailuresAreToldOnce
PROPERTIES
  RefreshesShowTheirOwn
  LiveTilesGetOutput
