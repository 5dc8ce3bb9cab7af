SPECIFICATION LiveSpec
CONSTANTS
  SessionCount = 3
  Hinted = {2, 3}
  MaxGroups = 2
  Manager = manager
  MaxActions = 2
  MaxReviews = 1
  MaxOutside = 1
  Procs = {manager, plugin}
  None = None
  Panes = {p1, p2}
  Source = p1
  Others = {other}
  VerifyAttempts = 2
  MaxChanges = 1
CHECK_DEADLOCK FALSE
INVARIANTS
  PermissionsAreExplicit
  PreferenceIsInForce
  SourceClosesLast
PROPERTY ActionsConclude
