SPECIFICATION LiveSpec
CONSTANTS
  Targets = {w1}
  Panes = {p1, p2}
  Names = {n1}
  NoName = NoName
  MaxPromptTargets = 8
  MaxSends = 1
  MaxChanges = 4
CHECK_DEADLOCK FALSE
INVARIANTS
  SendsWereAuthorized
  OutcomesAreTrue
PROPERTY DeliveryEnds
