SPECIFICATION PickerAndSearchSpec
CONSTANTS
  GroupCount = 2
  Effective = {1}
  NameOf <- TwoNames
  Ids = {1, 2, 3, 4}
  HomeOf <- Homes
  Legacy = {4}
  Externals = {1}
  Started = {{1, 2}, {3, 4}}
  LocationCount = 3
  Remote = {2}
  Workers = {s1, s2}
  MaxEntries = 4
  MaxResults = 2
SYMMETRY WorkersAreAlike
INVARIANTS
  SelectionIsWhatWasChosen
  ActionsAreProven
  CompleteIsComplete
  SearchGoesOn
PROPERTY CursorStaysOnItsRow
CHECK_DEADLOCK FALSE
