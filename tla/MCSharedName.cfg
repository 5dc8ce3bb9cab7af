SPECIFICATION PickerSpec
CONSTANTS
  GroupCount = 2
  Effective = {1}
  NameOf <- OneName
  Ids = {1, 2, 3, 4}
  HomeOf <- Homes
  Legacy = {4}
  Externals = {1}
  Started = {{3}}
INVARIANTS
  ActionsAreProven
CHECK_DEADLOCK FALSE
