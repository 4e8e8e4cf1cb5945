SPECIFICATION Spec
CONSTANTS
  PageSize = 2
  LastPage = 10
  HostPages <- MCHostPages
  ArenaPages = 3
  Increment <- MCIncrement
  MaxGrants = 4
INVARIANT GrantedIsUsable
CHECK_DEADLOCK FALSE
