SPECIFICATION Spec
CONSTANTS
  PageSize = 2
  LastPage = 10
  HostPages <- MCHostPages
  ArenaPages = 3
  Increment <- MCIncrement
  MaxGrants = 4
INVARIANTS TypeOK ArenaInOrder UsableUpToLargest
CHECK_DEADLOCK FALSE
