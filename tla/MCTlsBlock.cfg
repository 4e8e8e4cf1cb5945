SPECIFICATION BlockSpec
CONSTANTS
  PageSize = 4
  LastPage = 7
  HostPages <- MCHostPages
  ArenaPages = 3
  MaxGrants = 5
  Slot <- MCSlot
  HostSlots <- MCHostSlots
  Faulting <- MCFaulting
  HeapRoom = 2
  Increment <- MCIncrement
  TlsSize = 2
  TcbSize = 1
  MaxAlign = 1
  Errno = 2
INVARIANTS BlockStays AccessesBlock GetsThrough
CHECK_DEADLOCK FALSE
