SPECIFICATION Spec
CONSTANTS
  Slot <- MCSlot
  HostSlots <- MCHostSlots
  Faulting <- MCFaulting
  Base = {1, 14}
  Offset = {0, 3}
  Modulus = 16
  HeapRoom = 4
INVARIANTS TypeOK SlotsDisjoint PointersOK
PROPERTY GsIsLastLoaded
CHECK_DEADLOCK FALSE
