SPECIFICATION Spec
CONSTANTS
  Word <- MCWord
  StackTop = 9
  CodeAddr <- MCCodeAddr
  Int80At <- MCInt80At
  GsLength <- MCGsLength
  FaultAt <- MCFaultAt
  UnknownGsAt = {20}
  GuestRegs <- MCGuestRegs
  GuestWords <- MCGuestWords
  HandlerWords = {1}
  EntryPoint = 12
  NSys = 3
  Implemented = {1, 2}
  Dereferencing = {1}
  ENOSYS <- MCENOSYS
  HostRoom = 8
  ScratchSlots = {3}
INVARIANTS TypeOK FrameOK
PROPERTY SyscallIsAtomic
CHECK_DEADLOCK FALSE
