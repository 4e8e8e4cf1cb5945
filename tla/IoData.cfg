CONSTANTS
    FileDescriptor = {0, 1, 3}
    Length = {0, 5, 12}
    MaxBuffers = 2
    Modulus = 20
    Overlapped = {0}
    Leftover = {0, 9}
    MaxCalls = 2
SPECIFICATION DataSpec
CHECK_DEADLOCK FALSE
INVARIANTS
    TypeOK
    ResultIsCount
    ReadIsAtomic
    EachByteOnce
    CountedAreFirst
PROPERTY ReadIsStream
