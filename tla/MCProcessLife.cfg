CONSTANTS
    Word <- MCWord
    Readable = {64}
    Int80Stub = 64
    Frame <- MCFrame
    Edx = {0, 5}
    Status = {0, 1}
    MaxInput = 4
    Exception = 77
SPECIFICATION FairSpec
CHECK_DEADLOCK FALSE
INVARIANTS
    TypeOK
    NoForeignStrings
    EndsAtHlt
PROPERTIES
    ProcessAdvances
    MainReached
    ProgramEnds
