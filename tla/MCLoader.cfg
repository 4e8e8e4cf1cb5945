CONSTANTS
    Modulus = 16
    Granule = 4
    UserTop = 12
    Host <- MCHost
    Stack = {10}
    Files <- MCFiles
    StaleHeader <- MCStaleHeader
    Writable = {5}
    StalePhdr <- MCStalePhdr
SPECIFICATION FairSpec
CHECK_DEADLOCK FALSE
INVARIANTS
    TypeOK
    HostUntouched
    ImageComplete
PROPERTIES
    LoaderEnds
    LoaderAdvances
    ImageArrives
