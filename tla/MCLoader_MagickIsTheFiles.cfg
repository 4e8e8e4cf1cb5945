CONSTANTS
    Modulus = 16
    Granule = 4
    UserTop = 12
    Host <- MCHost
    Stack = {10}
    Files <- MCFiles
    StaleHeader <- MCStaleHeader
    Writable = {5, 9}
    StalePhdr <- MCStalePhdr
SPECIFICATION Spec
CHECK_DEADLOCK FALSE
INVARIANTS
    MagickIsTheFiles
