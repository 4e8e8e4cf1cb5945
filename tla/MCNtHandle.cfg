CONSTANTS
    Object = {o1, o2, o3}
    Value = {v1, v2, v3}
    NULL = NULL
    Pseudo = Pseudo
    Free = Free
    Other = Other
    Leaked = Leaked
    None = None
SYMMETRY Permuted
SPECIFICATION Spec
INVARIANTS
    TypeOK
    OwnersOK
    CarefulCloses
