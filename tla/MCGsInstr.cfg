CONSTANTS
    Modulus = 16
    ByteModulus = 4
    BitXor <- MCXor
    ModRM <- MCModRM
    Disp = {0, 1, 6, 15}
    Imm = {0, 1, 2, 3, 9}
    StartRegs <- MCStartRegs
    StartGs <- MCStartGs
    MaxSteps = 2
SPECIFICATION Spec
CHECK_DEADLOCK FALSE
INVARIANT TypeOK
PROPERTY EmulatesData
