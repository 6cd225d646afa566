CONSTANTS
    XLEN <- MC_XLEN
    W32 <- MC_W32
    W16 <- MC_W16
    LO <- MC_LO
    HI <- MC_HI
    BranchBits <- MC_BranchBits
    JalBits <- MC_JalBits
    RvcBranchBits <- MC_RvcBranchBits
    RvcJumpBits <- MC_RvcJumpBits
    SecAddr <- MC_SecAddr
    NumSyms <- MC_NumSyms
    SymIdx = {0, 1}
    Addends = {0}
    Offsets = {0}
    Types = {35, 39}
    SymValues = {5, 200}
    InitWords = {0}
    MaxRelas = 2
SPECIFICATION Spec
CHECK_DEADLOCK FALSE
INVARIANT NeverPanics
