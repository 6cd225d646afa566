CONSTANTS
    XLEN <- MC_XLEN
    W32 <- MC_W32
    W16 <- MC_W16
    LO <- MC_LO
    HI <- MC_HI
    BranchBits <- MC_BranchBits
    JalBits <- MC_JalBits
    RvcBranchBits <- MC_RvcBranchBits
    RvcJumpBits <- MC_RvcJumpBits
    SecAddr <- MC_SecAddr
    NumSyms <- MC_NumSyms
    Offsets <- MC_Offsets
    SymIdx <- PcrelSymIdx
    Types <- PcrelTypes
    SymValues <- PcrelSymValues
    Addends <- PcrelAddends
    InitWords = {0}
    MaxRelas = 2
SPECIFICATION Spec
CHECK_DEADLOCK FALSE
INVARIANTS TypeOK CallReassembles PcrelPairsReassemble
PROPERTY ImplementsSection
