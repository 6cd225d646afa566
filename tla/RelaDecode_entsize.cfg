CONSTANTS
    RelaSize = 24
    EntSizes = {16, 24}
    Sizes = {48}
    Offsets = {0}
    ElfLen = 64
    Straddle = Straddle
SPECIFICATION Spec
INVARIANT EntsizeRejected
CHECK_DEADLOCK FALSE
