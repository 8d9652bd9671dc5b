\* VBlank ends between the mode check and the store.
SPECIFICATION Spec
CONSTANTS
    RingLen = 2
    MaxOps = 2
    MaxRun = 2
    OamBytes = 2
    LastLoc = 1
    Op <- OneCell
    RegOp <- NoOps
    PowerUp <- Cleared
PROPERTIES NoIllegalWrite
