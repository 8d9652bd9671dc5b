\* A drain runs inside enqueue_glyph_cell.
SPECIFICATION Spec
CONSTANTS
    RingLen = 2
    MaxOps = 2
    MaxRun = 2
    OamBytes = 2
    LastLoc = 1
    Op <- OneRun
    RegOp <- OneCell
    PowerUp <- Cleared
INVARIANTS EnqueueFaithful
