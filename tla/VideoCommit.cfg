\* Both interrupts drain a ring that wraps and fills up, and an operation is
\* deferred any number of times.
SPECIFICATION FairSpec
CONSTANTS
    RingLen = 3
    MaxOps = 2
    MaxRun = 2
    OamBytes = 2
    LastLoc = 1
    Op <- LikeCell
    RegOp <- OneCell
    PowerUp <- Cleared
INVARIANTS TypeOK QueueIntact ScreenFaithful ImmediatesFaithful
PROPERTIES PaintsInOrder Drained
