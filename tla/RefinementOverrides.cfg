SPECIFICATION Spec
CONSTANTS
    N = 3
    Ceiling <- SmallCeiling
    MaxRefine = 2
    MaxByte = 6
    Ladder = {"range", "placement", "demotion"}
    Bound <- SmallBound
    MaxLimit <- TopLimit
    Item = {"a", "b"}
    Pure = {"a"}
    Locked = {"tiles"}
    Disabled = {"overlay"}
    Invariant = TRUE
    Initial <- SmallInitial
    Proposal <- OverrideProposals
PROPERTY OverridesAdvance
