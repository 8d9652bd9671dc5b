SPECIFICATION Spec
CONSTANTS
    Hash = {1, 2, 3}
    Children <- ChainChildren
    Opaque = {1}
    Key = {k1}
    Proc = {p1}
    None = None
    MaxRemove = 1
    Coordinated = TRUE
PROPERTY SweepLeavesNoStaleIndex
