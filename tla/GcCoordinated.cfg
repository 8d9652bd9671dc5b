SPECIFICATION FairSpec
CONSTANTS
    Hash = {1, 2, 3}
    Children <- ChainChildren
    Opaque = {1}
    Key = {k1}
    Proc = {p1, p2}
    None = None
    MaxRemove = 1
    Coordinated = TRUE
INVARIANTS TypeOK IndexBacked RootsSurvive
PROPERTIES PinnedNeverRemoved GarbageCollected
