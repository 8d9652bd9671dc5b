SPECIFICATION FairSpec
CONSTANTS
    Hash = {h1}
    Writer = {w1, w2}
    s1 = s1
    Shard = {s1}
    ShardOf <- OneShard
    Tmp = {t1, t2}
    Absent = Absent
    Bad = Bad
    Full = TRUE
    Coordinated = TRUE
    Faults = FALSE
INVARIANTS AckedReadable ConcurrentPutsSucceed
PROPERTY OrphansReclaimed
