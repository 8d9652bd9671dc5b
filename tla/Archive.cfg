SPECIFICATION FairSpec
CONSTANTS
    Hash = {1, 2, 3}
    Bytes <- SmallBytes
    Refs <- SmallRefs
    Junk <- SmallJunk
    Roots = {1}
    Forge = {1, 2, 3}
    MaxBody = 2
    Absent = Absent
    Repairs = FALSE
    MaxEvents = 2
INVARIANTS TypeOK ArchiveClosed ArchiveExact AcceptedExact ExtractDelivers VerifyAllTruthful VerifyReachableTruthful
PROPERTIES CallsEnd RetryDelivers
