SPECIFICATION FairRaidSpec
CONSTANTS
    k1 = k1
    k2 = k2
    Key = {k1, k2}
    RAID_LIMIT = 2
INVARIANTS
    RaidTypeOK
    OneThreadEndsIt
    AcceptedNotBurned
    SilentAreBurned
PROPERTIES
    VerdictReached
