SPECIFICATION ResetSpec
CONSTANTS
    a = a
    u1 = u1
    DocId = {1, 2}
    NpcId = {1}
    Tag = {a}
    Price = {1}
    Bounty = {1}
    MAX_MARKET_SLOTS = 2
    MAX_NPC_SLOTS = 1
    User = {u1}
    MAX_INVEN_SIZE = 2
    INITIAL_MONEY = 1
    SeedDocs <- SeedDocsHigh
    SeedNpcs <- SeedNpcsOne
    SPAWN_LIMIT = 1
    NPC_LIMIT = 0
    RAID_LIMIT = 0
    DISK_FAULTS = 0
    RESET_LIMIT = 2
    LEAK_LIMIT = 2
INVARIANTS
    OnlyCaughtUnbacked
    OnlyCaughtTwice
    FrozenWillThaw
CHECK_DEADLOCK FALSE
