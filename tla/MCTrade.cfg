SPECIFICATION FairHistorySpec
CONSTANTS
    Event = Event
    a = a
    b = b
    u1 = u1
    u2 = u2
    DocId = {1, 2}
    NpcId = {1, 2}
    Tag = {a, b}
    Price = {1, 2}
    Bounty = {1}
    MAX_MARKET_SLOTS = 2
    MAX_NPC_SLOTS = 1
    User = {u1, u2}
    MAX_INVEN_SIZE = 2
    INITIAL_MONEY = 2
    SeedDocs <- SeedDocsHigh
    SeedNpcs <- SeedNpcsOne
    SPAWN_LIMIT = 1
    NPC_LIMIT = 0
    RAID_LIMIT = 0
    DISK_FAULTS = 0
INVARIANTS
    OfferBacked
PROPERTIES
    ImplementsExchange
    FilesSettle
