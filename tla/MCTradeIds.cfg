SPECIFICATION TradeSpec
CONSTANTS
    a = a
    b = b
    u1 = u1
    u2 = u2
    DocId = {1, 2}
    NpcId = {1}
    Tag = {a, b}
    Price = {1}
    Bounty = {1}
    MAX_MARKET_SLOTS = 2
    MAX_NPC_SLOTS = 1
    User = {u1, u2}
    MAX_INVEN_SIZE = 2
    INITIAL_MONEY = 1
    SeedDocs <- SeedDocsLow
    SeedNpcs <- SeedNpcsNone
    SPAWN_LIMIT = 1
    NPC_LIMIT = 1
    RAID_LIMIT = 0
    DISK_FAULTS = 0
SYMMETRY Symmetry
INVARIANTS
    OneOwner
