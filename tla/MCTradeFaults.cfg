SPECIFICATION HistorySpec
CONSTANTS
    Event = Event
    a = a
    b = b
    u1 = u1
    u2 = u2
    DocId = {1, 2}
    NpcId = {1, 2}
    Tag = {a}
    Price = {1}
    Bounty = {1}
    MAX_MARKET_SLOTS = 1
    MAX_NPC_SLOTS = 1
    User = {u1, u2}
    MAX_INVEN_SIZE = 2
    INITIAL_MONEY = 1
    SeedDocs <- SeedDocsHigh
    SeedNpcs <- SeedNpcsOne
    SPAWN_LIMIT = 1
    NPC_LIMIT = 1
    RAID_LIMIT = 2
    DISK_FAULTS = 1
SYMMETRY Symmetry
INVARIANTS
    TradeTypeOK
    OneCustodian
    OfferBacked
    OnlyLostForgotten
    BurnedHoldNothing
PROPERTIES
    ImplementsExchange
