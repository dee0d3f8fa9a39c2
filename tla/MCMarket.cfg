SPECIFICATION Spec
CONSTANTS
    d1 = d1
    d2 = d2
    t1 = t1
    t2 = t2
    t3 = t3
    DocId = {d1, d2}
    Tag = {t1, t2, t3}
    NpcId = {1}
    Price = {1}
    Bounty = {1}
    MAX_MARKET_SLOTS = 2
    MAX_NPC_SLOTS = 1
SYMMETRY Symmetry
INVARIANTS
    TypeOK
    FrozenFlagMatchesMask
PROPERTIES
    FrozenOfferStays
    ImplementsBazaar
