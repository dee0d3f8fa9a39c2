SPECIFICATION ClientSpec
CONSTANTS
    t1 = t1
    Tag = {t1}
    Item = {1, 2, 3, 4}
    Npc = {4}
    TagsOf <- MCTagsOf
    SEEDS = {1}
    UI_MAX <- MCUI_MAX
    WIRE_ROOM = 2
    EVENT_LIMIT = 3
INVARIANTS
    ClientTypeOK
    MirrorSettles
    CanAnswer
PROPERTIES
    PanicEnds
CHECK_DEADLOCK FALSE
