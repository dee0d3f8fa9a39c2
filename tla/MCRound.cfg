SPECIFICATION FairRoundSpec
CONSTANTS
    k1 = k1
    k2 = k2
    Key = {k1, k2}
    Event = Event
    INITIAL_MONEY = 1
    GOAL_MONEY = 1
    DEBT_RAISE_STEP = 1
    DEBT_CAP = 2
    RUMOR_FEE = 1
    ESCAPES_TO_END = 2
    ESCAPE_LIMIT = 3
INVARIANTS
    RoundTypeOK
    OneCountdown
    GoalFollowsEscapes
    OneRumorAtATime
PROPERTIES
    RevivedOnlyByLateWrite
    PaidFromRecord
    CapEndsRound
CHECK_DEADLOCK FALSE
