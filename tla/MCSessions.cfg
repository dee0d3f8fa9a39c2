SPECIFICATION FairSpec
CONSTANTS
    Conn = {c1, c2}
    c1 = c1
    c2 = c2
    Key = {k1}
    k1 = k1
    MAX_CLIENTS = 2
    SEND_ROOM = 1
INVARIANTS
    TypeOK
    SlotsMatchHandlers
    BurnedStaysOut
PROPERTIES
    HungUpIsCleared
    LoginAnswered
