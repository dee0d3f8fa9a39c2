SPECIFICATION WatchdogSpec
CONSTANT
    START_LIMIT = 3
INVARIANTS
    NoServerLeftBehind
PROPERTIES
    CrashRestarted
    StopEnds
CHECK_DEADLOCK FALSE
