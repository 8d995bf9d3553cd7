SPECIFICATION FairSpec
CONSTANTS
    Tid = {0, 1, 2}
    MAX_APP_TIMERS = 4
    OtherMax = 1
    MaxEvents = 4
INVARIANTS TypeOK PacketsBounded GroupThreeTimes
PROPERTIES EventuallyReported
CHECK_DEADLOCK FALSE
