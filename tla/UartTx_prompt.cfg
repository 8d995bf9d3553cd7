SPECIFICATION FairSpec
CONSTANTS
    PACKET_TOTAL_NUMBER = 3
    MAX_APP_TIMERS = 5
    OtherMax = 1
    MaxPackets = 7
    MaxAcks = 1
    PromptAcks = TRUE
INVARIANTS TypeOK HeadroomSuffices SuccessMeansReceived IInv
PROPERTIES StreamSpec
CHECK_DEADLOCK FALSE
