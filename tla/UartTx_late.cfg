SPECIFICATION FairSpec
CONSTANTS
    PACKET_TOTAL_NUMBER = 3
    MAX_APP_TIMERS = 4
    OtherMax = 1
    MaxPackets = 6
    MaxAcks = 2
    PromptAcks = FALSE
INVARIANTS WaitingIsTimed PinReleased TransmitsInTurn
PROPERTIES NeverBackwards StreamSafety EventuallyTransmitted
CHECK_DEADLOCK FALSE
