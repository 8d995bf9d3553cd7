SPECIFICATION Spec
CONSTANTS
    Chunks = 1
    Sigs = 1
    TxBuffers = 1
    MaxSessions = 1
    MaxFaults = 0
    Prompt = FALSE
INVARIANT FailureUntilKeyRead
CHECK_DEADLOCK FALSE
