SPECIFICATION Spec
CONSTANTS
    Chunks = 2
    Sigs = 2
    TxBuffers = 1
    MaxSessions = 3
    MaxFaults = 1
    Prompt = TRUE
INVARIANTS
    TypeOK
    CommittedIsBootable
    TrialIsVerified
    TrialGuarded
    CompleteMeansCommitted
    PieceInStep
    MeshRunsWhenApart
PROPERTIES
    TwoStageSpec
    UpgradeEnds
CHECK_DEADLOCK FALSE
