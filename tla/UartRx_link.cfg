SPECIFICATION FairSpec
CONSTANTS
    LEN = 4
    Radix = 5
    Header <- MCHeader
    Config = 3
    Reset <- MCReset
    Frames <- KindsOfFrames
    MaxFaults = 2
    MaxTries = 3
INVARIANTS TypeOK InStep SecondTrySucceeds
PROPERTIES EventuallyAnswered
