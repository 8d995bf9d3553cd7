SPECIFICATION FairSpec
CONSTANTS
    LEN = 4
    Radix = 5
    Header <- MCHeader
    Config = 3
    Reset <- MCReset
    Frames <- MixedFrames
    MaxFaults = 1
    MaxTries = 3
PROPERTIES AnyFrameAnswered
