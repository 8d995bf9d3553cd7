SPECIFICATION FairSpec
CONSTANTS
    MaxVersion = 1
    MaxRestarts = 1
    BearerCommands = {"private"}
INVARIANTS SanityLast
