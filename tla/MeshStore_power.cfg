SPECIFICATION FairSpec
CONSTANTS
    MaxVersion = 2
    MaxRestarts = 3
    BearerCommands = {"promiscuous", "private"}
INVARIANTS TypeOK VersionLast StoreHoldsState UnassociatedAdvertises
           AssociatedHasNetwork UnassociatedIsReset
PROPERTIES StaysReachable
