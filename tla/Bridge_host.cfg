SPECIFICATION Spec
CONSTANTS
    Intervals <- SomeIntervals
    MaxConns = 2
    MaxEvents = 3
INVARIANTS
    TypeOK
    BearersFollowLink
PROPERTIES
    StaysFindable
    ConnectedUntilAdvert
    UpgradeAnswered
\* The last connection, and a panic, end the behaviours.
CHECK_DEADLOCK FALSE
