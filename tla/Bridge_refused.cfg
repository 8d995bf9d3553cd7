SPECIFICATION Spec
CONSTANTS
    Intervals <- SomeIntervals
    MaxConns = 1
    MaxEvents = 0
INVARIANTS
    UnsentRequestFails
\* The last connection, and a panic, end the behaviours.
CHECK_DEADLOCK FALSE
