SPECIFICATION FairSpec
CONSTANTS
    N = 4
    Size = 2
\* The stream ends: Ends says that it does, so a final state is no deadlock.
CHECK_DEADLOCK FALSE
INVARIANTS
    GateHolds
    NoResultLost
PROPERTIES
    Ends
    ImplementsBoundedStream
