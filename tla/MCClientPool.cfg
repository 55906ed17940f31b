CONSTANTS
    Round = {1, 2, 3}
    Items = 1
    Parallel = 2
    RandKey <- MCRandKey
    RandVal <- MCRandVal

\* main waits for ever in the end; Fatalf ends the process.
CHECK_DEADLOCK FALSE

SPECIFICATION Spec

INVARIANTS
    ConnsTracked
    OneOwner
    FatalMeansCollision

PROPERTIES
    TestEnds
