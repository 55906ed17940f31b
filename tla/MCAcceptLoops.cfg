CONSTANTS
    Address = {"192.0.2.1", "192.0.2.2"}
    DefaultACL = {"192.0.2.1"}
    MaxConns = 3

\* The loops stop accepting at MaxConns.
CHECK_DEADLOCK FALSE

SPECIFICATION AcceptSpec

INVARIANTS
    OnlyListedServed
    LoopIdsGrow
