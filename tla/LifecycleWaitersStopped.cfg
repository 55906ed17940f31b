CONSTANTS
    MaxRequests = 2

SPECIFICATION Spec

INVARIANTS
    WaitersStopped
