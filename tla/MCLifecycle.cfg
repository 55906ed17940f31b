CONSTANTS
    MaxRequests = 2

SPECIFICATION Spec

INVARIANTS
    OneToken
    FileWhileServing

PROPERTIES
    SignalEndsProcess
