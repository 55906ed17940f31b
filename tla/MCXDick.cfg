CONSTANTS
    k1 = k1
    k2 = k2
    k3 = k3
    k4 = k4
    Key <- MCKey
    Value = {v1}
    Absent = Absent
    Nil = Nil
    Free = Free
    Client = {c1, c2}
    SubCount = 2
    Route <- MCRoute
    HashOf <- MCHashOf
    INITIAL_SIZE = 2
    EMPTY_VISITS = 1
    MaxExponent = 3
    Bytes <- MCBytes
    Spelling <- MCSpelling

SPECIFICATION XSpec

INVARIANTS
    LookupStaysTrue
    SameKeySameHash

PROPERTIES
    EveryCallReturns
    Linearizable
