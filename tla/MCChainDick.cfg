CONSTANTS
    k1 = k1
    k2 = k2
    k3 = k3
    Key <- MCKey
    Value = {v1, v2}
    Absent = Absent
    Nil = Nil
    INITIAL_SIZE = 1
    EMPTY_VISITS = 2
    MaxExponent = 28
    Hashers <- MCHashers
    Ptr = {1, 2, 3}

SPECIFICATION Spec

INVARIANTS
    PointedToOnce
    LeastPowerThatHolds

PROPERTIES
    ImplementsSubDick
