CONSTANTS
    k1 = k1
    k2 = k2
    k3 = k3
    k4 = k4
    k5 = k5
    Key <- MCKey
    Value = {v1, Nil}
    Absent = Absent
    Nil = Nil
    INITIAL_SIZE = 2
    EMPTY_VISITS = 2
    MaxExponent = 4
    Hashers <- MCHashers

SPECIFICATION Spec

INVARIANTS
    TypeOK
    HashTableOK
    LoadFactor

PROPERTIES
    RehashAdvances
    RehashEnds
    ImplementsKVStore
