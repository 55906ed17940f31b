CONSTANTS
    Key <- MCLine
    Text <- MCText
    NonString = {"7.0"}
    Absent = "absent"
    MaxKeys = 2
    ClientKey = {"a", "ETB"}
    ClientVal = {"t", "", "ETB"}
    HttpVal = {"u", "7.0", "absent"}
    Lines <- MCLines

SPECIFICATION CSpec

INVARIANTS
    RepliesInStep
    EffectsOfCall
    GetReturnsHeld
    EscapeRoundTrip

PROPERTIES
    CallReturns
