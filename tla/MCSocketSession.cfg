CONSTANTS
    Key <- MCKey
    Text = {"t", "u"}
    NonString = {"7.0"}
    Absent = "absent"
    MaxKeys = 2

\* A panic ends the process.
CHECK_DEADLOCK FALSE

SPECIFICATION Spec

INVARIANTS
    BatchAgrees
    RepliesMatchKeys

PROPERTIES
    EtbAnswered
