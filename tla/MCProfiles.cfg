CONSTANTS
    Peer = {"p1", "p2"}
    Job = {"j1", "j2", "j3"}

SPECIFICATION ProfSpec

INVARIANTS
    ToggleAgrees

PROPERTIES
    QueuedProfileRuns
    CpuCommandEnds
