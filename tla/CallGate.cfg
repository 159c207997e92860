SPECIFICATION Spec
CONSTANTS
    Calls = {c1, c2, c3}
    Holders = {h1, h2}
    CallKinds = {"read", "write", "save"}
    HolderKinds = {"rebuild", "mine", "background"}
    MaxConcurrency = 2
    ReadCap = 2
    WriteCap = 1
    ToolBound = 2
    SaveBound = 1
    ToolWorkers = 1
    HnswFaults = TRUE
SYMMETRY Symmetry
INVARIANTS TypeOK Accounting HoldShutsOut
PROPERTY KeepsRegion
CHECK_DEADLOCK FALSE
