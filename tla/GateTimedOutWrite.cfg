SPECIFICATION Spec
CONSTANTS
    Calls = {c1}
    Holders = {h1}
    CallKinds = {"write"}
    HolderKinds = {"rebuild"}
    MaxConcurrency = 2
    ReadCap = 2
    WriteCap = 1
    ToolBound = 2
    SaveBound = 1
    ToolWorkers = 2
    HnswFaults = FALSE
INVARIANT NoWriteInsideHold
CHECK_DEADLOCK FALSE
