SPECIFICATION SaveLaneSpec
CONSTANTS
    Calls = {c1, c2}
    Holders = {h1, h2}
    CallKinds = {"read", "save", "exempt"}
    HolderKinds = {"rebuild", "background"}
    MaxConcurrency = 2
    ReadCap = 2
    WriteCap = 1
    ToolBound = 2
    SaveBound = 1
    ToolWorkers = 2
    HnswFaults = FALSE
PROPERTIES EveryCallAnswered EveryHoldSettles SaveAnswered
CHECK_DEADLOCK FALSE
