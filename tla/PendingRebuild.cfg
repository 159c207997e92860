SPECIFICATION Spec
CONSTANTS
    Targets = {s1, b1, b2}
    Small = {s1}
    Drainers = {"loop", "repair"}
    Cap = 1
    Escape = 1
    LockRetryMax = 1
    Outcomes = {"skip", "requeue", "lock", "fail"}
    Faults = {}
    MaxPasses = 0
    MaxQueue = 2
    MaxPosts = 3
    MaxFaults = 0
    MaxRebuilds = 1
SYMMETRY Symmetry
INVARIANT MinesAlone
CHECK_DEADLOCK FALSE
