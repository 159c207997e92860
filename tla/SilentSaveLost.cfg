SPECIFICATION Spec
CONSTANTS
    Saves = {s1, s2}
    Repairs = {p1}
    Modes = {"rebuild"}
    WriteCap = 2
    MaxStops = 0
INVARIANT NoQueuedSaveLost
CHECK_DEADLOCK FALSE
