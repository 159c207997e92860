SPECIFICATION Spec
CONSTANTS
    Targets = {s1, b1, b2, b3}
    Small = {s1}
    Drainers = {"loop"}
    Cap = 3
    Escape = 2
    LockRetryMax = 1
    Outcomes = {"ok", "lock"}
    Faults = {"kill", "killInMerge", "stop", "raise"}
    MaxPasses = 2
    MaxQueue = 4
    MaxPosts = 4
    MaxFaults = 1
    MaxRebuilds = 0
SYMMETRY Symmetry
INVARIANTS TypeOK PassDiscipline NoInversion NoLostWakeup
 
CHECK_DEADLOCK FALSE
