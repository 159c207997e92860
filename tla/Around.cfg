SPECIFICATION AroundSpec
CONSTANTS
    Target = {t1, t2}
    Job = {j1, j2, j3}
    MineSlots = 1
    MaxEvents = 2
    Bench = {b1, b2}
    MaxAge = 1
    MaxTime = 3
    Interval = 4
    MinTick = 1
    Window = 3
    Threshold = 2
    Recovery = 1
    MaxNow = 7
    MaxStarts = 3
    SaveInterval = 2
    TimeSaveInterval = 2
    ForceMinInterval = 1
    MaxHuman = 3
    MaxTool = 2
    MaxHookClock = 3
    Row = {d1, d2}
    Run = {r1, r2}
    Index = {"mentions", "relation"}
    RingMax = 2
    RingKeep = 1
    Shown = 1
    MaxLines = 3
    MaxBfTime = 3
    MineWing = {"w1", "w2"}
    MineInterval = 1
    MaxContent = 3
    MaxMineClock = 2
INVARIANTS WatcherCorrect BenchCorrect LifecycleCorrect HooksCorrect BackfillCorrect AdmissionCorrect SessionCorrect
CHECK_DEADLOCK FALSE
