SPECIFICATION FairSpec
CONSTANTS
    Targets = {s1, s2, s3, b1}
    Small = {s1, s2, s3}
    Drainers = {"loop"}
    Cap = 1
    Escape = 2
    LockRetryMax = 1
    Outcomes = {"ok"}
    Faults = {}
    MaxPasses = 0
    MaxQueue = 2
    MaxPosts = 0
    MaxFaults = 0
    MaxRebuilds = 0
PROPERTY EveryEntryRuns
CHECK_DEADLOCK FALSE
