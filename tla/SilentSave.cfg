SPECIFICATION FairSpec
CONSTANTS
    Saves = {s1, s2, s3}
    Repairs = {p1, p2}
    Modes = {"rebuild", "prune"}
    WriteCap = 2
    MaxStops = 1
INVARIANTS TypeOK DiaryWrites 
 
CHECK_DEADLOCK FALSE
