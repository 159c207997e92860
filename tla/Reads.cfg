SPECIFICATION ReadsSpec
CONSTANTS
    Room = {"decisions", "planning"}
    DefaultRoom = {"decisions"}
    Caller = {c1, c2}
    MaxChanges = 1
    Lookups = {l1, l2}
    SourcePath = {"p", "q"}
    Ttl = 2
    SourceMax = 1
    MaxClock = 3
    MaxDb = 1
    RowId = {1, 2, 3}
    MaxPage = 2
    DefaultPage = 2
    MaxAsked = 3
    Name = {"x", "k"}
    MaxItems = 2
    Drawer = {"a", "b", "c"}
    RankCaller = {t1, t2}
    FusionK = 1
    TopK = 2
    MaxLimit = 2
SYMMETRY ReadsSymmetry
INVARIANTS RoomsCorrect CachesCorrect WalksComplete CypherCorrect SearchCorrect
CHECK_DEADLOCK FALSE
