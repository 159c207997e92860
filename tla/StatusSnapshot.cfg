SPECIFICATION FairSpec
CONSTANTS
    Requests = {r1, r2}
    Refreshers = {b1, b2}
    None = None
    MaxCommits = 2
    MaxGen = 2
INVARIANTS TypeOK Fresh RefreshesInTurn
PROPERTIES NeverOlder KeepsPromise
