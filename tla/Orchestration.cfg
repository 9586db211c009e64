SPECIFICATION OSpec
CONSTANTS
    r1 = r1  r2 = r2  r3 = r3 
    o1 = o1
    w1 = w1  w2 = w2
    Requests = {r1, r2, r3}
    Orgs = {o1}
    OrgOf <- RequestOrg
    Priority <- RequestPriority
    MaxPerOrg = 1
    MaxTime = 1
    Workers = {w1, w2}
    PoolSize = 2
    Tasks = {r1, r2}
    WaveOf <- TaskWave
    UpAbove = 1
    DownAbove = 0
CHECK_DEADLOCK FALSE
SYMMETRY WorkerSymmetry
INVARIANTS OvershootBounded NoRequestLost WavesSequential
PROPERTY DownOnlyWhenDrained
