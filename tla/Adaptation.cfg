SPECIFICATION FairSpec
CONSTANTS
    w1 = w1  w2 = w2
    Keys = {"org_id", "task_id"}
    Writers = {w1}
    PoolSize = 2
    Overlap = 1
    MaxTime = 2
    MaxWrites = 3
    MaxFaults = 1
INVARIANTS TypeOK NothingMissed
PROPERTIES CatchesUp StopArrives
