SPECIFICATION FairSpec
CONSTANTS
    a1 = a1  a2 = a2  a3 = a3  a4 = a4
    n1 = n1  n2 = n2
    d1 = d1
    Nobody = nobody
    Agents = {a1, a2}
    Names = {n1}
    ReuseNames = FALSE
    Quota = 2
    MaxRespawns = 1
    SameRoot = FALSE
    Loans = {d1}
    MaxFaults = 1
PROPERTIES AbandonedTreeLeaves RunningTreeKept
