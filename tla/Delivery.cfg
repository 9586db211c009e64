SPECIFICATION DSpec
CONSTANTS
    a1 = a1  a2 = a2  a3 = a3
    n1 = n1
    d1 = d1
    Nobody = nobody
    Agents = {a1, a2, a3}
    Names = {n1}
    ReuseNames = FALSE
    Quota = 3
    MaxRespawns = 1
    SameRoot = TRUE
    Loans = {}
    MaxFaults = 1
    MaxCommits = 2
INVARIANTS TypeOK GitTypeOK LineageBounded
PROPERTIES RunningTreeKept LostOnlyWhenOver ReportTrue
SYMMETRY RowSymmetry
