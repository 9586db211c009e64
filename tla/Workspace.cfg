SPECIFICATION FairSpec
CONSTANTS
    n1 = n1  n2 = n2
    a1 = a1  a2 = a2
    c1 = c1  c2 = c2
    Names = {n1}
    BranchPrefixes = {"agent/", "fix/"}
    DoctorNames = {n1}
    Agents = {a1, a2}
    Nobody = nobody
    Cycles = {c1, c2}
    Cron = c1
    MaxFaults = 2
    Day = 2
INVARIANTS TypeOK
PROPERTIES StaleLeaves ReapedLeavesNothing MisledByRenewalOnly
