SPECIFICATION Spec
CONSTANTS
    r1 = r1  r2 = r2  r3 = r3  r4 = r4
    o1 = o1  o2 = o2
    Requests = {r1, r2, r3, r4}
    Orgs = {o1, o2}
    OrgOf <- RequestOrg
    Priority <- RequestPriority
    MaxPerOrg = 2
    MaxTime = 2
    Workers = {w1, w2}
    PoolSize = 1
CHECK_DEADLOCK FALSE
PROPERTY OldestHeadFirst
