SPECIFICATION FairSpec
CONSTANTS
    a1 = a1  a2 = a2
    o1 = o1  o2 = o2
    c1 = c1  c2 = c2
    d1 = d1  d2 = d2
    Reaper = reaper
    Agents = {a1}
    Orgs = {o1}
    OrgOf <- OneOrg
    Delegations = {d1, d2}
    Callers = {c1}
    Beating = {a1}
    Scoped = {a1}
    PoolSize = 2
    MaxFaults = 1
INVARIANT TypeOK
PROPERTIES SettledIsFinal ExpiredIsReturned BorrowedComesBack ZombieIsReaped StaleRowLeaves TerminalScopesLeave
