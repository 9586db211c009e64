SPECIFICATION Spec
CONSTANTS
    Orgs = {o1, o2}
    Requests = {r1, r2, r3, r4, r5}
    RateLimitMax = 2
    RateWindow = 2
    AlertThreshold = 2
    AlertWindow = 4
    MaxTime = 4
    MaxRestarts = 1
SYMMETRY Symmetry
CHECK_DEADLOCK FALSE
INVARIANT RateBound
PROPERTIES LimitedWithCause AlertNotFalse
