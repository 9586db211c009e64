SPECIFICATION Spec
CONSTANTS
    Orgs = {o1}
    Requests = {r1, r2, r3}
    RateLimitMax = 3
    RateWindow = 2
    AlertThreshold = 2
    AlertWindow = 5
    MaxTime = 5
    MaxRestarts = 0
SYMMETRY Symmetry
CHECK_DEADLOCK FALSE
PROPERTY AlertNotMissed
