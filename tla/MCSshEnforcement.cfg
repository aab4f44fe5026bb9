SPECIFICATION FairSpec
CONSTANTS
    u1 = u1
    u2 = u2
    t1 = t1
    t2 = t2
    a1 = a1
    a2 = a2
    User = {u1}
    Thread = {t1}
    Address <- MCAddress
    NoAddress = none
    Nobody = nobody
    Plan <- MCPlan
    Update <- MCUpdate
    MaxTerminals = 2
    MaxDay = 2
    MaxRequests = 2
    MaxLogins = 2
    MaxFaults = 1
PROPERTIES
    ExpiryEnforced
    LimitsEnforced
    ClosesOnlyOffenders
CHECK_DEADLOCK FALSE
