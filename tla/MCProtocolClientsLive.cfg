SPECIFICATION FairSpec
CONSTANTS
    Client = {c1}
    Thread = {t1}
    Collector = collector
    Plans <- MCPlans
    Edits <- MCEdits
    MaxId = 1
    MaxRequests = 2
    MaxTraffic = 2
    MaxTime = 3
    MaxFaults = 1
PROPERTIES
    PolicyEnforced
    PeriodsTurn
CHECK_DEADLOCK FALSE
