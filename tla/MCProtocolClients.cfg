SPECIFICATION Spec
CONSTANTS
    Client = {c1}
    Thread = {t1}
    Collector = collector
    Plans <- MCPlans
    Edits <- MCEdits
    MaxId = 2
    MaxRequests = 3
    MaxTraffic = 3
    MaxTime = 3
    MaxFaults = 1
INVARIANTS
    TypeOK
    FiguresBacked
PROPERTIES
    DecisionsExplained
    MetersOnce
CHECK_DEADLOCK FALSE
