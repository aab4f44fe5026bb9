SPECIFICATION MCSpec
CONSTANTS
    d1 = d1
    long = long
    t1 = t1
    r1 = r1
    r2 = r2
    r3 = r3
    Thread = {t1}
    Domain <- MCDomain
    Refused = {long}
    None = none
    Blank = blank
    Torn = torn
    Release <- MCRelease
    Broken = {r3}
    Unit <- MCUnit
    MaxRequests = 1
    MaxFaults = 1
    MaxUpdates = 2
    MaxCrashes = 1
INVARIANTS
    TypeOK
    VerdictTrue
    
PROPERTIES
    KeepsPromise
    AnswersTrue
    ServesAgain
CHECK_DEADLOCK FALSE
