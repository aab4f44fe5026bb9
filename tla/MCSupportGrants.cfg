SPECIFICATION Spec
CONSTANTS
    t1 = t1
    t2 = t2
    Threads <- MCThreads
    Lifetimes <- MCLifetimes
    MaxGrants = 2
    MaxAttempts = 4
    MinSession = 1
    MaxFailures = 2
    Window = 1
    Block = 1
    MaxTime = 3
SYMMETRY ThreadSymmetry
INVARIANTS
    TypeOK
    OneLiveGrant
    SessionCoversGrant
    OneLoginPerThread
PROPERTIES
    DeadStaysDead
CHECK_DEADLOCK FALSE
