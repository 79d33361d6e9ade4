SPECIFICATION GFairSpec
CONSTANTS
    MaxApps = 2
    r1 = r1
    r2 = r2
    g0 = g0
    g1 = g1
    u1 = u1
    NoCallback = NoCallback
    Requests <- MCRequests
    NilRequests <- MCNilRequests
    Calls <- MCCalls
    ShutdownCall <- MCShutdownCall
INVARIANTS
    ExitsOnlyWhenIdle
    WaitGroupCountsApps
PROPERTIES
    SignalLeadsToExit
CHECK_DEADLOCK FALSE
