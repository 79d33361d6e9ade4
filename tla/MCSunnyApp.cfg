SPECIFICATION FairSpec
CONSTANTS
    MaxApps = 2
    r1 = r1
    r2 = r2
    c1 = c1
    c2 = c2
    NoCallback = NoCallback
    Requests <- MCRequests
    NilRequests <- MCNilRequests
    Calls <- MCCalls
INVARIANTS
    TypeOK
    RunnersCountsHolders
    NoServingAfterTeardown
    CallbackOnceWhenIdle
PROPERTIES
    ClosedIsRemoved
    WinnerIsCalledBack
    ImplementsAppLife
CHECK_DEADLOCK FALSE
