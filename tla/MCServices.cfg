SPECIFICATION ServicesSpec
CONSTANTS
    Callers = {g1, g2}
    Requests = {r1, r2}
    Sizes <- MCSizes
    Crashes = 1
    Viewers = {u1, u2, u3}
    Browsers = {b1, b2}
    Chain <- MCChain
    Recorded = {1, 3}
    Stmts = 2
    Failures = 3
    Tokenlife = 3
    Interval = 2
    Window = 2
    MaxUint = 7
    MaxTime = 9
    MaxShown = 5
    c1 = c1
    c2 = c2
    Contexts <- MCContexts
    Owners <- MCOwners
    MaxQueue = 1
    MaxCalls = 3
INVARIANTS
    CopiesAreSound
    TemplatesExpire
    SchemesAreWhole
    TokensAccepted
PROPERTIES
    ChatNeverSticks
CHECK_DEADLOCK FALSE
