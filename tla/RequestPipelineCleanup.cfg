SPECIFICATION Spec
CONSTANTS
    N = 2
INVARIANTS
    CleanupAtTheEnd
CHECK_DEADLOCK FALSE
