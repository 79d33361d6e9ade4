SPECIFICATION Spec
CONSTANTS
    N = 2
INVARIANTS
    DestructForEveryAction
CHECK_DEADLOCK FALSE
