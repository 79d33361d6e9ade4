SPECIFICATION Spec
CONSTANTS
    N = 2
INVARIANTS
    CleanupUndoesRequest
    ResponseRunsOnce
    OptionsChainEnds
    HandlerSeesParsedBody
    UploadsRemoved
    DestructFollowsConstruct
PROPERTIES
    PanicIsAnswered
    RequestEnds
CHECK_DEADLOCK FALSE
