SPECIFICATION CollectionsSpec
CONSTANTS
    Values = {v1, v2}
    None = Nil
    MaxNodes = 4
    Keys = {1, 2, 3}
    Numbers = {1, 2}
    Chunk = Chunk
    ComfortLen = 1
    MaxCap = 4
    Goroutines = {g1, g2}
    Collections = {a, b}
INVARIANTS
    ElementsAreFound
    OrderedDictReads
    OrderedUseNeverSticks
PROPERTIES
    ChainsAreDeques
    PassIsComplete
    IteratorInStep
CHECK_DEADLOCK FALSE
