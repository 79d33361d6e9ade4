SPECIFICATION Spec
CONSTANTS
    Patterns <- MCPatterns
    Prefixes <- MCPrefixes
    Paths <- MCPaths
    Parses <- MCParses
    RegxMatches <- MCRegxMatches
    Methods = {"GET", "POST", "HEAD"}
    MaxHandles = 2
    MaxSwitch = 2
INVARIANTS
    NamesCoverCaptures
    ServedAsRegistered
    HardPathServed
    VariablesKeepTheirNames
    OneAnswer
CHECK_DEADLOCK FALSE
