SPECIFICATION Spec
CONSTANTS
    Patterns <- MCPatterns
    Prefixes <- MCPrefixes
    Paths <- MCPaths
    Parses <- MCParses
    RegxMatches <- MCRegxMatches
    Methods = {"GET", "POST", "HEAD"}
    MaxHandles = 2
    MaxSwitch = 2
INVARIANTS
    ExtensionIgnored
CHECK_DEADLOCK FALSE
