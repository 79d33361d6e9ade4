SPECIFICATION Spec
CONSTANTS
    root = root
    sub = sub
    app = app
    None = None
    Routers <- MCRouters
    Root = root
    Apps = {app}
    Names = {"", "n"}
    Configured = {sub, app}
    Hosts <- MCHosts
    PathPrefixes <- MCPrefixes
    Routes <- MCRoutes
    Requests <- MCRequests
    Strings <- MCStrings
INVARIANTS
    TreeAgrees
    PlainRequestsServed
