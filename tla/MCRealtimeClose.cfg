CONSTANTS
    g1 = g1
    g2 = g2
    Clients = {g1, g2}
    NoClient = NoClient
    Paths <- MCPaths
    Configs <- MCRecreate
    ForeignPaths <- MCForeign
    Opens <- MCOpens
    Streaming <- MCStreaming
    Calls <- MCCalls
SPECIFICATION Spec
PROPERTIES CloseOnlyReleases
CHECK_DEADLOCK FALSE
