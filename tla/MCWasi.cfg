CONSTANTS
    g1 = g1
    g2 = g2
    Clients = {g1, g2}
    NoClient = NoClient
    Paths <- MCPaths
    Configs <- MCConfigs
    ForeignPaths <- MCForeign
    Opens <- MCOpens
    Streaming <- MCStreaming
    Calls <- MCCalls
SPECIFICATION Spec
INVARIANTS
    LeaseCoversWriters
    NothingForgotten
    WritesLandWhereMeant
    FsyncIsDurable
CHECK_DEADLOCK FALSE
