CONSTANTS
    a = a
    d = d
    Clients = {a, d}
    Direct = {d}
    NoClient = NoClient
    Paths <- MCPaths
    Configs <- MCConfigs
    ForeignPaths <- MCForeign
    Opens <- MCOpens
    PathCalls <- MCPathCalls
    DirectRequests <- MCDirectRequests
    DirectKinds <- MCDirectKinds
    MaxRetries = 1
    MaxOpens = 1
SPECIFICATION FairSpec
INVARIANTS
    DescriptorsHaveSession
    LeaseCoversWriters
    BufferHasDescriptor
    WritesLandWhereMeant
    FsyncIsDurable
PROPERTIES
    EveryCallReturns
    DisconnectReleases
CHECK_DEADLOCK FALSE
