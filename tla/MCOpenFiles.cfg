CONSTANTS
    t1 = t1
    t2 = t2
    Threads = {t1, t2}
    BlockSize = 2
    NoBlock = NoBlock
    Calls <- MCCalls
    OpenFlags <- MCOpenFlags
    Shared = TRUE
    MaxSize = 4
    MaxOpens = 2
    MaxCalls = 4
SPECIFICATION Spec
INVARIANTS
    ContentIsBytes
    ReadsHoldNoSurprise
    LateStoreIsHarmless
PROPERTIES
    AppendsKeepTheFile
SYMMETRY Symmetry
CHECK_DEADLOCK FALSE
