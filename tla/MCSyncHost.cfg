CONSTANTS
    i1 = i1
    i2 = i2
    t1 = t1
    t2 = t2
    t3 = t3
    Instances = {i1, i2}
    NoInstance = NoInstance
    Keys = {"file", "lock"}
    Absent = Absent
    Tasks = {t1, t2, t3}
    InstanceOf <- TwoThreads
    ConditionalDelete = TRUE
    FileLocks = {TRUE}
    Realtime = FALSE
    FsyncMarks = TRUE
    Inbound = {}
    OpenModes = {"existing", "truncate"}
    OrphanWrites = FALSE
    MaxFaults = 0
    LeaseTime = 1
    LockTimeout = 0
    MaxTime = 1
    MaxOpens = 2
    MaxWrites = 0
    MaxUnlinks = 0
    MaxCrashes = 0
SPECIFICATION Spec
PROPERTIES LockIsRespected
CHECK_DEADLOCK FALSE
