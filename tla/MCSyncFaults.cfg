CONSTANTS
    i1 = i1
    i2 = i2
    t1 = t1
    t2 = t2
    t3 = t3
    Instances = {i1, i2}
    NoInstance = NoInstance
    Keys = {"file", "lock"}
    Absent = Absent
    Tasks = {t1, t2}
    InstanceOf <- OneThread
    ConditionalDelete = TRUE
    FileLocks = {TRUE}
    Realtime = FALSE
    FsyncMarks = FALSE
    Inbound = {}
    OpenModes = {"create"}
    OrphanWrites = TRUE
    MaxFaults = 1
    LeaseTime = 1
    LockTimeout = 0
    MaxTime = 1
    MaxOpens = 2
    MaxWrites = 1
    MaxUnlinks = 1
    MaxCrashes = 0
SPECIFICATION Spec
INVARIANTS LeaseOwnsLock LeaseHasDescriptors
CHECK_DEADLOCK FALSE
