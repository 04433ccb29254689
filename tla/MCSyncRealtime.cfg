CONSTANTS
    i1 = i1
    i2 = i2
    t1 = t1
    t2 = t2
    t3 = t3
    Instances = {i1, i2}
    NoInstance = NoInstance
    Keys = {"file", "lock"}
    Absent = Absent
    Tasks = {t1, t2}
    InstanceOf <- OneThread
    ConditionalDelete = FALSE
    FileLocks = {TRUE}
    Realtime = TRUE
    FsyncMarks = TRUE
    Inbound = {"read", "check"}
    OpenModes = {"create"}
    OrphanWrites = FALSE
    MaxFaults = 0
    LeaseTime = 1
    LockTimeout = 1
    MaxTime = 2
    MaxOpens = 2
    MaxWrites = 2
    MaxUnlinks = 0
    MaxCrashes = 0
SPECIFICATION Spec
INVARIANTS SyncedIsStored NothingUnsent
PROPERTIES NoLostUpdate
CHECK_DEADLOCK FALSE
