CONSTANTS
    i1 = i1
    i2 = i2
    Tasks = {i1, i2}
    Instances = {i1, i2}
    InstanceOf <- MCInstanceOf
    NoInstance = NoInstance
    Keys = {"lock"}
    Absent = Absent
    ConditionalDelete = TRUE
    MaxFaults = 0
    LeaseTime = 2
    LockTimeout = 2
    MaxTime = 4
    MaxLag = 0
SPECIFICATION FairSpec
INVARIANTS LiveHolderKeepsLease
PROPERTIES OpenDecided
CHECK_DEADLOCK FALSE
