CONSTANTS
    i1 = i1
    i2 = i2
    Tasks = {i1, i2}
    Instances = {i1, i2}
    InstanceOf <- MCInstanceOf
    NoInstance = NoInstance
    Keys = {"lock"}
    Absent = Absent
    ConditionalDelete = TRUE
    MaxFaults = 1
    LeaseTime = 2
    LockTimeout = 1
    MaxTime = 4
    MaxLag = 9
SPECIFICATION Spec
INVARIANTS TypeOK HolderOwnsLock MutualExclusion
PROPERTIES TakeoverRaisesEpoch ImplementsLeaseSpec
SYMMETRY Symmetry
CHECK_DEADLOCK FALSE
