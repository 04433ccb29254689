CONSTANTS
    t1 = t1
    t2 = t2
    Threads = {t1, t2}
    NoThread = NoThread
    Names = {"a", "b"}
    Trees <- MCTrees
    Calls <- MCCalls
    MaxCalls = 4
SPECIFICATION FairSpec
INVARIANTS
    OneLink
PROPERTIES
    RemovesWhatItChecked
    EveryCallReturns
CHECK_DEADLOCK FALSE
