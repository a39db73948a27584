SPECIFICATION FairSpec
CONSTANTS
    t1 = t1
    t2 = t2
    Thread <- Threads
    Device = {0}
    NumBlocks = 3
    Value = {0}
    Zero = 0
    Absent = Absent
    NoValue = NoValue
    NoThread = NoThread
    NoKey = NoKey
    CacheSize = 2
    ReadAhead = 2
    QueueMult = 2
    MaxHandles = 1
INVARIANTS OneCopy
PROPERTIES ManagerReleased
