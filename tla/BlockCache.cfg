SPECIFICATION Spec
CONSTANTS
    t1 = t1
    t2 = t2
    Thread <- Threads
    Device = {0, 1, 2}
    NumBlocks = 1
    Value = {0, 1}
    Zero = 0
    Absent = Absent
    NoValue = NoValue
    NoThread = NoThread
    NoKey = NoKey
    CacheSize = 2
    ReadAhead = 1
    QueueMult = 2
    MaxHandles = 1
SYMMETRY ThreadSymmetry
INVARIANTS TypeOK NoLostWrite OneCopy Bounded RecordsCurrent
PROPERTIES SyncDurable ImplementsStore
