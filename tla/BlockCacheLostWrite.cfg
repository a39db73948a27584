SPECIFICATION Spec
CONSTANTS
    t1 = t1
    t2 = t2
    Thread = {t1}
    Device = {0}
    NumBlocks = 3
    Value = {0, 1}
    Zero = 0
    Absent = Absent
    NoValue = NoValue
    NoThread = NoThread
    NoKey = NoKey
    CacheSize = 2
    ReadAhead = 2
    QueueMult = 2
    MaxHandles = 1
PROPERTIES ImplementsStore
