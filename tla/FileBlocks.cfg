SPECIFICATION MCSpec
CONSTANTS
    RegFile = {f1}
    Dir = {d1}
    LBlock = {0, 1, 2, 3, 4}
    SmallLBlock = {0, 1}
    PBlock = {1, 2, 3, 4}
    TreePBlock = {1, 2, 3, 4, 5, 6, 7, 8, 9, 10, 11}
    Value = {0, 1}
    Zero = 0
    NoBlock = NoBlock
    NotData = NotData
    NotCached = NotCached
    MaxLen = 2
    InInode = 1
    PerNode = 2
    CacheMax = 1
    MaxCalls = 4
INVARIANTS TypesOK OneOwner CacheCoherent TreesSound
PROPERTIES LeakOnlyOnError ImplementsFiles CallsAsAsked
CHECK_DEADLOCK FALSE
