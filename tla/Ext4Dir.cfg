SPECIFICATION Spec
CONSTANTS
    Name = {short, long, overlong}
    LongName = {long}
    TooLong = {overlong}
    Need <- MCNeed
    Inode = {root, i1, i2}
    Root = root
    NoInode = NoInode
    Special = {"S_IFIFO"}
    BlockSize = 12
    DotLen = 3
    DataBlocks = 3
    IndexMax = 2
    MaxLinks = 65535
    NotCached = NotCached
SYMMETRY MCSymmetry
INVARIANTS
    TypeOK
    IndexCoherent
    EntriesNameInodes
    LinkCounts
    RecordsFit
    BlocksCounted
PROPERTIES
    LostOnlyWhenFull
    ImplementsNames
