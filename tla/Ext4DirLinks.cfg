SPECIFICATION Spec
CONSTANTS
    Name = {short, other, long}
    LongName = {long}
    TooLong = {}
    Need <- MCNeed
    Inode = {root, i1}
    Root = root
    NoInode = NoInode
    Special = {}
    BlockSize = 12
    DotLen = 3
    DataBlocks = 3
    IndexMax = 1
    MaxLinks = 2
    NotCached = NotCached
SYMMETRY MCSymmetry
INVARIANT
    ReclaimedHaveNoName
