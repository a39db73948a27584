SPECIFICATION Ext4Spec
CONSTANTS
    First = 1
    PerGroup = 2
    Total = 6
    Groups = 3
    Start = 1
    MaxUnit = 6
    NoUnit = NoUnit
    InodesPerGroup = 1
    FirstIno = 2
INVARIANTS
    TypeOK
    ReservedInodesKept
PROPERTIES
    ImplementsAllocator
    Sequential
    InodesImplement
