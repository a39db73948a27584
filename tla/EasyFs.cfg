SPECIFICATION BoundedSpec
CONSTANTS
    DirectCount = 1
    PerBlock = 2
    DataBlocks = 12
    BitmapBits = 14
    InodeBits = 3
    Name = {"a", "b"}
    FullName = {"full"}
    LongName = {"long"}
    Buffer <- Buffers
    Offset = {0, 2, 5, 6, 10}
    Length = {1, 5}
    Magic = 99
    MaxCalls = 6
INVARIANTS BlocksAccounted
PROPERTIES ImplementsStore ServesFairCalls
CHECK_DEADLOCK FALSE
