SPECIFICATION FileMapSpec
CONSTANTS
    LBlock = {0, 1, 2, 3, 4, 5}
    PBlock = {1, 2, 3, 4, 5, 6}
    NoBlock = NoBlock
    MaxLen = 3
    Direct = 1
    Ptrs = 2
    MaxHoles = 2
    Null = Null
    Zero = Zero
INVARIANTS TypeOK Ordered Compact ReadsUpToHole
PROPERTIES PlacesPair
CHECK_DEADLOCK FALSE
