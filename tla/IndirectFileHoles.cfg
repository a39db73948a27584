SPECIFICATION IndirectSpec
CONSTANTS
    Direct = 2
    Ptrs = 2
    MaxHoles = 1
    Null = Null
    Zero = Zero
INVARIANTS HolesReadZero
CHECK_DEADLOCK FALSE
