SPECIFICATION Spec
CONSTANTS
    BlkSize = 4
    Lengths = {1, 3, 5}
    ResetSizes = {4, 9}
    MaxHeld = 9
    MaxFed = 18
INVARIANTS
    TypeOK
    Consistent
PROPERTIES
    ImplementsQueue
