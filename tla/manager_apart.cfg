SPECIFICATION MemorySpec
CONSTANTS
    Sids = {3, 4, 6}
    MAXSOCKET = 4
    MaxMade = 5
    Structs = {101, 102, 103}
    Buffers = {1, 2, 3, 4, 5, 6, 7, 8, 9, 10, 11, 12}
    Fails = {1, 5}
INVARIANTS
    MemoryTypeOK
    NoDangling
    NoLeak
    HeldIsFound
    MemoryOwned
CHECK_DEADLOCK FALSE
