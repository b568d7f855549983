SPECIFICATION FairSpec
CONSTANTS
    Base = 4
    Offsets = {0, 3, 4, 15, 16, 255, 256}
    Lengths = {1, 3, 4, 16}
    LogInput = FALSE
    MaxPackets = 2
    MaxBuf = 20
INVARIANTS
    TypeOK
    HandledIsSent
    NothingLeft
PROPERTIES
    InputReturns
