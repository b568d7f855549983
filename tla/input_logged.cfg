SPECIFICATION Spec
CONSTANTS
    Base = 8
    Offsets = {8}
    Lengths = {2}
    LogInput = TRUE
    MaxPackets = 2
    MaxBuf = 12
INVARIANTS
    HandledIsSent
