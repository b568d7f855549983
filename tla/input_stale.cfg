SPECIFICATION Spec
CONSTANTS
    Base = 8
    Offsets = {1}
    Lengths = {2}
    LogInput = FALSE
    MaxPackets = 2
    MaxBuf = 12
INVARIANTS
    HandledIsSentAnyway
