SPECIFICATION StreamSpec
CONSTANTS
    HeaderLen = 2
    READER_BUFSIZ = 6
    Capacity = 20
    Sizes = {1, 3}
    MaxPackets = 2
INVARIANT
    AssertHolds
CHECK_DEADLOCK FALSE
