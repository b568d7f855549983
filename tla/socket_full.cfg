SPECIFICATION StreamSpec
CONSTANTS
    HeaderLen = 2
    READER_BUFSIZ = 6
    Capacity = 6
    Sizes = {1, 3}
    MaxPackets = 3
INVARIANT
    StreamIntact
CHECK_DEADLOCK FALSE
