SPECIFICATION FairStreamSpec
CONSTANTS
    HeaderLen = 2
    READER_BUFSIZ = 20
    Capacity = 20
    Sizes = {1, 3}
    MaxPackets = 2
PROPERTY
    AllHandedOut
CHECK_DEADLOCK FALSE
