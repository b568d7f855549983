SPECIFICATION FairSpec
CONSTANTS
    max_raw_snd_buf_size = 4
    auto_ack_limit = 2
    MsgSizes = {1, 2}
    ServerWaits = TRUE
    MaxSent = 2
    MaxQueued = 1
PROPERTIES
    ReconnectCompletes
CHECK_DEADLOCK FALSE
