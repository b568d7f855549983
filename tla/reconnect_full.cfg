SPECIFICATION Spec
CONSTANTS
    max_raw_snd_buf_size = 4
    auto_ack_limit = 2
    MsgSizes = {1, 2}
    ServerWaits = TRUE
    MaxSent = 5
    MaxQueued = 1
INVARIANTS
    FullIsInvalid
CHECK_DEADLOCK FALSE
