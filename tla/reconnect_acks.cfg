SPECIFICATION Spec
CONSTANTS
    max_raw_snd_buf_size = 5
    auto_ack_limit = 2
    MsgSizes = {1, 2}
    ServerWaits = TRUE
    MaxSent = 4
    MaxQueued = 1
INVARIANTS
    AckInv
CHECK_DEADLOCK FALSE
