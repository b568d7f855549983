SPECIFICATION Spec
CONSTANTS
    max_raw_snd_buf_size = 4
    auto_ack_limit = 2
    MsgSizes = {1, 2}
    ServerWaits = FALSE
    MaxSent = 3
    MaxQueued = 1
INVARIANTS
    ExactlyOnce
CHECK_DEADLOCK FALSE
