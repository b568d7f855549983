SPECIFICATION Spec
CONSTANTS
    max_raw_snd_buf_size = 20
    auto_ack_limit = 2
    ReconnAfter = 2
    MaxSent = 8
    MaxConns = 3
INVARIANTS
    ClientStreamIntactAnyway
CHECK_DEADLOCK FALSE
