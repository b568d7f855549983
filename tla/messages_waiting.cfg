SPECIFICATION MessageSpec
CONSTANTS
    max_raw_snd_buf_size = 6
    auto_ack_limit = 3
    MsgSizes = {2, 3}
    ServerWaits = FALSE
    MaxSent = 5
    MaxQueued = 0
    HeaderLen = 1
    Bodies = {1, 2}
    Senders = {"client", "server"}
INVARIANTS
    MessageInv
    MessagesWhole
    NothingHeldBack
CHECK_DEADLOCK FALSE
