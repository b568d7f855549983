SPECIFICATION MessageFairSpec
CONSTANTS
    max_raw_snd_buf_size = 6
    auto_ack_limit = 3
    MsgSizes = {2, 3}
    ServerWaits = TRUE
    MaxSent = 8
    MaxQueued = 1
    HeaderLen = 1
    Bodies = {1, 2}
    Senders = {"client"}
INVARIANTS
    MessagesWhole
    NothingHeldBack
PROPERTIES
    HandedUnlessLost
CHECK_DEADLOCK FALSE
