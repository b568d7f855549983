SPECIFICATION FairSpec
CONSTANTS
    max_raw_snd_buf_size = 4
    auto_ack_limit = 2
    MsgSizes = {1, 2}
    ServerWaits = TRUE
    MaxSent = 3
    MaxQueued = 1
INVARIANTS
    TypeOK
    RetransmitBufferCovers
    ExactlyOnce
    AcksInRange
    QuietOffsetsAgree
PROPERTIES
    ResendIsExact
    ImplementsStream
    DeliveredUnlessLost
    ReconnectCompletesOnNews
    SenderIsUnblocked
