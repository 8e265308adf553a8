SPECIFICATION Spec
CONSTANTS
    TICK_MOD = 4
    READY_TRIES = 2
    CAL_TRIES = 1
    TX_TICKS = 1
    MAX_LAG = 1
    RX_SIZE = 4
    BANNER = 2
    MaxLapses = 1
    Channels <- AllChannels
    Reply <- ReplyBytes
    PendantFrames <- OurFrame
    ForeignFrames <- Foreign
    Identity <- TwoBytes
INVARIANTS RightSettings WaitBounded IdentityHonest
PROPERTIES BootloaderHonest ImplementsRadio Starts
