SPECIFICATION Spec
CONSTANTS
    r1 = r1
    c1 = c1
    c2 = c2
    OurFrames <- IdleFrames
    OtherFrame = OtherFrame
    EmptyFrame = EmptyFrame
    Channels <- TwoChannels
    HomeChannel = c1
    OtherChannel = c2
    Reports06 <- NoReports
    NoReport06 = r0
    TICK_MOD = 3
    RECV_TICKS = 1
    SEARCH_TICKS = 0
    SLICE = 2
    MAX_LOOP = 1
PROPERTIES FindsPendant SilenceReported
