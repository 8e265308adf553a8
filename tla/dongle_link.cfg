SPECIFICATION Spec
CONSTANTS
    r1 = r1
    c1 = c1
    c2 = c2
    OurFrames <- JogFrames
    OtherFrame = OtherFrame
    EmptyFrame = EmptyFrame
    Channels <- TwoChannels
    HomeChannel = c1
    OtherChannel = c2
    Reports06 <- NoReports
    NoReport06 = r0
    TICK_MOD = 4
    RECV_TICKS = 2
    SEARCH_TICKS = 1
    SLICE = 4
    MAX_LOOP = 1
INVARIANTS TypeOK ListensOnChannel JogAtMostOnce
PROPERTIES LinkHonest
