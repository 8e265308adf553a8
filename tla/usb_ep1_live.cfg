SPECIFICATION Spec
CONSTANTS
    r0 = r0
    r1 = r1
    MaxFaults = 1
    Requests <- ConfigureOnly
    NumReports = 2
    IdleDefault = 1
    IDLE_UNIT = 1
    Report04s <- Two
    NoReport04 = r0
    TICK_MOD = 4
    POLL_TICKS = 1
    MAX_LAG = 1
    BYTE = 2
PROPERTIES Ep1Converges IdleRepeats
