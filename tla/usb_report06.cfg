SPECIFICATION Spec
CONSTANTS
    r0 = r0
    r1 = r1
    MaxFaults = 1
    Requests <- ReportRequests
    NumReports = 2
    IdleDefault = 0
    IDLE_UNIT = 1
    Report04s <- One
    NoReport04 = r0
    TICK_MOD = 2
    POLL_TICKS = 1
    MAX_LAG = 1
    BYTE = 2
INVARIANTS TypeOK ReadyIsOpening SelfStabilising InStep
PROPERTIES ImplementsMailbox ReportTaken
