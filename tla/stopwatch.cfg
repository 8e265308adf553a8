SPECIFICATION Spec
CONSTANTS
    TICK_MOD = 16
    MAX_GAP = 15
INVARIANT Exact
PROPERTIES Monotone EventuallyElapses
