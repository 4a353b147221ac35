SPECIFICATION TTSpec
CONSTANTS
    MAX_PROCESS_CNT = 3
    COUNTER_MOD = 6
    MAX_GENERATION = 2
INVARIANTS
    TTTypeOK
    RingOK
    PidsOK
PROPERTY ImplementsSlotPool
