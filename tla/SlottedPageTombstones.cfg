SPECIFICATION Spec
CONSTANTS
    PAGE_SIZE = 14
    PAGE_HEADER_SIZE = 2
    SLOT_BYTES = 2
    PREFIX_BYTES = 1
    Payloads <- MCPayloads
    EvictAhead = FALSE
    MaxLsn = 8
INVARIANT TombstonesReset
CHECK_DEADLOCK FALSE
