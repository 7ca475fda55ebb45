SPECIFICATION Spec
CONSTANTS
    Keys <- MCKeys
    RidOf <- MCRidOf
    LEAF_MAX_ENTRIES = 2
    INTERNAL_MAX_KEYS = 2
    MaxPages = 12
INVARIANTS
    TypeOK
    RangeScanExact
    ParentIds
    LayoutComplete
PROPERTY
    RefinesKeyMap
