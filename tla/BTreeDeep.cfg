SPECIFICATION Spec
CONSTANTS
    Keys <- MCKeysDeep
    RidOf <- MCRidOf
    LEAF_MAX_ENTRIES = 2
    INTERNAL_MAX_KEYS = 2
    MaxPages = 20
INVARIANT ParentIds
