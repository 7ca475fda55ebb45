SPECIFICATION Spec
CONSTANTS
    k1 = k1
    k2 = k2
    v1 = v1
    v2 = v2
    Keys <- MCKeys
    Vals <- MCVals
    SlotsPerPage = 2
    MaxPages = 2
    MaxLog = 13
    MaxOps = 2
    Allowed = {"refused_put"}
SYMMETRY Symmetry
INVARIANTS
    GetAgrees
