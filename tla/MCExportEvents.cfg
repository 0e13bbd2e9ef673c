\* The prices and quantities of the source; three random calls of the hundred.
CONSTANTS
    Capacity   = 25
    MaxPrice   = 104
    MaxQty     = 600
    MaxId      = 29
    RandomOps  = 3
    RandomQtys = {30, 149}
SPECIFICATION XSpec
INVARIANTS
    BookAsCommented
    RandomLimitsRest
CHECK_DEADLOCK FALSE
