CONSTANTS
    Capacity    = 3
    MaxPrice    = 5
    MaxQty      = 2
    MaxId       = 5
    WordMod     = 4
    TotalEvents = 5
    MidPrice    = 3
    Tick        = 1
    PriceLevels = 2
    QtyMin      = 1
    Bursty      = TRUE
    BurstEvery  = 3
    BurstLen    = 1
SPECIFICATION RSpec
INVARIANTS
    LimitsRest
    SameResults
CHECK_DEADLOCK FALSE
