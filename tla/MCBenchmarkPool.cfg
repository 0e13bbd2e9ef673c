\* A pool of one slot, and a workload that rests more than one order.
CONSTANTS
    Capacity    = 1
    MaxPrice    = 5
    MaxQty      = 2
    MaxId       = 4
    WordMod     = 4
    TotalEvents = 4
    MidPrice    = 3
    Tick        = 1
    PriceLevels = 2
    QtyMin      = 1
    Bursty      = FALSE
    BurstEvery  = 3
    BurstLen    = 1
SPECIFICATION RSpec
INVARIANT BothRunToEnd
CHECK_DEADLOCK FALSE
