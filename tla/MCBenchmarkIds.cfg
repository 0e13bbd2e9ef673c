\* A workload with market orders between its limit orders and its cancels.
CONSTANTS
    Capacity    = 3
    MaxPrice    = 5
    MaxQty      = 2
    MaxId       = 4
    WordMod     = 4
    TotalEvents = 4
    MidPrice    = 3
    Tick        = 1
    PriceLevels = 2
    QtyMin      = 1
    Bursty      = FALSE
    BurstEvery  = 3
    BurstLen    = 1
SPECIFICATION RSpec
INVARIANT CancelsReferenceOrders
CHECK_DEADLOCK FALSE
