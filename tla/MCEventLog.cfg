\* Two resting orders at most, two prices and a market, four submissions.
CONSTANTS
    Capacity = 2
    MaxPrice = 1
    MaxQty   = 2
    MaxId    = 4
SPECIFICATION ESpec
INVARIANTS
    ReplayMirrors
    TradesMatch
CHECK_DEADLOCK FALSE
