CONSTANTS
    Capacity = 2
    MaxPrice = 1
    MaxQty   = 2
    MaxId    = 4
    WordMod  = 4
SPECIFICATION LSpec
INVARIANTS
    QuantityConserved
    FillsHonourLimits
    NoOvertaking
PROPERTY ClosedStaysClosed
CHECK_DEADLOCK FALSE
