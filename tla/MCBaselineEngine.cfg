CONSTANTS
    Capacity = 4
    MinPrice = 1
    MaxPrice = 2
    MaxQty   = 2
    MaxId    = 4
    WordMod  = 4
SPECIFICATION FairSpec
INVARIANT BookOK
PROPERTY ImplementsBook
