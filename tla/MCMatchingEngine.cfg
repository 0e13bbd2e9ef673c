CONSTANTS
    Capacity = 3
    MaxPrice = 1
    MaxQty   = 2
    MaxId    = 4
    WordMod  = 4
    DepthCap = 1
SPECIFICATION FairSpec
INVARIANTS
    TypeOK
    IndexOK
    QueuesFIFO
    FreeListOK
    VolumeOK
    NotCrossed
    SweepInPriority
    ResponseFaithful
PROPERTIES
    ImplementsBook
    CallReturns
