CONSTANTS
    Capacity   = 3
    MaxPrice   = 4
    MaxQty     = 2
    MaxId      = 5
    SeedLevels = 1
    SeedQty    = 2
    MidInit    = 2
    MidMin     = 2
    MidMax     = 3
    MaxOffset  = 1
    MaxBatch   = 2
    RingCap    = 2
    IntMod     = 16
    MaxWrap    = 1
SPECIFICATION HSpec
INVARIANTS
    STypeOK
    RingIsRecent
    UntouchedIsLive
    StaleOnlyUnseen
PROPERTIES
    AnswerIsRecorded
    RequestAnswered
