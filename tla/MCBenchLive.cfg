\* Four or five operations in batches of two: a total that is a multiple of the
\* batch, and one that is not.  Ids for three submissions in each operation.
CONSTANTS
    Capacity   = 4
    MaxPrice   = 4
    MaxQty     = 2
    MaxId      = 17
    SeedLevels = 1
    SeedQty    = 2
    MidInit    = 2
    MidMin     = 2
    MidMax     = 3
    MaxOffset  = 1
    RefillQty  = 1
    Totals     = {4, 5}
    BatchSize  = 2
    IntMax     = 7
SPECIFICATION BSpec
INVARIANTS
    RestingInLive
    EveryOpOnce
PROPERTY BenchmarkEnds
CHECK_DEADLOCK FALSE
