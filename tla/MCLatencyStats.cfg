CONSTANTS
    BatchSize = 2
    MaxEvents = 7
    MaxNs     = 3
SPECIFICATION LSpec
INVARIANTS
    EveryEventTimed
    NoTruncationBias
CHECK_DEADLOCK FALSE
