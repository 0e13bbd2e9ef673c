CONSTANTS
    Deployments <- MCDeployments
SPECIFICATION CSpec
INVARIANTS
    TrackedOK
    FillsSound
    FillsArrive
    SessionExact
PROPERTIES
    StatusFinal
    SessionFillsOnly
CHECK_DEADLOCK FALSE
