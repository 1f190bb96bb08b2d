SPECIFICATION Spec
CONSTANTS
    MaxFaults = 3
    ResyncOn = TRUE
INVARIANTS
    OwnedBeforeDataCopied
PROPERTIES
    EventuallyRunning
    InfraReleased
    InfraErrorSurfaces
    PhaseRefinement
