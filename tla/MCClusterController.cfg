SPECIFICATION Spec
CONSTANTS
    ms1 = ms1
    m1 = m1
    Children <- MCChildren
    RetrySteps = 5
    MaxFaults = 2
    MaxCrashes = 2
    MaxActuatorWrites = 2
INVARIANTS
    TypeOK
PROPERTIES
    ClusterRefinement
    DeletionCompletes
