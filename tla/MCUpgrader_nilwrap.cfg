CONSTANTS
    core = core
    boot = boot
    infra = infra
    Providers <- MCProviders
    CoreProvider = core
    Order <- MCOrder
    Versions = {1, 2, 3}
    Contracts = {1, 2}
    Releases <- MCReleasesHole
    Series <- MCSeriesHole
    InitVersion <- MCInit
    MaxFaults = 0
    ApplyAnyContract = FALSE
SPECIFICATION Spec
INVARIANTS
    PlanCoversGroup
