CONSTANTS
    core = core
    boot = boot
    infra = infra
    Providers <- MCProviders
    CoreProvider = core
    Order <- MCOrder
    Versions = {1, 2, 3}
    Contracts = {1, 2}
    Releases <- MCReleasesNoInfra2
    Series <- MCSeries
    InitVersion <- MCInit
    MaxFaults = 0
    ApplyAnyContract = TRUE
SPECIFICATION Spec
INVARIANTS
    SuccessPreservesContract
