CONSTANTS
    core = core
    boot = boot
    infra = infra
    Providers <- MCProviders
    CoreProvider = core
    Order <- MCOrder
    Versions = {1, 2, 3}
    Contracts = {1, 2}
    Releases <- MCReleases
    Series <- MCSeries
    InitVersion <- MCInit
    MaxFaults = 1
    ApplyAnyContract = FALSE
SPECIFICATION Spec
INVARIANTS
    SuccessKeepsProviders
PROPERTY
    UpgradeRefinement
