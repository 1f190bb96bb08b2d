SPECIFICATION Spec
CONSTANTS
    Versions <- MCVersions
    InitialCMs <- MCInitialCMs
    Added <- MCAdded
    SpecVersions <- MCSpecVersions
    MaxSpecChanges = 1
    MaxFaults = 2
PROPERTY EventuallyReady
