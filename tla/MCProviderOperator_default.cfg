SPECIFICATION Spec
CONSTANTS
    Versions <- MCVersions
    InitialCMs <- MCInitialCMs
    Added <- MCNoneAdded
    SpecVersions <- MCSpecVersions
    MaxSpecChanges = 0
    MaxFaults = 0
INVARIANT DefaultIsHighest
