CONSTANTS
    cp1 = cp1
    cp2 = cp2
    w1 = w1
    w2 = w2
    Machines <- MCMachinesPreset
    ControlPlane <- MCControlPlane
    InitConfigured <- MCControlPlane
    PresetData <- MCPreset
    Workers = 1
    MaxPatchFaults = 1
    MaxGenFaults = 1
SPECIFICATION Spec
INVARIANTS
    AtMostOneInit
