CONSTANTS
    cp1 = cp1
    cp2 = cp2
    w1 = w1
    w2 = w2
    Machines <- MCMachines
    ControlPlane <- MCControlPlane
    InitConfigured <- MCControlPlane
    PresetData = {}
    Workers = 2
    MaxPatchFaults = 0
    MaxGenFaults = 0
SPECIFICATION Spec
INVARIANTS
    AtMostOneInit
