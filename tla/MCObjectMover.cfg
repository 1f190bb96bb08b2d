SPECIFICATION Spec
CONSTANTS
    c1 = c1
    c2 = c2
    i1 = i1
    i2 = i2
    p = p
    s1 = s1
    t = t
    o1 = o1
    x = x
    Objs <- MCObjs
    External <- MCExternal
    Kind <- MCKind
    NameOf <- MCNameOf
    OwnerRefs <- MCOwnerRefs
    Suffixes <- MCSuffixes
    Batches <- MCBatches
    Initial <- MCInitial
    MaxFaults = 1
    MaxCrashes = 1
INVARIANTS
    DiscoveryOrderIndependent
    TenantClosure
    OwnerRefsResolve
    SharedNodeSafety
PROPERTY
    MoveConverges
