SPECIFICATION Spec
CONSTANTS
    u1 = u1
    u2 = u2
    u3 = u3
    u4 = u4
    c1 = c1
    c2 = c2
    User = {u1, u2, u3, u4}
    Content = {c1, c2}
    Pools <- MCPools
    Capacity <- MCCapacity
    Hdr = 1
    Flag = 1
    MaxAsked = 5
SYMMETRY Symmetric
INVARIANTS
    AllocInv
    OwnRoom
    ServesIfItCan
PROPERTY
    ImplementsHeap
