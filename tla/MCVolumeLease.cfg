SPECIFICATION Spec
CONSTANTS
    a = a
    b = b
    a1 = a1
    a2 = a2
    b1 = b1
    Nodes = {a, b}
    Slots = {a1, b1}
    Home <- MCHome
    NoNode = NoNode
    NoSlot = NoSlot
    TTL = 3
    Validity = 2
    RenewInterval = 1
    SerialOpens = TRUE
    MaxTime = 4
    MaxSeq = 3
    MaxRefs = 2
    MaxStray = 1
INVARIANTS
    TypeOK
    LeaseExclusion
    ValidLeaseOwnsEntry
    FreshClaimsBacked
PROPERTIES
    ImplementsGrant
