SPECIFICATION Spec
CONSTANTS
    Nodes = {a, b}
    NoNode = NoNode
    SerialHandlers = TRUE
    MaxGen = 3
    MaxPid = 2
    MaxStops = 1
INVARIANTS
    TypeOK
    
    ValidLeaseIsHeld
    UnsealedWritesMarked
    
SYMMETRY NodesAlike

CHECK_DEADLOCK FALSE
