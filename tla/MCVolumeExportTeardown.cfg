SPECIFICATION Spec
CONSTANTS
    Nodes = {a, b}
    NoNode = NoNode
    SerialHandlers = FALSE
    MaxGen = 3
    MaxPid = 2
    MaxStops = 1
INVARIANT
    TeardownSparesTheRunning
SYMMETRY NodesAlike

CHECK_DEADLOCK FALSE
