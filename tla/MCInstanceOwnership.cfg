SPECIFICATION Spec
CONSTANTS
    n1 = n1
    n2 = n2
    n3 = n3
    Nodes = {n1, n2, n3}
    First = n1
    MaxAttempts = 1
    MaxEvents = 3
    CutCost = 2
    NoNode = NoNode
    NoRecord = NoRecord
    NoVM = NoVM
    Unseeded = Unseeded
SYMMETRY Survivors
INVARIANTS TypeOK  OneClaimant RunningIsOwned StoppedIsDown
CHECK_DEADLOCK FALSE
