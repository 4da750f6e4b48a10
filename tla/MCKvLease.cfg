SPECIFICATION Spec
CONSTANTS
    n1 = n1
    n2 = n2
    Nodes = {n1, n2}
    TTL = 5
    Renew = 2
    Rpc = 1
    s1 = s1
    s2 = s2
    Slots = {s1, s2}
    MaxFaults = 1
    NoNode = NoNode
INVARIANTS TypeOK OneHolder
PROPERTIES LeaseIsTaken ReleaseSparesSuccessor
