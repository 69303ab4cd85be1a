\* One write that may become a phantom, one failover, one request of the
\* operator and one failing call; liveness, without symmetry.
CONSTANTS
    Node = {n1, n2, n3}
    NoNode = NoNode
    InitPrimary = n1
    MaxTxn = 1
    Operator = Operator
    MaxElections = 1
    MaxAsks = 1
    MaxFails = 1
    VerifyReads = 2
    Faults = {"fence_fails"}
SPECIFICATION Spec
INVARIANTS
    JoinedClean
    PrimaryStays
PROPERTIES
    AllJoin
\* The bounds run out: nothing is left to rejoin.
CHECK_DEADLOCK FALSE
