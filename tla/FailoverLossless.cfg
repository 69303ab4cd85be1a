\* One failover with a live or dead old primary.
CONSTANTS
    Node = {n1, n2, n3}
    NoNode = NoNode
    InitPrimary = n1
    MaxTxn = 2
    MaxFailovers = 1
    Faults = {"fence_unreachable"}
SPECIFICATION Spec
SYMMETRY Symmetry
INVARIANTS
    TypeOK
    Lossless
    NoErrantReplica
    NoFalseHalt
PROPERTIES
    LosslessLog
\* A halted set waits for an operator.
CHECK_DEADLOCK FALSE
