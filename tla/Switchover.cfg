\* One switchover, one manager crash, one restart of any number of servers.
CONSTANTS
    Node = {n1, n2, n3}
    NoNode = NoNode
    InitPrimary = n1
    MaxTxn = 1
    MaxSwitchovers = 1
    MaxCrashes = 1
    MaxRestarts = 1
    Faults = {"fence_unreachable"}
SPECIFICATION Spec
SYMMETRY Symmetry
INVARIANTS
    Kept
    SingleWriter
    NoErrantReplica
\* A halted set waits for an operator.
CHECK_DEADLOCK FALSE
