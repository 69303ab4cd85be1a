\* A quiesce may end by killing mysqld, which leaves the final set unknown.
CONSTANTS
    Node = {n1, n2, n3}
    NoNode = NoNode
    InitPrimary = n1
    MaxTxn = 2
    MaxSwitchovers = 1
    MaxCrashes = 0
    MaxRestarts = 0
    Faults = {}
SPECIFICATION Spec
SYMMETRY Symmetry
INVARIANTS
    KeptAlways
\* A halted set waits for an operator.
CHECK_DEADLOCK FALSE
