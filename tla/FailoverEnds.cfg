\* One write, one failover, a stuck applier or a cut stream; liveness, without
\* symmetry.
CONSTANTS
    Node = {n1, n2, n3}
    NoNode = NoNode
    InitPrimary = n1
    MaxTxn = 1
    MaxFailovers = 1
    Faults = {"fence_unreachable", "failed_stop_answers", "partial_relay", "sql_error"}
SPECIFICATION Spec
INVARIANTS
    StoppedOrFenced
PROPERTIES
    FailoverEnds
\* A halted set waits for an operator.
CHECK_DEADLOCK FALSE
