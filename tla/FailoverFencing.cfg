\* Two failovers, any call failing and any server restarting.
CONSTANTS
    Node = {n1, n2, n3}
    NoNode = NoNode
    InitPrimary = n1
    MaxTxn = 0
    MaxFailovers = 2
    Faults = {"fence_unreachable", "failed_stop_answers", "stale_view",
              "replica_restart", "restart_in_run"}
SPECIFICATION Spec
SYMMETRY Symmetry
INVARIANTS
    SingleWriter
\* A halted set waits for an operator.
CHECK_DEADLOCK FALSE
