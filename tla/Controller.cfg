\* The primary and one replica; one freeze or agent start, one failover, one
\* switchover, one halt, and the heartbeat of the first primary followed.
\* Two bad polls make a streak, and the cooldown is one step.
CONSTANTS
    Node = {n1, n2}
    NoNode = NoNode
    InitPrimary = n1
    Beating = {n1}
    MaxWakes = 1
    Enough = 2
    Cooldown = 1
    MaxFailovers = 1
    MaxSwitchovers = 1
    MaxHalts = 1
SPECIFICATION Spec
INVARIANTS
    OldNotNamed
PROPERTIES
    FailsOverItsPrimary
    HaltedDoesNothing
    WokenWaits
    TwoWritersEnd
