\* Kill fences of a running mysqld.
CONSTANTS
    MaxGen = 4
    Faults = {"crash", "spawn_fails"}
SPECIFICATION Spec
INVARIANTS
    StopLeavesNothing
PROPERTIES
    HoldKept
    RoleChangeServed
    NoFreeRestart
    ComesBack
\* A stopped agent stays stopped.
CHECK_DEADLOCK FALSE
