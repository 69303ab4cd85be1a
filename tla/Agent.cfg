\* One node, of which mysqld hangs, crashes and restarts and role changes are cut
\* short at any step.
CONSTANTS
    Faults = {"hang", "cut_short"}
SPECIFICATION Spec
INVARIANTS
    NoLoneAck
    FenceStands
    RoutedToPrimary
