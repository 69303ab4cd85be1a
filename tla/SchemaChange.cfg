\* Two keys make two chunks, two values tell an old row from a new one; one
\* session, two statements of it, and two runs, so that one finds what another
\* left behind.
CONSTANTS
    Keys = {1, 2}
    Values = {a, b}
    Absent = absent
    Writers = {w}
    Alters = {"plain"}
    MaxAttempts = 2
    MaxRuns = 2
    MaxWrites = 2
    Faults = {"interrupt", "crash", "no_reconnect"}
SPECIFICATION Spec
INVARIANTS
    WritesSurvive
    ChecksumStands
    MismatchHasCause
PROPERTIES
    OnlyCommitsChangeRows
    CleanupLeavesNothing
    RunEnds
\* The runs and the writes are bounded, and the operator may stop.
CHECK_DEADLOCK FALSE
