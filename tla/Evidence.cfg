\* Two sources; texts of up to two intervals over five numbers.
\* Three nodes; three polls, one or two time units apart, of which the window
\* takes two and the history keeps those of the last three; one primary
\* adopted.
\* A lease of four time units with a check every one to two.
\* Four events with two in the ring and two crashes.
\* Two clients with two rows each, none of which connects for longer than the
\* join waits for it.
\* Two tasks and the probe, with two requests of up to two statements in up to
\* three sessions, of which the pool keeps one.
\* A set of three and a spare: one server dies, and one primary that is alive is
\* failed over or one call of a replacement fails.
CONSTANTS
    Source = {"u1", "u2"}
    MaxGno <- MCMaxGno
    MaxParts = 2
    Member = {"n1", "n2", "n3"}
    First = "n1"
    Window = 2
    Failures = 2
    MaxWindows = 10
    Keep = 3
    Naive = FALSE
    Answers <- MCAnswers
    Gaps = {1, 2}
    MaxPolls = 3
    MaxAdoptions = 1
    After = 4
    Interval = 1
    Timeout = 1
    Ring = 2
    MaxEvents = 4
    MaxCrashes = 2
    Client = {c1, c2}
    LateConnect = FALSE
    MaxSeq = 2
    Task = {t1, t2}
    MaxIdle = 1
    MaxRequests = 2
    MaxStatements = 2
    MaxSessions = 3
    Nodes <- MCNodes
    Spare = "n4"
    Nobody = "nobody"
    MaxDeaths = 1
    MaxTroubles = 1
SPECIFICATION Spec
INVARIANTS
    SetsAgree
    DeadIsConfirmed
    LeaseHolds
    NoEventLost
    VerdictTrue
    OwnAnswers
PROPERTIES
    Replaced
\* The history, the crashes, the events and the rows are bounded.
CHECK_DEADLOCK FALSE
