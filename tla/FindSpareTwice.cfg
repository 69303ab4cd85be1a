\* Two servers die, and no call fails.
CONSTANTS
    Nodes <- MCNodes
    Spare = "n4"
    Nobody = "nobody"
    MaxDeaths = 2
    MaxTroubles = 0
SPECIFICATION Spec
PROPERTIES
    HealthyMeansAll
\* A halted set waits for an operator.
CHECK_DEADLOCK FALSE
