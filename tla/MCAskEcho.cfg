SPECIFICATION Spec
CONSTANTS
    Asker = {a1, a2}
    Known = {r}
    Invented = {g}
    MaxIterations = 2
    MaxToolCalls = 2
    MaxRetries = 2
CHECK_DEADLOCK FALSE
INVARIANTS
    GroundedMeansRead
