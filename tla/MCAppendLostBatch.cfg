SPECIFICATION Spec
CONSTANTS
    Process = {p1, p2}
    NSequence = 2
    NBase = 2
    BatchSize = 1
    MaxSettlement = 6
    p1 = p1
    p2 = p2
INVARIANT
    InFlightIsLogged
