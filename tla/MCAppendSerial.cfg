SPECIFICATION Spec
CONSTANTS
    Process = {p1}
    NSequence = 2
    NBase = 2
    BatchSize = 2
    MaxSettlement = 7
    p1 = p1
INVARIANTS
    PeriodsTile
    LogAddsUp
    InFlightLandsNext
