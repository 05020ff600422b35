SPECIFICATION Spec
CONSTANTS
    Process = {p1, p2}
    NSequence = 2
    NBase = 2
    BatchSize = 2
    MaxSettlement = 5
    p1 = p1
    p2 = p2
SYMMETRY Callers
INVARIANTS
    TypeOK
    CreditLandsAtMostOnce
    LogNeverInvents
