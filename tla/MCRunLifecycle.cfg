SPECIFICATION FairSpec
CONSTANTS
    Worker = {w1, w2}
    Mortal = {w2}
    Ticker = {k1}
    Table = {"settlements", "items", "transfers"}
    MaxRun = 2
    MaxBatch = 2
    MaxEpoch = 1
INVARIANTS
    TypeOK
    RowsOfOneIncarnation
    ReferencesResolve
    CompletedIsWhole
PROPERTIES
    RunsAreImmutable
    UndisturbedRunCompletes
CHECK_DEADLOCK FALSE
