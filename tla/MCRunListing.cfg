SPECIFICATION Spec
CONSTANTS
    Worker = {w1, w2}
    Mortal = {}
    Ticker = {k1}
    Table = {"settlements", "transfers"}
    MaxRun = 3
    MaxBatch = 2
    MaxEpoch = 1
INVARIANT
    TierAIsEarned
