SPECIFICATION Spec
CONSTANTS
    NSettlement = 3
    NBank = 2
    u1 = u1
    u2 = u2
    v1 = v1
    tailU = tailU
    tailV = tailV
    NoUtr = NoUtr
    Utr <- MCUtr
    UtrTail <- MCUtrTail
    TailOf <- MCTailOf
    DateWindow = 2
    Tolerance = 1
    MaxCandidates = 2
    MaxSubset = 2
    Snapshots <- ThreeByTwo
INVARIANTS
    TypeOK
    LineHasOneOwner
    AmountMatchLeavesNoClaimant
    SiblingsNotBothOnAmount
PROPERTIES
    DecisionsAreFinal
    ImplementsAssignment
