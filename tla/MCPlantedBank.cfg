SPECIFICATION BankSpec
CONSTANTS
    NSettlement = 3
    NBank = 7
    NoUtr = NoUtr
    Utr <- MCUtr
    UtrTail <- Settlement
    TailOf <- MCTailOf
    DateWindow = 3
    Tolerance = 1
    MaxCandidates = 6
    MaxSubset = 2
    Snapshots <- MCSnapshots
    FirstWeekday = 3
    MonthLength = 31
    Holidays = {26}
    ExpectedLag = 0
    CleanNets <- MCCleanNets
    SettledOn <- MCSettledOn
    PeriodEnd <- MCPeriodEnd
    Noise = 17300
INVARIANTS
    BooksAgree
    MoneyConserved
    TrailExplainsResults
    MissingMeansNothingFits
    BankDefectsDiagnosed
