SPECIFICATION Spec
CONSTANTS
    NSettlement = 2
    MdrBps <- Mdr
    GstBps = 1800
    Commission <- Sellers
    Books <- MCBooks
    Shortfalls <- MCShortfalls
    Allotments <- MCAllotments
    LargePayment = 400000
    PayoutFloor = 20000
    AmountTolerance = 1
    ClaimWindow = 1
    Month <- MCMonth
CHECK_DEADLOCK FALSE
INVARIANTS
    DefectsDiagnosed
    NothingInvented
    UnclaimedIsClean
    BankInStep
    MissingMeansNoTransfer
    EveryRowScores
    BooksCorroborate
    FiledCreditAccounted
