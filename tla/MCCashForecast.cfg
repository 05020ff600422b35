SPECIFICATION Spec
CONSTANTS
    FirstWeekday = 3
    MonthLength = 31
    Holidays = {26}
    cycle_working_days = 2
    expected_lag_days = 0
    tolerance_days = 1
    MdrBps <- Mdr
    GstBps = 1800
    max_horizon = 5
    pipeline_days = 4
    FirstCutoff = 5
    Net = 1000
    Part = 300
    max_payouts = 2
    Cycles <- MCCycles
    MaxBatches = 3
    Questions <- MCQuestions
CHECK_DEADLOCK FALSE
INVARIANTS
    NothingDropped
    DaysAddUp
    ProjectionIsTheCalendar
