SPECIFICATION WindowSpec
CONSTANTS
    Windows <- Integrals
    Numbers <- MCNumbers
    NumBuckets = 3
    Duration = 10
    Wait = FALSE
    NoValue = NoValue
    Slips <- MCSlips
    Precision = 1
    Second = 2
    Horizon = 9
    MaxNumbers = 2
    MaxTime = 9
    MaxValues = 2
INVARIANTS
    IntegralIsArea
