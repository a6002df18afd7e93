SPECIFICATION WindowSpec
CONSTANTS
    Windows <- GoodWindows
    Numbers <- MCNumbers
    NumBuckets = 3
    Duration = 10
    Wait = TRUE
    NoValue = NoValue
    Slips <- MCSlips
    Precision = 1
    Second = 2
    Horizon = 12
    MaxNumbers = 3
    MaxTime = 24
    MaxValues = 4
INVARIANTS
    TypeOK
    NoPanic
    BucketContents
    FoldsASuffix
    NothingStale
    NothingRecentLost
    AggregatesTheValues
