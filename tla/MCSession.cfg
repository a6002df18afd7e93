SPECIFICATION Spec
CONSTANTS
    Inputs <- MCInputs
    TimeNames <- MCTimeNames
    Files <- MCFiles
    CommandLines <- MCCommandLines
    Digits = 2
    Boot = 1000
    MaxClock = 1
INVARIANTS
    TriggersReported
    FinalReport
    StopsOnlyOnBadInput
