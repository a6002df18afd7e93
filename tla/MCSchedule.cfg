SPECIFICATION Spec
CONSTANTS
    NumStreams = 3
    Periods <- AllOfThem
    EvalLayer <- Layers
    MaxSteps = 100
INVARIANTS
    NoAssertionFails
    DueOncePerPeriod
    PausesFillHyperPeriod
CHECK_DEADLOCK FALSE
