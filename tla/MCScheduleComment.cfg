SPECIFICATION Spec
CONSTANTS
    NumStreams = 3
    Periods <- AllOfThem
    EvalLayer <- Layers
    MaxSteps = 100
INVARIANTS
    DeadlinesAsDocumented
CHECK_DEADLOCK FALSE
