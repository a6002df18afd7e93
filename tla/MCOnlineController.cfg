SPECIFICATION FairSpec
CONSTANTS
    DueTimes <- MCDueTimes
    DueStreams <- MCDueStreams
    NumEvents = 2
    MaxTime = 7
    SourceFaults = {"panic", "exit"}
    SetupResults = {"check", "dead"}
INVARIANTS
    DeadlinesInOrder
    NeverEarly
    FinishedIsComplete
PROPERTIES
    DeadlinesEvaluated
    EventsEvaluated
