SPECIFICATION Spec
CONSTANTS
    DueTimes <- MCDueTimes
    DueStreams <- MCDueStreams
    EventStreams = {"c"}
    MaxTime = 9
    MaxCalls = 3
INVARIANTS
    PanicsOnlyForCause
    ReturnsTheDeadlines
    NoDeadlineLate
CHECK_DEADLOCK FALSE
