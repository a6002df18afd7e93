SPECIFICATION Spec
CONSTANTS
    DueTimes <- MCDueTimes
    DueStreams <- MCDueStreams
    EventStreams = {"c"}
    MaxTime = 9
    MaxCalls = 3
INVARIANTS
    NewEventNotSeen
CHECK_DEADLOCK FALSE
