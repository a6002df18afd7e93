SPECIFICATION FairSpec
CONSTANTS
    DueTimes <- MCDueTimes
    DueStreams <- MCDueStreams
    Inputs <- AllInputs
    NoCycle = NoCycle
    CapWork = 1
    CapLocal = 2
    SetupResults = {"recv", "failed"}
    SourceFaults = {"panic", "exit"}
INVARIANTS
    TypeOK
    PanicsOnlyForCause
    BoundedReadAhead
    DoneIsComplete
PROPERTIES
    ImplementsTimeline
    Terminates
