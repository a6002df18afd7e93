SPECIFICATION Spec
CONSTANTS
    SmallestInt <- MCSmallestInt
    LargestInt = 15
    LargestRational = 1000000
    Use64BitOnly = FALSE
    TypeAliases = FALSE
    Lower <- MCLower
    Bits <- MCBits
    Word = 6
    Specs <- MCSpecs
    AllowParameters = TRUE
CHECK_DEADLOCK FALSE
INVARIANTS
    RoundTrip
    NamesResolve
    ActivationSound
    ReadsAreBelow
    LayeringEnds
    OffsetsFit
    TypesSound
    EnginesAgree
