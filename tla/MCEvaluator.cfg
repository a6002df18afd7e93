SPECIFICATION Spec
CONSTANTS
    a = a
    b = b
    x = x
    y = y
    t = t
    Inputs = {a, b}
    Outputs = {x, y, t}
    Triggers = {t}
    Declared <- Position
    Specifications <- MCSpecifications
    NoValue = 0
    MaxCycles = 4
INVARIANTS
    ReadersComeLater
    ReadsAreFresh
    StoresHoldLatest
    WindowsSeeTheirStream
PROPERTIES
    ImplementsSemantics
CHECK_DEADLOCK FALSE
