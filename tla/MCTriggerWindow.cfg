SPECIFICATION Spec
CONSTANTS
    a = a
    b = b
    x = x
    y = y
    t = t
    Inputs = {a, b}
    Outputs = {x, y, t}
    Triggers = {t}
    Declared <- Position
    Specifications <- TriggerWindow
    NoValue = 0
    MaxCycles = 4
INVARIANTS
    WindowsSeeTheirStream
CHECK_DEADLOCK FALSE
