SPECIFICATION Spec
CONSTANTS
    here = here
    there = there
    c1 = c1
    c2 = c2
    Addresses = {here, there}
    Callers = {c1, c2}
    None = None
    Window = 2
    Limit = 2
    MaxNow = 4
    MaxCalls = 5
SYMMETRY Alike
INVARIANT
    IInv
PROPERTY
    RefusalsAreEarned
CHECK_DEADLOCK FALSE
