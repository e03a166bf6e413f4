SPECIFICATION Spec
CONSTANTS
    Instance = {i1, i2}
    Call = {c1, c2}
    Kind = {"order"}
    Options <- LimitOptions
    MaxPeriod = 1
    MaxCalls = 3
SYMMETRY Symmetry
CHECK_DEADLOCK FALSE
INVARIANT NumbersUnique
