SPECIFICATION FairSpec
CONSTANTS
    Instance = {i1, i2}
    Call = {c1, c2}
    Kind = {"next", "invoice", "checkout"}
    Options <- LimitOptions
    MaxPeriod = 1
    MaxCalls = 3
CHECK_DEADLOCK FALSE
\* The theorem CallsAlwaysEnd supposes []StepsEnabled, which holds here too:
\* INVARIANT StepsEnabled
INVARIANTS TypeOK LimitHolds NumbersUnique
PROPERTY CallsEnd
