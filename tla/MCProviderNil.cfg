SPECIFICATION ProviderSpec
CONSTANTS
    Caller = {a1, a2, a3}
    Closer = {z1}
INVARIANT ClientOrError
CHECK_DEADLOCK FALSE
