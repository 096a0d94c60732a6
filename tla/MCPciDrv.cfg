SPECIFICATION Spec
CONSTANTS
    Procs = {p1, p2}
    Longs <- MCLongs
    WordBits = 1
    MaxPartial = 1
INVARIANT AccessIsBacked
INVARIANT NothingLeft
INVARIANT ShowsLastStored
PROPERTY RemoveReturns
CHECK_DEADLOCK FALSE
