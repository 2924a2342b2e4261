SPECIFICATION Spec
CONSTANTS
    Request = {r1, r2}
    Limit = 2
    Length = 3
    Most = 2
    Slowest = 2
    LastAsk = 5
    MaxCount = 3
    NoCount = NoCount
    Nothing = Nothing
SYMMETRY Alike
INVARIANTS
    TypeOK
    APlaceIsGrantedOnce
    AMinuteHolds
CHECK_DEADLOCK FALSE
