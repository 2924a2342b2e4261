SPECIFICATION Spec
CONSTANTS
    Request = {r1, r2}
    Account = {a, b}
    Connection = {k1, k2}
    Caller = {c1, c2}
    MaxLive = 1
    MaxMisses = 2
    Ttl = 1
    MaxClock = 1
    NoRow = NoRow
    Nothing = Nothing
    Nobody = Nobody
    NoSession = NoSession
SYMMETRY Alike
INVARIANTS
    TypeOK
    WrongWordsAreCounted
    BurstIsBounded
PROPERTIES
    PromiseIsKept
    ApprovedWithTheWord
CHECK_DEADLOCK FALSE
