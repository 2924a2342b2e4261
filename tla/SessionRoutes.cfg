SPECIFICATION Spec
CONSTANTS
    Token = {t1, t2, t3}
    Code = {k1}
    Person = {ann}
    Scope = {{ann}}
    Name = {one}
    Caller = {c1, c2, c3}
    Instant = {0}
    SessionTtl = 9
    PairingTtl = 9
    Grace = 0
    NoRow = NoRow
    NoToken = NoToken
    Nothing = Nothing
SYMMETRY Alike
INVARIANTS
    TypeOK
    StrangersHaveNoSession
PROPERTIES
    RestoredFromNothing
CHECK_DEADLOCK FALSE
