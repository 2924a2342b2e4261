SPECIFICATION Spec
CONSTANTS
    Token = {t1, t2, t3}
    Code = {k1}
    Person = {ann}
    Name = {one}
    Instant = {0}
    SessionTtl = 9
    PairingTtl = 9
    Grace = 0
    MaxEpoch = 1
    MaxAdrift = 0
    MaxCalls = 2
    Context = {popup, background}
    Page = {window}
    NoRow = NoRow
    NoToken = NoToken
    Nothing = Nothing
SYMMETRY Alike
INVARIANTS
    NeverLockedOut
CHECK_DEADLOCK FALSE
