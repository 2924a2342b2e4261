SPECIFICATION Spec
CONSTANTS
    Token = {t1, t2, t3}
    Code = {k1, k2}
    Person = {ann}
    Name = {one}
    Instant = {0}
    SessionTtl = 9
    PairingTtl = 9
    Grace = 0
    MaxEpoch = 2
    MaxAdrift = 1
    MaxCalls = 2
    Context = {popup, background}
    Page = {window}
    NoRow = NoRow
    NoToken = NoToken
    Nothing = Nothing
SYMMETRY Alike
INVARIANTS
    TypeOK
    HeldIsOfTheLastPairing
    HeldTokenIsLive
PROPERTIES
    OnlyTheDeadAreEnded
CHECK_DEADLOCK FALSE
