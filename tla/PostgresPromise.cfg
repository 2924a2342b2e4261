SPECIFICATION Spec
CONSTANTS
    Token = {1, 2, 3}
    Code = {11}
    Person = {ann}
    Scope = {{ann}}
    Name = {one, zoe}
    Email = {mail}
    Caller = {c1, c2}
    SessionTtl = 1
    PairingTtl = 1
    Grace = 0
    MaxClock = 1
    Ops = {"pair", "refresh", "logout", "end", "rename"}
    NoRow = NoRow
    NoToken = NoToken
    Nothing = Nothing
    Nobody = Nobody
    Untouched = Untouched
CONSTRAINT
    Parts
INVARIANTS
    HeadIsNeverAlone
PROPERTIES
    PromiseIsKept
CHECK_DEADLOCK FALSE
