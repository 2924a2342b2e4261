SPECIFICATION FairSpec
CONSTANTS
    Token = {1, 2}
    Code = {11}
    Person = {ann}
    Scope = {{ann}}
    Name = {one}
    Email = {mail}
    Caller = {c1, c2}
    SessionTtl = 1
    PairingTtl = 1
    Grace = 0
    MaxClock = 1
    Ops = {"pair", "refresh", "logout", "end"}
    NoRow = NoRow
    NoToken = NoToken
    Nothing = Nothing
    Nobody = Nobody
    Untouched = Untouched
PROPERTIES
    EveryCallAnswers
CHECK_DEADLOCK FALSE
