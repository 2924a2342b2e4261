SPECIFICATION Spec
CONSTANTS
    Token = {t1, t2, t3}
    Code = {k1, k2}
    Person = {ann, bob}
    Scope = {{ann}}
    Name = {one}
    Caller = {c1}
    Instant = {0, 2}
    SessionTtl = 2
    PairingTtl = 1
    Grace = 1
    NoRow = NoRow
    NoToken = NoToken
    Nothing = Nothing
SYMMETRY TokensAreAlike
INVARIANTS
    TypeOK
    LiveTokensArePairs
PROPERTIES
    EndingEnds
    EndedStaysEnded
    GraceStartsOnce
CHECK_DEADLOCK FALSE
