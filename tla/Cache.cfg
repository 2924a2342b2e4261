SPECIFICATION CacheSpec
CONSTANTS
    Reader = {r1, r2}
    Process = {p1, p2}
    CacheTtl = 1
    VersionTtl = 3
    MaxLoad = 1
    MaxWrites = 2
    NoEntry = NoEntry
    NoVersion = NoVersion
    Nowhere = Nowhere
SYMMETRY Alike
INVARIANTS
    CacheTypeOK
    AnnouncedIsSeen
    NoAnswerIsOlder
