SPECIFICATION FairNoticesSpec
CONSTANTS
    Note = {n1, n2}
    Person = {ann, bob}
    Account = {ann}
    Finder = {r1, r2}
    Keep = 1
    Claim = 0
    MaxAsked = 2
    MaxFaults = 1
    NoRow = NoRow
    NoNotice = NoNotice
INVARIANTS
    NoticesTypeOK
    ToldOnce
PROPERTIES
    NothingIsLost
    EveryAddressGoes
