SPECIFICATION Spec
CONSTANTS
    Account = {ann, bob}
    Workspace = {11}
    Membership = {1, 2, 3}
    Caller = {c1, c2}
    Ops = {"signUp", "route", "join", "create", "drop", "setRole", "add", "setOwner",
           "dropAsAdmin", "erase", "name", "ban"}
    RoleLock = RoleLock
    NoRow = NoRow
    Nothing = Nothing
    Untouched = Untouched
SYMMETRY AllAreAlike
CONSTRAINT Parts
INVARIANTS
    TypeOK
    SomebodyIsInCharge
    TheCountHolds
    CirclesAreAboutNewcomers
CHECK_DEADLOCK FALSE
