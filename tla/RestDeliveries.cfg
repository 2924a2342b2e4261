SPECIFICATION FairSpec
CONSTANTS
    Delivery = {d1}
    Worker = {w1, w2}
    Waits <- TwoWaits
    Kept = 0
    Limit = 1
    MaxLate = 1
    MaxAsks = 1
    MaxFaults = 1
    NoRow = NoRow
    Idle = Idle
    Never = Never
INVARIANTS TypeOK ArrivesOnce KeepsItsSeries
PROPERTIES NothingIsLost RunsAreShown EveryDeliveryEnds
