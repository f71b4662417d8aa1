SPECIFICATION FairSpec
CONSTANTS
    j1 = j1
    j2 = j2
    h1 = h1
    Jobs = {j1, j2}
    Recoverable = {j1}
    Calls = {h1}
    MaxConcurrent = 2
    DayLimit = 1
    MinBalance = 1
    Estimate <- Prices
    Costs = {3}
    MaxCost = 3
    StartBalances = {3, 4}
    OtherUses = {1}
    MaxSpent = 1
    MaxMishaps = 1
    MaxLate = 2
    NoJob = NoJob
INVARIANTS
    TypeOK
    PaidOnceButForMishaps
    PaidIsDelivered
    OverdraftBounded
PROPERTIES
    JobSettles
CHECK_DEADLOCK FALSE
