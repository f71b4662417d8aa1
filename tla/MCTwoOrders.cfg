SPECIFICATION Spec
CONSTANTS
    o1 = o1
    o2 = o2
    p1 = p1
    p2 = p2
    p3 = p3
    k1 = k1
    c1 = c1
    NoCard = NoCard
    NoRefund = NoRefund
    NoEvent = NoEvent
    Idle = Idle
    Orders = {o1, o2}
    Products = {p1, p2, p3}
    Tracked = {p1, p2}
    Cards = {k1}
    Clients = {c1}
    CodeOrders = {o1, o2}
    HumanOrders = {}
    Items <- TwoOfScarce
    Total <- TotalOne
    CardOf <- OneCard
    InitialStock <- OneIsScarce
    MaxRedemptions = 1
    MaxRefunds = 1
    MaxReceipts = 1
    MaxManual = 0
SYMMETRY SameOrders
INVARIANTS
    StockNeverLost
    StockExact
    CardTotalExact
    RedemptionsWithinCap
    RedemptionsNeverOverCount
