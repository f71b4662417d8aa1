SPECIFICATION Spec
CONSTANTS
    o1 = o1
    p1 = p1
    p2 = p2
    k1 = k1
    c1 = c1
    NoCard = NoCard
    NoRefund = NoRefund
    NoEvent = NoEvent
    Idle = Idle
    Orders = {o1}
    Products = {p1, p2}
    Tracked = {p1}
    Cards = {k1}
    Clients = {c1}
    CodeOrders = {o1}
    HumanOrders = {o1}
    Items <- EachOne
    Total <- TotalTwo
    CardOf <- OneCard
    InitialStock <- OneInStock
    MaxRedemptions = 1
    MaxRefunds = 2
    MaxReceipts = 1
    MaxManual = 1
PROPERTIES ExpiresOnlyUnpaid
