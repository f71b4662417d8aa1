SPECIFICATION Spec
CONSTANTS
    s1 = s1
    s2 = s2
    k1 = k1
    b1 = b1
    u1 = u1
    c1 = c1
    r1 = r1
    r2 = r2
    Subscriptions = {s1, s2}
    WalletTopups = {b1}
    StoreTopups = {k1}
    Bazaar = {b1}
    Users = {u1}
    Owner <- AllOwned
    Price <- Dearer
    Worth <- WorthOne
    Codes = {c1}
    NoCode = NoCode
    CodeOf <- SharedCode
    MaxUses <- OneUse
    Referred = {u1}
    Requests = {r1, r2}
    NoPlan = NoPlan
    NoPayment = NoPayment
    Payg = Payg
    Truthful = FALSE
    WalletFloor <- MinusOne
SYMMETRY AnyRequest
INVARIANTS
    TypeOK
    AppliedOnce
    OnlyPaidIsCompleted
PROPERTIES
    SettlesOnce
    RewardGoesToFirst
