SPECIFICATION Spec
CONSTANTS
    c1 = c1
    c2 = c2
    t1 = t1
    Chats = {c1}
    VoiceChats = {}
    Tools = {t1}
    NoCache = NoCache
    Markup <- OwnMarkups
    GlobalMarkup <- GlobalMarkups
    Unit = 6
    Position <- InSchemaOrder
    OpeningBalances = {1}
    TopupSources = {"SNAPPPAY"}
    TopupAmounts = {2}
    AdminDebits = {3}
    Prices = {2}
    RawCosts = {1}
    TrialCredit = 1
    Estimate = 2
    Floor = 2
    SeveralUses = TRUE
    TurnsMayOutlast = FALSE
    MaxBalance = 3
    MaxDebt = 1
    MaxDeaths = 0
INVARIANTS
    TypeOK
    UseIsPaidCheapestFirst
    PurchaseIsPaidInFull
PROPERTIES
    LedgerHeals
    NoNeedlessDebt
