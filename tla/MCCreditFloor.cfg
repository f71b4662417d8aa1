SPECIFICATION Spec
CONSTANTS
    c1 = c1
    c2 = c2
    t1 = t1
    Chats = {c1, c2}
    VoiceChats = {}
    Tools = {}
    NoCache = NoCache
    Markup <- OwnMarkups
    GlobalMarkup <- GlobalMarkups
    Unit = 6
    Position <- InSchemaOrder
    OpeningBalances = {1}
    TopupSources = {"ZIBAL"}
    TopupAmounts = {}
    AdminDebits = {}
    Prices = {}
    RawCosts = {1}
    TrialCredit = 1
    Estimate = 2
    Floor = 2
    SeveralUses = FALSE
    TurnsMayOutlast = FALSE
    MaxBalance = 1
    MaxDebt = 5
    MaxDeaths = 0
INVARIANTS
    FloorHolds
