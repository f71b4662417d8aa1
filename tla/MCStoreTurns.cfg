SPECIFICATION Spec
CONSTANTS
    c1 = c1
    c2 = c2
    t1 = t1
    Chats = {c1, c2}
    VoiceChats = {c1, c2}
    Tools = {}
    NoCache = NoCache
    Markup <- OwnMarkups
    GlobalMarkup <- GlobalMarkups
    Unit = 6
    Position <- InSchemaOrder
    OpeningBalances = {1}
    TopupSources = {"ZIBAL"}
    TopupAmounts = {1}
    AdminDebits = {}
    Prices = {}
    RawCosts = {1}
    TrialCredit = 3
    Estimate = 2
    Floor = 2
    SeveralUses = TRUE
    TurnsMayOutlast = TRUE
    MaxBalance = 1
    MaxDebt = 1
    MaxDeaths = 1
SYMMETRY AnyChat
INVARIANTS
    ReservedForSomebody
PROPERTIES
    TrialNeverGrows
