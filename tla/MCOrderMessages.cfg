SPECIFICATION FairSpec
CONSTANTS
    m1 = m1
    n1 = n1
    p1 = p1
    p2 = p2
    r1 = r1
    Reminders = {m1}
    News = {n1}
    TextOnly = {n1}
    Passes = {p1, p2}
    Requests = {r1}
    Nobody = Nobody
    MaxTries = 2
    SmsCap = 1
    ShortKeys <- SomeKeys
    Copies <- SomeCopies
    MaxNews = 2
    MaxMishaps = 2
INVARIANTS
    TypeOK
    RemindedOnce
    SmsWithinCap
PROPERTIES
    ReminderComesThrough
CHECK_DEADLOCK FALSE
