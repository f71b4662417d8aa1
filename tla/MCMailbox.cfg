SPECIFICATION FairSpec
CONSTANTS
    m1 = m1
    m2 = m2
    m3 = m3
    a1 = a1
    Free = Free
    Messages = {m1, m2, m3}
    Actions = {a1}
    MaxPending = 2
    MaxRounds = 3
CHECK_DEADLOCK FALSE
INVARIANTS
    TypeOK
    OneTurnAtATime
    AnsweredOnce
    WaitedInOrder
PROPERTIES
    AttendedUntilGone
    AttendedMessageLeaves
