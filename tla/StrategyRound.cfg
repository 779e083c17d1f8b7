SPECIFICATION RoundSpec
CONSTANTS
    FirstDelay = 120
    MaxDelay = 120
    slow1 = slow1
    slow2 = slow2
    quick = quick
    LongTerm <- MCLongTerm
    Order <- MCOrder
    Feed <- MCFeed
    Needs <- MCNeeds
    Covers <- MCCovers
    Strengths <- MCStrengths
    MinBias = 60
    MaxAge = 0
    MaxDrift = 1
    Routed <- MCRouted
    MaxRouted = 1
    MaxClock = 2
INVARIANTS
    TypeOK
    RoundTypeOK
    ConnectedIsWatched
    FreshHandedOver
    BiasRespected
PROPERTIES
    Reconnects
    NoticesOutage
    WholeWindow
    Resumes
