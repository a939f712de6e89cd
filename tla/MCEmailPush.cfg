SPECIFICATION FairSpec
CONSTANTS
    j1 = j1
    j2 = j2
    zh = zh
    en = en
    None = None
    Locales <- MCLocales
    ashare = ashare
    e1 = e1
    e2 = e2
    Users <- MCUsers
    Jobs <- MCJobs
    Assets <- MCAssets
    AShares <- MCAShares
    Events <- MCEvents
    Holders <- MCHolders
    Locale <- MCLocale
    MaxPushes = 1
    PageSize = 1
    Concurrency = 1
    Mixes <- MCMixes
    MaxTrouble = 1
INVARIANTS
    TypeOK
    PushCap
    MarkedAfterAll
    TriedOnce
PROPERTIES
    EventAlerted
CHECK_DEADLOCK FALSE
