SPECIFICATION Spec
CONSTANTS
    Workers = {w1, w2}
    MaxFaults = 1
    u1 = u1
    u2 = u2
    u3 = u3
    e1 = e1
    e2 = e2
    Users <- MCUsers
    Inviter = Inviter
    Emails <- MCEmails
    InviterEmail = InviterEmail
    Codes = {c1}
    Global = Global
    Nobody = Nobody
    MaxUses = 1
    InitialCodes = 1
    MaxCodes = 2
    MinUnused = 3
    Milestone = 1
    MaxRare = 1
    Holdings = {h1, h2, h3}
    NoHolding = NoHolding
    TradeInputs <- MCTradeInputs
    Positions <- MCPositions
    MaxHoldings = 1
    MaxTrades = 2
    MaxRows = 2
    Analyses = {a1, a2, a3}
    CardRequests = {r1, r2}
    NoCard = NoCard
    TTL <- MCTTL
    Sources <- MCSources
    MaxFetch = 1
    Mixes = {{"quote"}, {"rates"}, {"detail"}}
    MaxTime = 5
    LimitRequests = {q1, q2, q3}
    Limits <- MCLimits
    Window = 3
    MaxLag = 1
    MaxMoment = 6
    Kinds = {"gold_etf", "a_share_industry"}
    Lengths = {10, 60}
    Rsis = {20, 80}
    Percentiles = {0, 30, 90}
    Answers <- MCAnswers
    Ratios = {500}
    LlmPlans = {"staged"}
    Servers = {"server"}
    Releases = {{14, 15}, {14, 20}, {14, 15, 20}}
    StrictUp = {15}
    StrictDown = {15}
    Additive = {20}
    MaxTimes = 2
SYMMETRY Symmetry
INVARIANTS
    TypeOK
    RegistrationsConsistent
    CodeLimits
    HoldingsSound
    ProvidersSound
    GuardExact
    ForksOnlyByOverlap
    DataTimely
    WindowBound
    BoldNeedsValuation
    ShiftNeverShown
    SchemaSound
CHECK_DEADLOCK FALSE
