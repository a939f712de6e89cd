------------------------------ MODULE Requests ------------------------------
(* The requests of the users, which share workers and faults but no rows:  *)
(* registration and login, the portfolio, the access to an LLM, the cards  *)
(* of a holding and the scores on them, what is read about the market, the *)
(* rate limiters, and the migrations that all of them stand on.  Each      *)
(* behaviour is one of the eight.                                          *)
EXTENDS Integers

CONSTANTS
    Workers,        \* requests served at once, and runners of migrations
    MaxFaults,      \* bound: failed statements
    \* registration (InviteRegistration)
    Users, Inviter, Emails, InviterEmail, Codes, Global, Nobody,
    MaxUses, InitialCodes, MaxCodes, MinUnused, Milestone, MaxRare,
    \* portfolio (Portfolio)
    Holdings, NoHolding, TradeInputs, Positions, MaxHoldings, MaxTrades,
    \* llm (LlmAccess)
    MaxRows,
    \* cards (DecisionCards)
    Analyses, CardRequests, NoCard,
    \* market (MarketReads)
    TTL, Sources, MaxFetch, Mixes, MaxTime,
    \* limits (RateLimits)
    LimitRequests, Limits, Window, MaxLag, MaxMoment,
    \* scores (HoldingScores)
    Kinds, Lengths, Rsis, Percentiles, Answers, Ratios, LlmPlans,
    \* migrations (Migrations)
    Servers, Releases, StrictUp, StrictDown, Additive, MaxTimes

VARIABLES
    focus,
    user, used, code, rewards, generated, streak, iReq, lost, rare,
    holding, trades, pReq, calm, pFaults,
    rows, consent, default, lReq, earned, lFaults,
    pc, clock, stamp, prev, lock, table, inFlight, met,
    mNow, entry, newest, mReq, kinds,
    now, limiter, stamps, req, passed,
    kind, enhancer, step, trend, position, catalyst, weights, confidence, rec, card, badge,
    hasTable, recorded, effects, runner, server, doubt, excused

-----------------------------------------------------------------------------
I == INSTANCE InviteRegistration WITH req <- iReq
P == INSTANCE Portfolio WITH req <- pReq, faults <- pFaults
L == INSTANCE LlmAccess WITH req <- lReq, faults <- lFaults
D == INSTANCE DecisionCards WITH Requests <- CardRequests
M == INSTANCE MarketReads WITH now <- mNow, req <- mReq
T == INSTANCE RateLimits WITH Requests <- LimitRequests, MaxTime <- MaxMoment
S == INSTANCE HoldingScores
G == INSTANCE Migrations WITH Runners <- Workers

ASSUME RequestsAssumption ==
    /\ I!InviteAssumption /\ P!PortfolioAssumption /\ L!LlmAssumption /\ D!ConstantsAssumption
    /\ M!ReadsAssumption /\ T!LimitsAssumption /\ S!ScoresAssumption /\ G!MigrationsAssumption

-----------------------------------------------------------------------------
iVars == <<user, used, code, rewards, generated, streak, iReq, lost, rare>>
pVars == <<holding, trades, pReq, calm, pFaults>>
lVars == <<rows, consent, default, lReq, earned, lFaults>>
dVars == <<pc, clock, stamp, prev, lock, table, inFlight, met>>
mVars == <<mNow, entry, newest, mReq, kinds>>
tVars == <<now, limiter, passed, stamps, req>>
sVars == <<kind, enhancer, step, trend, position, catalyst, weights, confidence, rec, card, badge>>
gVars == <<hasTable, recorded, effects, runner, server, doubt, excused>>
vars  == <<focus, iVars, pVars, lVars, dVars, mVars, tVars, sVars, gVars>>

(* The variables of those that do not run hold nothing.                    *)
NoI == user = 0 /\ used = 0 /\ code = 0 /\ rewards = 0 /\ generated = 0 /\ streak = 0 /\ iReq = 0
         /\ lost = 0 /\ rare = 0
NoP == holding = 0 /\ trades = 0 /\ pReq = 0 /\ calm = 0 /\ pFaults = 0
NoL == rows = 0 /\ consent = 0 /\ default = 0 /\ lReq = 0 /\ earned = 0 /\ lFaults = 0
NoD == pc = 0 /\ clock = 0 /\ stamp = 0 /\ prev = 0 /\ lock = 0 /\ table = 0 /\ inFlight = 0 /\ met = 0
NoM == mNow = 0 /\ entry = 0 /\ newest = 0 /\ mReq = 0 /\ kinds = 0
NoT == now = 0 /\ limiter = 0 /\ stamps = 0 /\ req = 0 /\ passed = 0
NoS == kind = 0 /\ enhancer = 0 /\ step = 0 /\ trend = 0 /\ position = 0 /\ catalyst = 0 /\ weights = 0
         /\ confidence = 0 /\ rec = 0 /\ card = 0 /\ badge = 0
NoG == hasTable = 0 /\ recorded = 0 /\ effects = 0 /\ runner = 0 /\ server = 0 /\ doubt = 0 /\ excused = 0

Init ==
    \/ focus = "registration" /\ I!Init /\ NoP /\ NoL /\ NoD /\ NoM /\ NoT /\ NoS /\ NoG
    \/ focus = "portfolio" /\ NoI /\ P!Init /\ NoL /\ NoD /\ NoM /\ NoT /\ NoS /\ NoG
    \/ focus = "llm" /\ NoI /\ NoP /\ L!Init /\ NoD /\ NoM /\ NoT /\ NoS /\ NoG
    \/ focus = "cards" /\ NoI /\ NoP /\ NoL /\ D!Init /\ NoM /\ NoT /\ NoS /\ NoG
    \/ focus = "market" /\ NoI /\ NoP /\ NoL /\ NoD /\ M!Init /\ NoT /\ NoS /\ NoG
    \/ focus = "limits" /\ NoI /\ NoP /\ NoL /\ NoD /\ NoM /\ T!Init /\ NoS /\ NoG
    \/ focus = "scores" /\ NoI /\ NoP /\ NoL /\ NoD /\ NoM /\ NoT /\ S!Init /\ NoG
    \/ focus = "migrations" /\ NoI /\ NoP /\ NoL /\ NoD /\ NoM /\ NoT /\ NoS /\ G!Init

Next ==
    /\ UNCHANGED focus
    /\ \/ focus = "registration" /\ I!Next /\ UNCHANGED <<pVars, lVars, dVars, mVars, tVars, sVars, gVars>>
       \/ focus = "portfolio" /\ P!Next /\ UNCHANGED <<iVars, lVars, dVars, mVars, tVars, sVars, gVars>>
       \/ focus = "llm" /\ L!Next /\ UNCHANGED <<iVars, pVars, dVars, mVars, tVars, sVars, gVars>>
       \/ focus = "cards" /\ D!Next /\ UNCHANGED <<iVars, pVars, lVars, mVars, tVars, sVars, gVars>>
       \/ focus = "market" /\ M!Next /\ UNCHANGED <<iVars, pVars, lVars, dVars, tVars, sVars, gVars>>
       \/ focus = "limits" /\ T!Next /\ UNCHANGED <<iVars, pVars, lVars, dVars, mVars, sVars, gVars>>
       \/ focus = "scores" /\ S!Next /\ UNCHANGED <<iVars, pVars, lVars, dVars, mVars, tVars, gVars>>
       \/ focus = "migrations" /\ G!Next /\ UNCHANGED <<iVars, pVars, lVars, dVars, mVars, tVars, sVars>>

Spec == Init /\ [][Next]_vars

-----------------------------------------------------------------------------
(* The types of the eight.                                                 *)
TypeOK ==
    /\ focus = "registration" => I!TypeOK
    /\ focus = "portfolio" => P!TypeOK
    /\ focus = "llm" => L!TypeOK
    /\ focus = "cards" => D!TypeOK
    /\ focus = "market" => M!TypeOK
    /\ focus = "limits" => T!TypeOK
    /\ focus = "scores" => S!TypeOK
    /\ focus = "migrations" => G!TypeOK

(* A registration with a personal code leaves either all of its rows or    *)
(* none, and no address has two accounts, however registrations, deletions *)
(* and failed statements interleave.                                       *)
RegistrationsConsistent ==
    focus = "registration" => I!PersonalAtomic /\ I!OneAccountPerEmail

(* The limits of the global code and of the codes per user are read before *)
(* they are used: each is exceeded by the requests that overlap, and by no *)
(* more.                                                                   *)
CodeLimits == focus = "registration" => I!CodeLimits

(* The holdings of a user exceed their limit by the requests that overlap, *)
(* and by no more.  Their cost: a trade that nothing disturbs repairs what *)
(* earlier requests left, and the average of trades with the expected      *)
(* signs lies between the prices paid.                                     *)
HoldingsSound == focus = "portfolio" => P!HoldingsBound /\ P!SelfHealing /\ P!CostWithinPrices

(* The LLM of a user: one active configuration, a health that its own      *)
(* calls earned, and the system's provider for those alone who agreed.     *)
ProvidersSound == focus = "llm" => L!OneActive /\ L!HealthEarned /\ L!DefaultAuthorised

(* The guard of the v2 analysis is held exactly while one runs.            *)
GuardExact == focus = "cards" => D!GuardExact

(* Two cards have the same previous card only when an analysis of one of   *)
(* them overlapped with another.                                           *)
ForksOnlyByOverlap == focus = "cards" => D!ForksOnlyByOverlap

(* Whatever requests overlap, a quote, a rate, a price or a label is no    *)
(* older than its cache allows and one attempt more, and no entry falls    *)
(* further back than one attempt.                                          *)
DataTimely == focus = "market" => M!DataTimely

(* In no window a limiter lets more through than its limit; the one of the *)
(* screenshots reads the clock before it takes its mutex, and its window   *)
(* is shorter by the time in between.                                      *)
WindowBound == focus = "limits" => T!WindowBound

(* The two bold recommendations are for a gold fund whose valuation is not *)
(* neutral.                                                                *)
BoldNeedsValuation == focus = "scores" => S!BoldNeedsValuation

(* The badge of a confidence that moved by ten points is never shown.      *)
ShiftNeverShown == focus = "scores" => S!ShiftNeverShown

(* The rows of schema_migrations say what the schema has, and a server     *)
(* that has compared them with its files has the schema of these, but for  *)
(* what a runner left half done, did beside another, or has rolled back    *)
(* since; and only for these reasons are keys shifted twice.               *)
SchemaSound == focus = "migrations" => G!SchemaSound
=============================================================================
