------------------------------ MODULE MarketReads ------------------------------
(***************************************************************************)
(* What the server answers about a market, and how old that may be: quotes *)
(* (quote.Service), exchange rates (exchangerate.Service) and the detail   *)
(* page of one asset (market.Service), which joins an analysis, the prices *)
(* of the sidecar and a label of the score's rank.                         *)
(* Four caches in the memory of the process stand in between: each is      *)
(* looked at under its mutex, filled outside of it from one or several     *)
(* sources, and written under it again, so that requests overlap.          *)
(*                                                                         *)
(* Time is discrete.  Only an attempt to fetch takes time, and no more     *)
(* than its timeout; a value is the moment at which its source read it.    *)
(***************************************************************************)
EXTENDS Integers, FiniteSets

CONSTANTS
    Workers,      \* requests served at once
    TTL,          \* per cache: 120 s, 60 s, 1 h, 1 h in the code
    Sources,      \* per cache: how many sources are tried, one after the other
    MaxFetch,     \* the longest attempt
    Mixes,        \* the kinds of request sent together: caches, and "detail"
    MaxTime       \* bound: the last moment

Caches == {"quote", "ohlcv", "label", "rates"}

ReadsAssumption ==
    /\ TTL \in [Caches -> Nat] /\ Sources \in [Caches -> Nat \ {0}]
    /\ MaxFetch \in Nat /\ MaxTime \in Nat
    /\ Mixes \subseteq SUBSET (Caches \cup {"detail"})

VARIABLES
    now,
    entry,   \* cache -> what is in it: the value and the moment until which it is served
    newest,  \* cache -> the newest value ever put into it (history)
    req,     \* worker -> the request it serves
    kinds    \* the requests of this behaviour, one of the mixes

vars == <<now, entry, newest, req, kinds>>

Empty == -1
NoRequest ==
    [pc |-> "idle", detail |-> FALSE, cache |-> "quote", source |-> 1, began |-> 0, value |-> Empty,
     old |-> FALSE, age |-> 0]

Init ==
    /\ now = 0
    /\ entry = [k \in Caches |-> [value |-> Empty, till |-> Empty]]
    /\ newest = [k \in Caches |-> Empty]
    /\ req = [w \in Workers |-> NoRequest]
    /\ kinds \in Mixes

Move(w, new) == req' = [req EXCEPT ![w] = new]

-----------------------------------------------------------------------------
(* The caches.                                                             *)

(* A quote is served at the very end of its time, the others are not.      *)
IsFresh(k) ==
    entry[k].value # Empty /\ (now < entry[k].till \/ (k = "quote" /\ now = entry[k].till))

(* A value is given out.  The detail page has its prices then, and goes on *)
(* with the dimensions and the label.                                      *)
Serve(w, r, value) ==
    Move(w, [r EXCEPT !.pc = IF r.detail /\ r.cache = "ohlcv" THEN "dims" ELSE "served",
                      !.age = IF value = Empty THEN 0 ELSE now - value])

CheckCache(w) ==
    LET r == req[w] IN
    /\ r.pc = "check"
    /\ IF IsFresh(r.cache) THEN Serve(w, r, entry[r.cache].value)
       ELSE Move(w, [r EXCEPT !.pc = "fetch", !.source = 1, !.began = now])
    /\ UNCHANGED <<now, entry, newest>>

(* The source reads what it answers with.                                  *)
SourceReads(w) ==
    /\ req[w].pc = "fetch"
    /\ Move(w, [req[w] EXCEPT !.pc = "answer", !.value = now])
    /\ UNCHANGED <<now, entry, newest>>

Later(a, b) == IF a < b THEN b ELSE a

(* An entry is written over whatever has been written in the meantime.     *)
Store(k, value) ==
    /\ entry' = [entry EXCEPT ![k] = [value |-> value, till |-> now + TTL[k]]]
    /\ newest' = [newest EXCEPT ![k] = Later(@, value)]

(* The rates are read once more before they are given out.                 *)
AnswerArrives(w) ==
    LET r == req[w] IN
    /\ r.pc = "answer"
    /\ Store(r.cache, r.value)
    /\ IF r.cache = "rates" THEN Move(w, [r EXCEPT !.pc = "reread"]) ELSE Serve(w, r, r.value)
    /\ UNCHANGED now

\* Mutant: a refresh that fails stamps the rates as well.
AllFail_Stamps(w, r) ==
    \/ /\ r.cache \in {"quote", "ohlcv"} /\ Serve(w, r, Empty)
       /\ UNCHANGED <<entry, newest>>
    \/ /\ r.cache = "label" /\ Store("label", now) /\ Serve(w, r, Empty)
    \/ /\ r.cache = "rates" /\ Move(w, [r EXCEPT !.pc = "reread", !.old = TRUE])
       /\ entry' = [entry EXCEPT !["rates"].till = now + TTL["rates"]]
       /\ UNCHANGED newest

(* Every source has failed.  A quote and the prices are not cached, a      *)
(* missing label is, and the rates are the last that were known.           *)
AllFail(w, r) ==
    \/ /\ r.cache \in {"quote", "ohlcv"} /\ Serve(w, r, Empty)
       /\ UNCHANGED <<entry, newest>>
    \/ /\ r.cache = "label" /\ Store("label", now) /\ Serve(w, r, Empty)
    \/ /\ r.cache = "rates" /\ Move(w, [r EXCEPT !.pc = "reread", !.old = TRUE])
       /\ UNCHANGED <<entry, newest>>

(* An error, a timeout or an unusable answer: the next source is tried.    *)
SourceFails(w) ==
    LET r == req[w] IN
    /\ r.pc \in {"fetch", "answer"}
    /\ IF r.source < Sources[r.cache]
       THEN /\ Move(w, [r EXCEPT !.pc = "fetch", !.source = @ + 1, !.began = now, !.value = Empty])
            /\ UNCHANGED <<entry, newest>>
       ELSE AllFail(w, [r EXCEPT !.value = Empty])
    /\ UNCHANGED now

(* Rates that have never been fetched are those of the yuan alone.         *)
ReadRates(w) ==
    /\ req[w].pc = "reread"
    /\ Serve(w, req[w], entry["rates"].value)
    /\ UNCHANGED <<now, entry, newest>>

-----------------------------------------------------------------------------
(* The requests.                                                           *)

Request(w) ==
    /\ req[w].pc \in {"idle", "served"}
    /\ \E k \in kinds :
         IF k = "detail" THEN Move(w, [NoRequest EXCEPT !.pc = "analysis"])
         ELSE Move(w, [NoRequest EXCEPT !.pc = "check", !.cache = k])
    /\ UNCHANGED <<now, entry, newest>>

(* GetAssetDetail: the latest analysis, if there is one, then the prices,  *)
(* with which a page without an analysis ends.                             *)
ReadAnalysis(w) ==
    /\ req[w].pc = "analysis"
    /\ \E found \in BOOLEAN :
         Move(w, [req[w] EXCEPT !.pc = "check", !.cache = "ohlcv", !.detail = found])
    /\ UNCHANGED <<now, entry, newest>>

(* The dimensions of that analysis; the label is next.                     *)
ReadDimensions(w) ==
    /\ req[w].pc = "dims"
    /\ Move(w, [req[w] EXCEPT !.pc = "check", !.cache = "label"])
    /\ UNCHANGED <<now, entry, newest>>

(* Time passes while nothing but attempts is under way, and none of them   *)
(* beyond its timeout.                                                     *)
Tick ==
    /\ now < MaxTime
    /\ \A w \in Workers :
         \/ req[w].pc \in {"idle", "served"}
         \/ req[w].pc \in {"fetch", "answer"} /\ now < req[w].began + MaxFetch
    /\ now' = now + 1
    /\ UNCHANGED <<entry, newest, req>>

Serving(w) ==
    \/ Request(w) \/ CheckCache(w) \/ SourceReads(w) \/ AnswerArrives(w) \/ SourceFails(w)
    \/ ReadRates(w) \/ ReadAnalysis(w) \/ ReadDimensions(w)

Next ==
    /\ (\E w \in Workers : Serving(w)) \/ Tick
    /\ UNCHANGED kinds

Spec == Init /\ [][Next]_vars

-----------------------------------------------------------------------------
Moments == 0 .. MaxTime
Requests ==
    [pc : {"idle", "check", "fetch", "answer", "reread", "analysis", "dims", "served"},
     detail : BOOLEAN, cache : Caches, source : Nat, began : Moments, value : Moments \cup {Empty},
     old : BOOLEAN, age : Moments]

TypeOK ==
    /\ now \in Moments
    /\ entry \in [Caches -> [value : Moments \cup {Empty}, till : Int]]
    /\ newest \in [Caches -> Moments \cup {Empty}]
    /\ req \in [Workers -> Requests]
    /\ kinds \in Mixes

(* Whatever requests overlap, and in whatever order their answers come     *)
(* back, nobody is given a value older than the time it may be cached and  *)
(* the longest attempt together, unless all sources of the rates failed    *)
(* for that very request.  A detail page is given two: its prices, and its *)
(* label.  A label that an error left blank falls under it too: the blank  *)
(* lasts no longer.                                                        *)
AgeBounded ==
    \A w \in Workers :
        req[w].pc \in {"dims", "served"} /\ ~ req[w].old => req[w].age <= TTL[req[w].cache] + MaxFetch

(* The request that read first may write last, and put an older value in   *)
(* the place of a newer one: older by one attempt at most.                 *)
RegressBounded ==
    \A k \in Caches : entry[k].value # Empty => newest[k] <= entry[k].value + MaxFetch

(* What requests that overlap can do to the caches, taken together.        *)
DataTimely == AgeBounded /\ RegressBounded
=============================================================================
