--------------------------- MODULE MarketReadsProofs ---------------------------
(***************************************************************************)
(* That nobody is given a value much older than its cache allows, for any  *)
(* number of requests at once, any caching times and numbers of sources    *)
(* and any timeout of an attempt.  The assumption on the constants is a    *)
(* hypothesis of each statement that needs it.                             *)
(***************************************************************************)
EXTENDS MarketReads, TLAPS

Places == {"idle", "check", "fetch", "answer", "reread", "analysis", "dims", "served"}

Records ==
    [pc : Places, detail : BOOLEAN, cache : Caches, source : Int, began : Int, value : Int,
     old : BOOLEAN, age : Int]

Shape ==
    /\ now \in Int /\ now >= 0
    /\ entry \in [Caches -> [value : Int, till : Int]]
    /\ newest \in [Caches -> Int]
    /\ req \in [Workers -> Records]
    /\ kinds \in Mixes

(* The changes the steps make to a request.                                *)
LEMMA ReadBy ==
    ASSUME NEW r \in Records, NEW value \in Int
    PROVE  LET new == [r EXCEPT !.pc = "answer", !.value = value]
           IN  new \in Records /\ new.pc = "answer" /\ new.began = r.began /\ new.value = value
BY DEF Records, Places

LEMMA Reread ==
    ASSUME NEW r \in Records
    PROVE  LET new == [r EXCEPT !.pc = "reread"]
               old == [r EXCEPT !.pc = "reread", !.old = TRUE]
           IN  /\ new \in Records /\ new.pc = "reread" /\ new.cache = r.cache
               /\ old \in Records /\ old.pc = "reread" /\ old.cache = r.cache /\ old.old
BY DEF Records, Places

LEMMA Voided == ASSUME NEW r \in Records PROVE [r EXCEPT !.value = Empty] \in Records
BY DEF Records, Empty

-----------------------------------------------------------------------------
(* Ages.  An attempt is no older than its timeout; what it has read is no  *)
(* older than the attempt; an entry ends before its value is too old; and  *)
(* while somebody is about to read the rates again, time stands still.     *)

Attempt(r) ==
    /\ r.pc \in {"fetch", "answer"} => 0 <= r.began /\ r.began <= now /\ now <= r.began + MaxFetch
    /\ r.pc = "answer" => r.began <= r.value /\ r.value <= now
    /\ r.pc = "reread" =>
         /\ r.cache = "rates"
         /\ ~ r.old => /\ entry["rates"].value # Empty
                       /\ now <= entry["rates"].value + MaxFetch
    /\ r.pc \in {"dims", "served"} /\ ~ r.old => r.age <= TTL[r.cache] + MaxFetch

Kept(k) ==
    /\ newest[k] <= now
    /\ entry[k].value # Empty =>
         /\ entry[k].value <= now
         /\ entry[k].till <= entry[k].value + MaxFetch + TTL[k]
         /\ newest[k] <= entry[k].value + MaxFetch

Ages ==
    /\ Shape
    /\ \A w \in Workers : Attempt(req[w])
    /\ \A k \in Caches : Kept(k)

(* No request has been made and nothing is cached.                         *)
LEMMA AgesInit == ASSUME ReadsAssumption PROVE Init => Ages
BY DEF ReadsAssumption, Init, Ages, Shape, Attempt, Kept, NoRequest, Records, Places, Caches, Empty

(* A step that changes one request and neither the clock nor a cache.      *)
LEMMA MoveKeepsAges ==
    ASSUME Ages, NEW w \in Workers, NEW new \in Records, Move(w, new), Attempt(new),
           UNCHANGED <<now, entry, newest, kinds>>
    PROVE  Ages'
<1>1. Shape'
  BY DEF Ages, Shape, Move
<1>2. \A v \in Workers : Attempt(req[v])'
  BY DEF Ages, Shape, Move, Attempt
<1>3. \A k \in Caches : Kept(k)'
  BY DEF Ages, Kept
<1> QED BY <1>1, <1>2, <1>3 DEF Ages

(* A step that changes one request and one cache.                          *)
LEMMA StoreKeepsAges ==
    ASSUME ReadsAssumption, Ages, NEW w \in Workers, NEW new \in Records, Move(w, new),
           NEW k \in Caches, NEW value \in Int, value <= now, now <= value + MaxFetch,
           value # Empty, Store(k, value), Attempt(new)', UNCHANGED <<now, kinds>>
    PROVE  Ages'
<1>1. /\ TTL \in [Caches -> Nat] /\ MaxFetch \in Nat
      /\ entry' = [entry EXCEPT ![k] = [value |-> value, till |-> now + TTL[k]]]
      /\ newest' = [newest EXCEPT ![k] = Later(newest[k], value)]
  BY DEF ReadsAssumption, Store
<1>2. Shape'
  <2>1. entry' \in [Caches -> [value : Int, till : Int]]
    BY <1>1 DEF Ages, Shape
  <2>2. newest' \in [Caches -> Int]
    BY <1>1 DEF Ages, Shape, Later
  <2> QED BY <2>1, <2>2 DEF Ages, Shape, Move
<1>3. \A c \in Caches : Kept(c)'
  <2> TAKE c \in Caches
  <2>1. CASE c = k
    BY <2>1, <1>1 DEF Ages, Shape, Kept, Later
  <2>2. CASE c # k
    BY <2>2, <1>1 DEF Ages, Shape, Kept
  <2> QED BY <2>1, <2>2
<1>4. \A v \in Workers : Attempt(req[v])'
  <2> TAKE v \in Workers
  <2>1. CASE v = w
    BY <2>1 DEF Move, Ages, Shape
  <2>2. CASE v # w
    <3>1. req'[v] = req[v] /\ Attempt(req[v])
      BY <2>2 DEF Move, Ages, Shape
    <3>2. entry'["rates"].value = IF k = "rates" THEN value ELSE entry["rates"].value
      BY <1>1 DEF Ages, Shape, Caches
    <3> QED BY <3>1, <3>2 DEF Attempt
  <2> QED BY <2>1, <2>2
<1> QED BY <1>2, <1>3, <1>4 DEF Ages

(* A value that is given out is as young as it has to be.                  *)
LEMMA Served ==
    ASSUME ReadsAssumption, Ages, NEW w \in Workers, NEW r \in Records, NEW value \in Int,
           Serve(w, r, value),
           ~ r.old => value = Empty \/ now - value <= TTL[r.cache] + MaxFetch
    PROVE  \E new \in Records :
              /\ Move(w, new)
              /\ new.pc \in {"dims", "served"}
              /\ ~ new.old => new.age <= TTL[new.cache] + MaxFetch
<1> DEFINE new == [r EXCEPT !.pc = IF r.detail /\ r.cache = "ohlcv" THEN "dims" ELSE "served",
                      !.age = IF value = Empty THEN 0 ELSE now - value]
<1>1. new \in Records /\ new.cache = r.cache /\ new.old = r.old
      /\ new.pc \in {"dims", "served"}
      /\ new.age = IF value = Empty THEN 0 ELSE now - value
  <2>1. now - value \in Int
    BY DEF Ages, Shape
  <2>2. new.pc \in {"dims", "served"} /\ new.age \in Int
        /\ new.age = IF value = Empty THEN 0 ELSE now - value
    BY <2>1 DEF Records
  <2>3. new = [r EXCEPT !.pc = new.pc, !.age = new.age]
    BY DEF Records
  <2> HIDE DEF new
  <2> QED BY <2>2, <2>3 DEF Records, Places
<1>2. TTL[r.cache] \in Nat /\ MaxFetch \in Nat
  BY DEF ReadsAssumption, Records
<1>3. Move(w, new)
  BY DEF Serve
<1> HIDE DEF new
<1> QED BY <1>1, <1>2, <1>3

LEMMA ServeKeepsAges ==
    ASSUME ReadsAssumption, Ages, NEW w \in Workers, NEW r \in Records, NEW value \in Int,
           Serve(w, r, value), UNCHANGED <<now, entry, newest, kinds>>,
           ~ r.old => value = Empty \/ now - value <= TTL[r.cache] + MaxFetch
    PROVE  Ages'
<1>1. PICK new \in Records : /\ Move(w, new)
                             /\ new.pc \in {"dims", "served"}
                             /\ ~ new.old => new.age <= TTL[new.cache] + MaxFetch
  BY Served
<1>2. Attempt(new)
  BY <1>1 DEF Attempt
<1> QED BY <1>1, <1>2, MoveKeepsAges

LEMMA StoreServeKeepsAges ==
    ASSUME ReadsAssumption, Ages, NEW w \in Workers, NEW r \in Records, NEW value \in Int,
           NEW k \in Caches, NEW kept \in Int, kept <= now, now <= kept + MaxFetch, kept # Empty,
           Store(k, kept), Serve(w, r, value), UNCHANGED <<now, kinds>>,
           ~ r.old => value = Empty \/ now - value <= TTL[r.cache] + MaxFetch
    PROVE  Ages'
<1>1. PICK new \in Records : /\ Move(w, new)
                             /\ new.pc \in {"dims", "served"}
                             /\ ~ new.old => new.age <= TTL[new.cache] + MaxFetch
  BY Served
<1>2. Attempt(new)'
  BY <1>1 DEF Attempt
<1> QED BY <1>1, <1>2, StoreKeepsAges

-----------------------------------------------------------------------------
(* The steps.                                                              *)

LEMMA CheckCacheKeepsAges ==
    ASSUME ReadsAssumption, Ages, NEW w \in Workers, CheckCache(w), UNCHANGED kinds
    PROVE  Ages'
<1> DEFINE r == req[w]
<1>1. r \in Records /\ r.cache \in Caches /\ r.pc = "check"
  BY DEF Ages, Shape, CheckCache, Records
<1>2. TTL[r.cache] \in Nat /\ MaxFetch \in Nat /\ Kept(r.cache) /\ now \in Int
      /\ entry[r.cache].value \in Int /\ entry[r.cache].till \in Int
  BY <1>1 DEF ReadsAssumption, Ages, Shape
<1>5. now >= 0
  BY DEF Ages, Shape
<1>3. CASE IsFresh(r.cache)
  <2>1. now - entry[r.cache].value <= TTL[r.cache] + MaxFetch
    BY <1>2, <1>3 DEF IsFresh, Kept
  <2>2. Serve(w, r, entry[r.cache].value) /\ UNCHANGED <<now, entry, newest, kinds>>
    BY <1>3 DEF CheckCache
  <2> HIDE DEF r
  <2> QED BY <1>1, <1>2, <2>1, <2>2, ServeKeepsAges
<1>4. CASE ~ IsFresh(r.cache)
  <2>1. PICK new : new = [r EXCEPT !.pc = "fetch", !.source = 1, !.began = now]
    OBVIOUS
  <2>2. Move(w, new) /\ UNCHANGED <<now, entry, newest, kinds>>
    BY <1>4, <2>1 DEF CheckCache
  <2> HIDE DEF r
  <2>3. /\ new.pc = "fetch" /\ new.began = now /\ new.source = 1 /\ new.value = r.value
        /\ new.cache = r.cache /\ new.old = r.old /\ new.age = r.age /\ new.detail = r.detail
    BY <1>1, <2>1 DEF Records
  <2>4. new \in Records
    <3>1. now \in Int /\ 1 \in Int
      BY <1>2
    <3> QED BY <1>1, <2>1, <2>3, <3>1 DEF Records, Places
  <2>5. Attempt(new)
    BY <2>3, <1>2, <1>5 DEF Attempt
  <2> QED BY <2>2, <2>4, <2>5, MoveKeepsAges
<1> QED BY <1>3, <1>4

LEMMA SourceReadsKeepsAges ==
    ASSUME ReadsAssumption, Ages, NEW w \in Workers, SourceReads(w), UNCHANGED kinds
    PROVE  Ages'
<1> DEFINE new == [req[w] EXCEPT !.pc = "answer", !.value = now]
<1>1. req[w] \in Records /\ req[w].pc = "fetch" /\ Attempt(req[w]) /\ now \in Int
  BY DEF Ages, Shape, SourceReads
<1>5. req[w].began \in Int /\ MaxFetch \in Nat
  BY <1>1 DEF Records, ReadsAssumption
<1>2. new \in Records /\ new.pc = "answer" /\ new.began = req[w].began /\ new.value = now
  BY <1>1, ReadBy
<1>3. Attempt(new)
  <2> HIDE DEF new
  <2> QED BY <1>1, <1>2, <1>5 DEF Attempt
<1>4. Move(w, new) /\ UNCHANGED <<now, entry, newest, kinds>>
  BY DEF SourceReads
<1> HIDE DEF new
<1> QED BY <1>2, <1>3, <1>4, MoveKeepsAges

LEMMA AnswerArrivesKeepsAges ==
    ASSUME ReadsAssumption, Ages, NEW w \in Workers, AnswerArrives(w), UNCHANGED kinds
    PROVE  Ages'
<1> PICK r : r = req[w]
  OBVIOUS
<1>1. /\ r \in Records /\ r.cache \in Caches /\ r.value \in Int /\ r.began \in Int
      /\ r.pc = "answer" /\ Attempt(r) /\ now \in Int
  BY DEF Ages, Shape, AnswerArrives, Records
<1>2. TTL[r.cache] \in Nat /\ MaxFetch \in Nat
  BY <1>1 DEF ReadsAssumption
<1>3. r.value <= now /\ now <= r.value + MaxFetch
  BY <1>1, <1>2 DEF Attempt
<1>4. Store(r.cache, r.value) /\ UNCHANGED <<now, kinds>>
  BY DEF AnswerArrives
<1>5. r.value # Empty
  BY <1>1 DEF Attempt, Empty
<1>6. CASE r.cache = "rates"
  <2> PICK new : new = [r EXCEPT !.pc = "reread"]
    OBVIOUS
  <2>1. new \in Records /\ new.pc = "reread" /\ new.cache = "rates"
    BY <1>1, <1>6, Reread
  <2>2. entry'["rates"].value = r.value
    BY <1>4, <1>6 DEF Store, Ages, Shape, Caches
  <2>3. Attempt(new)'
    <3>1. now' = now
      BY <1>4
    <3> QED BY <2>1, <2>2, <1>3, <1>5, <3>1 DEF Attempt
  <2>4. Move(w, new)
    BY <1>6 DEF AnswerArrives
  <2> QED BY <1>1, <1>3, <1>4, <1>5, <2>1, <2>3, <2>4, StoreKeepsAges
<1>7. CASE r.cache # "rates"
  <2>1. Serve(w, r, r.value)
    BY <1>7 DEF AnswerArrives
  <2>2. now - r.value <= TTL[r.cache] + MaxFetch
    BY <1>1, <1>2, <1>3
  <2> QED BY <1>1, <1>3, <1>4, <1>5, <2>1, <2>2, StoreServeKeepsAges
<1> QED BY <1>6, <1>7

LEMMA AllFailKeepsAges ==
    ASSUME ReadsAssumption, Ages, NEW w \in Workers, NEW r \in Records,
           AllFail(w, r), UNCHANGED <<now, kinds>>
    PROVE  Ages'
<1>1. Empty \in Int /\ now \in Int /\ now >= 0 /\ now # Empty /\ MaxFetch \in Nat
  BY DEF Empty, Ages, Shape, ReadsAssumption
<1>2. CASE r.cache \in {"quote", "ohlcv"} /\ Serve(w, r, Empty) /\ UNCHANGED <<entry, newest>>
  BY <1>1, <1>2, ServeKeepsAges
<1>3. CASE r.cache = "label" /\ Store("label", now) /\ Serve(w, r, Empty)
  <2>1. "label" \in Caches /\ now <= now + MaxFetch
    BY <1>1 DEF Caches
  <2> QED BY <1>1, <1>3, <2>1, StoreServeKeepsAges
<1>4. CASE /\ r.cache = "rates" /\ Move(w, [r EXCEPT !.pc = "reread", !.old = TRUE])
           /\ UNCHANGED <<entry, newest>>
  <2> DEFINE new == [r EXCEPT !.pc = "reread", !.old = TRUE]
  <2>1. new \in Records /\ new.pc = "reread" /\ new.cache = "rates" /\ new.old
    BY <1>4, Reread
  <2>2. Attempt(new)
    BY <2>1 DEF Attempt
  <2>3. Move(w, new)
    BY <1>4
  <2> HIDE DEF new
  <2> QED BY <1>4, <2>1, <2>2, <2>3, MoveKeepsAges
<1> QED BY <1>2, <1>3, <1>4 DEF AllFail

LEMMA SourceFailsKeepsAges ==
    ASSUME ReadsAssumption, Ages, NEW w \in Workers, SourceFails(w), UNCHANGED kinds
    PROVE  Ages'
<1>1. req[w] \in Records /\ now \in Int /\ now >= 0 /\ MaxFetch \in Nat /\ Empty \in Int
  BY DEF Ages, Shape, ReadsAssumption, Empty
<1>2. CASE req[w].source < Sources[req[w].cache]
  <2> DEFINE r == req[w]
  <2>1. PICK new : new = [r EXCEPT !.pc = "fetch", !.source = @ + 1, !.began = now, !.value = Empty]
    OBVIOUS
  <2>2. Move(w, new) /\ UNCHANGED <<now, entry, newest, kinds>>
    BY <1>2, <2>1 DEF SourceFails
  <2>3. r \in Records /\ r.source + 1 \in Int
    BY <1>1 DEF Records
  <2> HIDE DEF r
  <2>4. /\ new.pc = "fetch" /\ new.began = now /\ new.source = r.source + 1 /\ new.value = Empty
        /\ new.cache = r.cache /\ new.old = r.old /\ new.age = r.age /\ new.detail = r.detail
    BY <2>1, <2>3 DEF Records
  <2>5. new \in Records
    BY <1>1, <2>1, <2>3, <2>4 DEF Records, Places
  <2>6. Attempt(new)
    BY <2>4, <1>1 DEF Attempt
  <2> QED BY <2>2, <2>5, <2>6, MoveKeepsAges
<1>3. CASE ~ (req[w].source < Sources[req[w].cache])
  <2>1. [req[w] EXCEPT !.value = Empty] \in Records
    BY <1>1, Voided
  <2>2. AllFail(w, [req[w] EXCEPT !.value = Empty]) /\ UNCHANGED <<now, kinds>>
    BY <1>3 DEF SourceFails
  <2> QED BY <2>1, <2>2, AllFailKeepsAges
<1> QED BY <1>2, <1>3

LEMMA ReadRatesKeepsAges ==
    ASSUME ReadsAssumption, Ages, NEW w \in Workers, ReadRates(w), UNCHANGED kinds
    PROVE  Ages'
<1>1. /\ req[w] \in Records /\ req[w].pc = "reread" /\ Attempt(req[w])
      /\ entry["rates"].value \in Int /\ now \in Int
      /\ TTL["rates"] \in Nat /\ MaxFetch \in Nat
  BY DEF Ages, Shape, ReadRates, ReadsAssumption, Caches
<1>2. ~ req[w].old => now - entry["rates"].value <= TTL[req[w].cache] + MaxFetch
  BY <1>1 DEF Attempt
<1> QED BY <1>1, <1>2, ServeKeepsAges DEF ReadRates

(* The steps of a request that touch no cache.                             *)
LEMMA RequestKeepsAges ==
    ASSUME ReadsAssumption, Ages, NEW w \in Workers, Request(w), UNCHANGED kinds
    PROVE  Ages'
<1>1. PICK k \in kinds :
         IF k = "detail" THEN Move(w, [NoRequest EXCEPT !.pc = "analysis"])
         ELSE Move(w, [NoRequest EXCEPT !.pc = "check", !.cache = k])
  BY DEF Request
<1>2. k \in Caches \cup {"detail"}
  BY DEF Ages, Shape, ReadsAssumption
<1>3. PICK new : /\ new = IF k = "detail" THEN [NoRequest EXCEPT !.pc = "analysis"]
                          ELSE [NoRequest EXCEPT !.pc = "check", !.cache = k]
                 /\ Move(w, new)
  BY <1>1
<1>4. new \in Records /\ new.pc \in {"analysis", "check"}
  <2>1. NoRequest \in Records
    BY DEF NoRequest, Records, Places, Caches, Empty
  <2>2. CASE k = "detail"
    BY <1>3, <2>1, <2>2 DEF Records, Places
  <2>3. CASE k # "detail"
    BY <1>2, <1>3, <2>1, <2>3 DEF Records, Places
  <2> QED BY <2>2, <2>3
<1>5. Attempt(new)
  BY <1>4 DEF Attempt
<1> QED BY <1>3, <1>4, <1>5, MoveKeepsAges DEF Request

LEMMA ReadAnalysisKeepsAges ==
    ASSUME ReadsAssumption, Ages, NEW w \in Workers, ReadAnalysis(w), UNCHANGED kinds
    PROVE  Ages'
<1>1. PICK found \in BOOLEAN :
         Move(w, [req[w] EXCEPT !.pc = "check", !.cache = "ohlcv", !.detail = found])
  BY DEF ReadAnalysis
<1>2. PICK new : new = [req[w] EXCEPT !.pc = "check", !.cache = "ohlcv", !.detail = found]
  OBVIOUS
<1>3. req[w] \in Records
  BY DEF Ages, Shape
<1>4. new \in Records /\ new.pc = "check"
  BY <1>2, <1>3 DEF Records, Places, Caches
<1>5. Attempt(new)
  BY <1>4 DEF Attempt
<1> QED BY <1>1, <1>2, <1>4, <1>5, MoveKeepsAges DEF ReadAnalysis

LEMMA ReadDimensionsKeepsAges ==
    ASSUME ReadsAssumption, Ages, NEW w \in Workers, ReadDimensions(w), UNCHANGED kinds
    PROVE  Ages'
<1>1. PICK new : new = [req[w] EXCEPT !.pc = "check", !.cache = "label"]
  OBVIOUS
<1>2. req[w] \in Records
  BY DEF Ages, Shape
<1>3. new \in Records /\ new.pc = "check"
  BY <1>1, <1>2 DEF Records, Places, Caches
<1>4. Attempt(new)
  BY <1>3 DEF Attempt
<1> QED BY <1>1, <1>3, <1>4, MoveKeepsAges DEF ReadDimensions

(* Time passes only where every attempt under way may still last.          *)
LEMMA TickKeepsAges ==
    ASSUME ReadsAssumption, Ages, Tick, UNCHANGED kinds
    PROVE  Ages'
<1>1. /\ now \in Int /\ now >= 0 /\ now' = now + 1 /\ MaxFetch \in Nat
      /\ UNCHANGED <<entry, newest, req, kinds>>
  BY DEF Ages, Shape, Tick, ReadsAssumption
<1>2. Shape'
  BY <1>1 DEF Ages, Shape
<1>3. \A k \in Caches : Kept(k)'
  BY <1>1 DEF Ages, Shape, Kept
<1>4. \A w \in Workers : Attempt(req[w])'
  <2> TAKE w \in Workers
  <2>1. req[w] \in Records /\ Attempt(req[w]) /\ req' = req
    BY <1>1 DEF Ages, Shape
  <2>2. \/ req[w].pc \in {"idle", "served"}
        \/ req[w].pc \in {"fetch", "answer"} /\ now < req[w].began + MaxFetch
    BY DEF Tick
  <2>3. req[w].began \in Int /\ req[w].value \in Int
    BY <2>1 DEF Records
  <2> QED BY <1>1, <2>1, <2>2, <2>3 DEF Attempt
<1> QED BY <1>2, <1>3, <1>4 DEF Ages

LEMMA AgesStep ==
    ASSUME ReadsAssumption, Ages, [Next]_vars
    PROVE  Ages'
<1>1. CASE UNCHANGED vars
  BY <1>1 DEF vars, Ages, Shape, Kept, Attempt
<1>2. ASSUME NEW w \in Workers, Serving(w), UNCHANGED kinds PROVE Ages'
  BY <1>2, RequestKeepsAges, CheckCacheKeepsAges, SourceReadsKeepsAges, AnswerArrivesKeepsAges,
     SourceFailsKeepsAges, ReadRatesKeepsAges, ReadAnalysisKeepsAges, ReadDimensionsKeepsAges
     DEF Serving
<1> QED BY <1>1, <1>2, TickKeepsAges DEF Next

LEMMA DataTimelyIs == ASSUME Ages PROVE DataTimely
BY DEF Ages, Attempt, Kept, DataTimely, AgeBounded, RegressBounded

(* Whatever requests overlap, nobody is given a value older than its       *)
(* caching time and the longest attempt together, and no entry is more     *)
(* than one attempt behind the newest that was there.                      *)
THEOREM NoStaleData == ReadsAssumption => (Spec => []DataTimely)
<1> SUFFICES ASSUME ReadsAssumption PROVE Spec => []DataTimely
  OBVIOUS
<1>1. Init => Ages
  BY AgesInit
<1>2. Ages /\ [Next]_vars => Ages'
  BY AgesStep
<1>3. Ages => DataTimely
  BY DataTimelyIs
<1> QED BY <1>1, <1>2, <1>3, PTL DEF Spec

-----------------------------------------------------------------------------
(* Types.  The ages of the invariant keep every moment between the start   *)
(* and the bound of the clock.                                             *)

Entries == [Caches -> [value : Moments \cup {Empty}, till : Int]]

LEMMA TypesInit == ASSUME ReadsAssumption, Init PROVE TypeOK
BY DEF ReadsAssumption, Init, TypeOK, NoRequest, Requests, Moments, Caches, Empty

LEMMA MoveKeepsTypes ==
    ASSUME TypeOK, NEW w \in Workers, NEW new \in Requests, Move(w, new),
           entry' \in Entries, newest' \in [Caches -> Moments \cup {Empty}],
           UNCHANGED <<now, kinds>>
    PROVE  TypeOK'
BY DEF TypeOK, Move, Entries, Moments, Requests

LEMMA ServeKeepsTypes ==
    ASSUME ReadsAssumption, TypeOK, NEW w \in Workers, NEW r \in Requests,
           NEW value \in Moments \cup {Empty}, value <= now, Serve(w, r, value),
           entry' \in Entries, newest' \in [Caches -> Moments \cup {Empty}],
           UNCHANGED <<now, kinds>>
    PROVE  TypeOK'
<1>1. PICK place : place = IF r.detail /\ r.cache = "ohlcv" THEN "dims" ELSE "served"
  OBVIOUS
<1>2. PICK age : age = IF value = Empty THEN 0 ELSE now - value
  OBVIOUS
<1>3. age \in Moments
  BY <1>2 DEF ReadsAssumption, TypeOK, Moments, Empty
<1>4. PICK new : new = [r EXCEPT !.pc = place, !.age = age]
  OBVIOUS
<1>5. new \in Requests
  BY <1>1, <1>3, <1>4 DEF Requests
<1>6. Move(w, new)
  BY <1>1, <1>2, <1>4 DEF Serve
<1> QED BY <1>5, <1>6, MoveKeepsTypes

LEMMA StoreKeepsTypes ==
    ASSUME ReadsAssumption, TypeOK, NEW k \in Caches, NEW value \in Moments, Store(k, value)
    PROVE  entry' \in Entries /\ newest' \in [Caches -> Moments \cup {Empty}]
<1>1. now \in Moments /\ TTL[k] \in Nat
  BY DEF TypeOK, ReadsAssumption
<1>2. now + TTL[k] \in Int
  BY <1>1 DEF Moments
<1> QED BY <1>1, <1>2 DEF Store, TypeOK, Entries, Later

LEMMA TypesStep ==
    ASSUME ReadsAssumption, Ages, TypeOK, [Next]_vars
    PROVE  TypeOK'
<1>0. /\ entry \in Entries /\ newest \in [Caches -> Moments \cup {Empty}] /\ now \in Moments
      /\ MaxTime \in Nat /\ kinds \in Mixes
      /\ req \in [Workers -> Requests]
  BY DEF TypeOK, Entries, ReadsAssumption
<1>1. ASSUME NEW w \in Workers, Serving(w), UNCHANGED kinds PROVE TypeOK'
  <2>1. req[w] \in Requests /\ Attempt(req[w]) /\ req[w].cache \in Caches
    BY <1>0 DEF Ages, Requests
  <2>2. CASE Request(w)
    <3>1. \A k \in kinds : /\ [NoRequest EXCEPT !.pc = "analysis"] \in Requests
                           /\ k # "detail" => [NoRequest EXCEPT !.pc = "check", !.cache = k] \in Requests
      <4>1. NoRequest \in Requests
        BY <1>0 DEF NoRequest, Requests, Caches, Empty, Moments
      <4>2. \A k \in kinds : k # "detail" => k \in Caches
        BY <1>0 DEF ReadsAssumption
      <4> QED BY <4>1, <4>2 DEF Requests
    <3> QED BY <1>0, <1>1, <2>2, <3>1, MoveKeepsTypes DEF Request
  <2>3. CASE CheckCache(w)
    <3>1. ASSUME IsFresh(req[w].cache), Serve(w, req[w], entry[req[w].cache].value) PROVE TypeOK'
      <4>1. entry[req[w].cache].value \in Moments \cup {Empty} /\ entry[req[w].cache].value <= now
        BY <1>0, <2>1, <3>1 DEF Ages, Kept, Entries, IsFresh
      <4> QED BY <1>0, <1>1, <2>1, <2>3, <3>1, <4>1, ServeKeepsTypes DEF CheckCache
    <3>2. [req[w] EXCEPT !.pc = "fetch", !.source = 1, !.began = now] \in Requests
      BY <1>0, <2>1 DEF Requests
    <3> QED BY <1>0, <1>1, <2>3, <3>1, <3>2, MoveKeepsTypes DEF CheckCache
  <2>4. CASE SourceReads(w)
    <3>1. [req[w] EXCEPT !.pc = "answer", !.value = now] \in Requests
      BY <1>0, <2>1 DEF Requests
    <3> QED BY <1>0, <1>1, <2>4, <3>1, MoveKeepsTypes DEF SourceReads
  <2>5. CASE AnswerArrives(w)
    <3>1. req[w].value \in Moments /\ req[w].value <= now
      BY <1>0, <2>1, <2>5 DEF AnswerArrives, Attempt, Requests, Moments, Empty
    <3>2. entry' \in Entries /\ newest' \in [Caches -> Moments \cup {Empty}]
      BY <2>1, <2>5, <3>1, StoreKeepsTypes DEF AnswerArrives
    <3>3. [req[w] EXCEPT !.pc = "reread"] \in Requests
      BY <2>1 DEF Requests
    <3>4. CASE Serve(w, req[w], req[w].value)
      BY <1>1, <2>1, <2>5, <3>1, <3>2, <3>4, ServeKeepsTypes DEF AnswerArrives
    <3> QED BY <1>1, <2>5, <3>2, <3>3, <3>4, MoveKeepsTypes DEF AnswerArrives
  <2>6. CASE SourceFails(w)
    <3>1. [req[w] EXCEPT !.pc = "fetch", !.source = @ + 1, !.began = now, !.value = Empty] \in Requests
      <4>1. PICK n : n = req[w].source + 1
        OBVIOUS
      <4>2. n \in Nat /\ Empty \in Moments \cup {Empty}
        BY <2>1, <4>1 DEF Requests
      <4> QED BY <1>0, <2>1, <4>1, <4>2 DEF Requests
    <3>2. PICK q : q = [req[w] EXCEPT !.value = Empty]
      OBVIOUS
    <3>3. q \in Requests /\ q.cache = req[w].cache
      BY <2>1, <3>2 DEF Requests, Empty
    <3>4. UNCHANGED now /\ Empty <= now /\ Empty \in Moments \cup {Empty} /\ now \in Moments
      BY <1>0, <2>6 DEF SourceFails, Empty, Moments
    <3>5. ASSUME AllFail(w, q) PROVE TypeOK'
      <4>1. CASE Serve(w, q, Empty) /\ UNCHANGED <<entry, newest>>
        BY <1>0, <1>1, <3>3, <3>4, <4>1, ServeKeepsTypes
      <4>2. CASE Store("label", now) /\ Serve(w, q, Empty)
        <5>1. entry' \in Entries /\ newest' \in [Caches -> Moments \cup {Empty}]
          BY <3>4, <4>2, StoreKeepsTypes DEF Caches
        <5> QED BY <1>1, <3>3, <3>4, <4>2, <5>1, ServeKeepsTypes
      <4>3. CASE Move(w, [q EXCEPT !.pc = "reread", !.old = TRUE]) /\ UNCHANGED <<entry, newest>>
        <5>1. [q EXCEPT !.pc = "reread", !.old = TRUE] \in Requests
          BY <3>3 DEF Requests
        <5> QED BY <1>0, <1>1, <3>4, <4>3, <5>1, MoveKeepsTypes
      <4> QED BY <3>5, <4>1, <4>2, <4>3 DEF AllFail
    <3> QED BY <1>0, <1>1, <2>6, <3>1, <3>2, <3>4, <3>5, MoveKeepsTypes DEF SourceFails
  <2>7. CASE ReadRates(w)
    <3>1. entry["rates"].value \in Moments \cup {Empty} /\ entry["rates"].value <= now
      BY <1>0 DEF Ages, Kept, Entries, Caches, Empty, Moments
    <3> QED BY <1>0, <1>1, <2>1, <2>7, <3>1, ServeKeepsTypes DEF ReadRates
  <2>8. CASE ReadAnalysis(w)
    <3>1. \A found \in BOOLEAN :
             [req[w] EXCEPT !.pc = "check", !.cache = "ohlcv", !.detail = found] \in Requests
      BY <1>0, <2>1 DEF Requests, Caches
    <3> QED BY <1>0, <1>1, <2>8, <3>1, MoveKeepsTypes DEF ReadAnalysis
  <2>9. CASE ReadDimensions(w)
    <3>1. [req[w] EXCEPT !.pc = "check", !.cache = "label"] \in Requests
      BY <1>0, <2>1 DEF Requests, Caches
    <3> QED BY <1>0, <1>1, <2>9, <3>1, MoveKeepsTypes DEF ReadDimensions
  <2> QED BY <1>1, <2>2, <2>3, <2>4, <2>5, <2>6, <2>7, <2>8, <2>9 DEF Serving
<1>2. CASE Tick /\ UNCHANGED kinds
  BY <1>0, <1>2 DEF Tick, TypeOK, Moments
<1>3. CASE UNCHANGED vars
  BY <1>3 DEF vars, TypeOK, Moments
<1> QED BY <1>1, <1>2, <1>3 DEF Next

(* All variables keep their types: the clock and what is stamped with it   *)
(* stay within the bound, and no age is negative.                          *)
THEOREM ReadsTyped == ReadsAssumption => (Spec => []TypeOK)
<1> SUFFICES ASSUME ReadsAssumption PROVE Spec => []TypeOK
  OBVIOUS
<1>1. Init => Ages /\ TypeOK
  BY AgesInit, TypesInit
<1>2. Ages /\ TypeOK /\ [Next]_vars => Ages' /\ TypeOK'
  BY AgesStep, TypesStep
<1> QED BY <1>1, <1>2, PTL DEF Spec
=============================================================================
