------------------------------ MODULE EmailPush ------------------------------
(***************************************************************************)
(* The version 2 cron entries that send e-mail: the score change alert of  *)
(* the daily analysis (22:00 UTC), the holding suggestions (23:30), the    *)
(* briefing and the weekly insight (00:30), the A-share closing alert      *)
(* (07:30) and the hourly poll of the event alerts; and emailpush.Service, *)
(* which pages through the users, counts what each has been sent today,    *)
(* writes the log row and then sends.                                      *)
(*                                                                         *)
(* A cron entry fires in a goroutine of its own.  One action is one call   *)
(* of the database or of the SMTP server, so that two entries interleave   *)
(* wherever the code lets them.  Contents of mails are left out; an asset  *)
(* is known by the size of its last score change, an event by whether its  *)
(* row in rs_event_alerts is marked.                                       *)
(***************************************************************************)
EXTENDS Integers, FiniteSets

CONSTANTS
    Users,        \* user ids: numbers, for the pages are cut by id
    Jobs,         \* the goroutines that may run at once
    Assets,       \* assets of the catalogue
    AShares,      \* those with a six-digit code
    Events,       \* rows of rs_event_alerts
    Holders,      \* the users with a holding; one holding each
    Locales,      \* the languages: zh and en
    Locale,       \* the language of each user
    None,         \* no item
    MaxPushes,    \* maxPushesPerDay
    PageSize,     \* userPageSize, and batchSize of SendBatch
    Concurrency,  \* holdingAnalysisConcurrency
    Mixes,        \* the sets of cron entries a behaviour runs with
    MaxTrouble    \* how many changes, faults and crashes the environment makes

Kinds == {"score", "close", "poll", "briefing", "weekly", "holding"}

ASSUME PushAssumption ==
    /\ Users \subseteq Nat \ {0} /\ IsFiniteSet(Users)
    /\ IsFiniteSet(Jobs) /\ Jobs # {}
    /\ AShares \subseteq Assets
    /\ Holders \subseteq Users
    /\ MaxPushes \in Nat \ {0}
    /\ PageSize \in Nat \ {0}
    /\ Concurrency \in Nat \ {0}
    /\ Mixes \subseteq SUBSET Kinds
    /\ None \notin Events

(* The times of the cron entries in a UTC day; the poll is due at each.    *)
Slots == <<"00:30", "07:30", "22:00", "23:30">>
Due(k, s) ==
    \/ k \in {"briefing", "weekly"} /\ s = 1
    \/ k = "close"   /\ s = 2
    \/ k = "score"   /\ s = 3
    \/ k = "holding" /\ s = 4
    \/ k = "poll"

VARIABLES
    slot,      \* the current time of the day
    fired,     \* entries that have fired, or been missed, at this time
    entries,   \* the entries this behaviour runs with
    enabled,   \* users with email_push_enabled who are not deleted
    change,    \* asset -> size of the last persisted score change: 0, 5 or 10
    events,    \* event -> "none", "unalerted" or "alerted"
    rows,      \* user -> log rows that pushes wrote today
    v1rows,    \* user -> log rows that the version 1 digests wrote today
    tracker,   \* dailyAlertedTracker: assets alerted this UTC day
    queue,     \* users runDailyHoldingAnalysis has not started yet
    job,       \* the goroutines
    offered,   \* event -> users its alert has been tried for      (history)
    steady,    \* event -> users enabled ever since its detection  (history)
    missed,    \* event -> users behind the break of a page        (history)
    again,     \* events tried twice for a user                    (history)
    redo,      \* events a fault or an overlap let be tried again  (history)
    trouble

table   == <<enabled, change, events, rows, v1rows>>
history == <<offered, steady, missed, again, redo>>
vars == <<slot, fired, entries, table, tracker, queue, job, history, trouble>>

(* The environment strikes once more. *)
Disturbed == trouble < MaxTrouble /\ trouble' = trouble + 1

Idle == [kind |-> "none", items |-> {}, cur |-> None, done |-> {}, pc |-> "idle",
         after |-> 0, page |-> {}, last |-> FALSE, user |-> 0]

Running(k) == \E j \in Jobs : job[j].kind = k
Holds(j, e) ==
    /\ job[j].kind = "poll"
    /\ e \in job[j].items \cup job[j].done \cup {job[j].cur}
Least(S) == CHOOSE x \in S : \A y \in S : x <= y
Greatest(S) == CHOOSE x \in S : \A y \in S : x >= y

Init ==
    /\ slot = 1
    /\ entries \in Mixes
    /\ fired = {}
    /\ enabled = Users
    /\ change = [a \in Assets |-> 0]
    /\ events = [e \in Events |-> "none"]
    /\ rows = [u \in Users |-> 0]
    /\ v1rows = [u \in Users |-> 0]
    /\ tracker = {}
    /\ queue = {}
    /\ job = [j \in Jobs |-> Idle]
    /\ offered = [e \in Events |-> {}]
    /\ steady = [e \in Events |-> {}]
    /\ missed = [e \in Events |-> {}]
    /\ again = {} /\ redo = {}
    /\ trouble = 0

-----------------------------------------------------------------------------
(* What the repositories return.                                           *)

FirstPage(S) == {u \in S : Cardinality({v \in S : v < u}) < PageSize}

ListEmailPushEnabled(after) == FirstPage({u \in enabled : u > after})

ListEmailPushEnabledByLocale(l, after) ==
    FirstPage({u \in enabled : u > after /\ Locale[u] = l})

(* Every row of the e-mail channel counts, a version 1 digest too.         *)
CountTodayByUser(u) == rows[u] + v1rows[u]

\* Mutant: the query without its WHERE.
GetUnalerted_All == {e \in Events : events[e] # "none"}

GetUnalerted == {e \in Events : events[e] = "unalerted"}

GetLatestByAssetCodes(codes, threshold) == {a \in codes : change[a] >= threshold}

ListUsersWithHoldings == Holders

(* A list as its rows.Next() loop returns it.  No repository asks for the  *)
(* error that ended the loop, so a connection lost in the middle gives a   *)
(* shorter list and no error; lost before it, the entry has nothing to do. *)
Listed(whole, list) ==
    \/ list = whole /\ UNCHANGED trouble
    \/ list \in SUBSET whole /\ list # whole /\ Disturbed

-----------------------------------------------------------------------------
(* The cron entries.                                                       *)

Start(j, k, items, pc) ==
    /\ k \in entries \ fired /\ Due(k, slot)
    /\ job[j] = Idle
    /\ fired' = fired \cup {k}
    /\ job' = [job EXCEPT ![j] = [Idle EXCEPT !.kind = k, !.items = items, !.pc = pc]]
    /\ UNCHANGED <<slot, entries, table, tracker, queue, offered, steady, missed, again>>

(* 22:00, under its mutex: the batch is triggered and the analyses that    *)
(* are persisted now are looked at, not those the batch will produce.      *)
StartScoreAlert(j) ==
    /\ ~ Running("score")
    /\ \E list \in SUBSET Assets :
         /\ Listed(GetLatestByAssetCodes(Assets, 10), list)
         /\ Start(j, "score", list, "pick")
    /\ UNCHANGED redo

(* 07:30, without a mutex.                                                 *)
StartClosingAlert(j) ==
    /\ \E list \in SUBSET Assets :
         /\ Listed(GetLatestByAssetCodes(AShares, 5), list)
         /\ Start(j, "close", list, "pick")
    /\ UNCHANGED redo

\* Mutant: under a mutex like the others.
StartEventPolling_Locked(j) ==
    /\ ~ Running("poll")
    /\ Start(j, "poll", GetUnalerted, "pick")
    /\ UNCHANGED <<redo, trouble>>

(* Every hour, without a mutex: an earlier poll may still be sending.      *)
StartEventPolling(j) ==
    /\ \E list \in SUBSET Events :
         /\ Listed(GetUnalerted, list)
         /\ Start(j, "poll", list, "pick")
         /\ redo' = redo \cup {e \in list : \E i \in Jobs : Holds(i, e)}

StartBriefing(j) ==
    /\ ~ Running("briefing")
    /\ Start(j, "briefing", {}, "list")
    /\ UNCHANGED <<redo, trouble>>

(* The insight of either locale may be refused by the sidecar: it is then  *)
(* skipped.                                                                *)
StartWeeklyInsight(j) ==
    \E ls \in SUBSET Locales :
        /\ Start(j, "weekly", ls, "pick")
        /\ UNCHANGED <<redo, trouble>>

(* 23:30, under its mutex, which it holds until the last user is done.     *)
StartHoldingAnalysis ==
    /\ "holding" \in entries \ fired /\ Due("holding", slot)
    /\ ~ Running("holding") /\ queue = {}
    /\ fired' = fired \cup {"holding"}
    /\ queue' \in SUBSET ListUsersWithHoldings
    /\ Listed(ListUsersWithHoldings, queue')
    /\ UNCHANGED <<slot, entries, table, tracker, job, history>>

(* A TryLock that fails: the round is skipped.                             *)
SkipRound(k) ==
    /\ k \in entries \ fired /\ Due(k, slot)
    /\ \/ k \in {"score", "briefing"} /\ Running(k)
       \/ k = "holding" /\ (Running(k) \/ queue # {})
    /\ fired' = fired \cup {k}
    /\ UNCHANGED <<slot, entries, table, tracker, queue, job, history, trouble>>

(* The semaphore admits the next user: analyzeUserHoldings in a goroutine. *)
AdmitUser(j) ==
    /\ queue # {} /\ job[j] = Idle
    /\ Cardinality({i \in Jobs : job[i].kind = "holding"}) < Concurrency
    /\ LET u == Least(queue) IN
        /\ queue' = queue \ {u}
        /\ job' = [job EXCEPT ![j] = [Idle EXCEPT !.kind = "holding", !.items = {u}, !.pc = "pick"]]
    /\ UNCHANGED <<slot, fired, entries, table, tracker, history, trouble>>

-----------------------------------------------------------------------------
(* What a goroutine does with its items.                                   *)

Goto(j, r) ==
    /\ job' = [job EXCEPT ![j] = r]
    /\ UNCHANGED <<slot, fired, entries, enabled, change, events, v1rows, queue, steady, missed>>

(* The next asset, event or locale: its users are listed from the start.   *)
(* The closing alert skips an asset that dailyAlertedTracker holds.        *)
PickItem(j) ==
    LET g == job[j] IN
    /\ g.pc = "pick" /\ g.kind # "holding"
    /\ \E i \in g.items :
         IF g.kind = "close" /\ i \in tracker
         THEN Goto(j, [g EXCEPT !.items = @ \ {i}])
         ELSE Goto(j, [g EXCEPT !.items = @ \ {i}, !.cur = i, !.pc = "list", !.after = 0])
    /\ UNCHANGED <<rows, tracker, offered, again, redo, trouble>>

(* AnalyzeHolding ends with an error, with no advice, or with a card that  *)
(* is sent to the holder alone: nothing reads email_push_enabled here.     *)
AnalyzeHolding(j) ==
    LET g == job[j] IN
    /\ g.pc = "pick" /\ g.kind = "holding"
    /\ \E u \in g.items, advice \in BOOLEAN :
         Goto(j, [g EXCEPT !.items = @ \ {u},
                           !.cur = IF advice THEN u ELSE None,
                           !.page = IF advice THEN {u} ELSE {},
                           !.last = TRUE,
                           !.pc = IF advice THEN "count" ELSE "pick"])
    /\ UNCHANGED <<rows, tracker, offered, again, redo, trouble>>

(* One page of the users with the push enabled: the loop ends with a page  *)
(* that is not full.                                                       *)
Mailing(g, page) ==
    IF page = {}
    THEN [g EXCEPT !.pc = "done"]
    ELSE [g EXCEPT !.page = page, !.after = Greatest(page),
                   !.last = Cardinality(page) < PageSize, !.pc = "count"]

ListUsers(j) ==
    LET g == job[j] IN
    /\ g.pc = "list" /\ g.kind # "weekly"
    /\ Goto(j, Mailing(g, ListEmailPushEnabled(g.after)))
    /\ UNCHANGED <<rows, tracker, offered, again, redo, trouble>>

(* The users of the locale are collected page by page.                     *)
Collecting(g, page) ==
    [g EXCEPT !.page = @ \cup page,
              !.after = IF page = {} THEN @ ELSE Greatest(page),
              !.pc = IF Cardinality(page) < PageSize THEN "batch" ELSE "list"]

CollectRecipients(j) ==
    LET g == job[j] IN
    /\ g.pc = "list" /\ g.kind = "weekly"
    /\ Goto(j, Collecting(g, ListEmailPushEnabledByLocale(g.cur, g.after)))
    /\ UNCHANGED <<rows, tracker, offered, again, redo, trouble>>

(* A page that breaks off before one of its users is returned without an   *)
(* error.  It is not full, or even empty, so that it ends the list, and    *)
(* what is left of it counts as everybody: the event will be marked.       *)
PageBreaksOff(j) ==
    LET g == job[j] IN
    /\ g.pc = "list" /\ Disturbed
    /\ IF g.kind = "weekly"
       THEN LET page == ListEmailPushEnabledByLocale(g.cur, g.after) IN
            \E u \in page :
              /\ job' = [job EXCEPT ![j] = Collecting(g, {v \in page : v < u})]
              /\ UNCHANGED missed
       ELSE LET page == ListEmailPushEnabled(g.after) IN
            \E u \in page :
              /\ job' = [job EXCEPT ![j] = Mailing(g, {v \in page : v < u})]
              /\ missed' = IF g.kind = "poll"
                            THEN [missed EXCEPT ![g.cur] = @ \cup {v \in enabled : v >= u}]
                            ELSE missed
    /\ UNCHANGED <<slot, fired, entries, table, tracker, queue, offered, steady, again, redo>>

Finish(g) == [g EXCEPT !.pc = "pick", !.cur = None, !.after = 0, !.last = FALSE,
                       !.page = {}]

\* Mutant: the error is logged, and the event counted as processed.
ListFails_Processed(j) ==
    LET g == job[j] IN
    /\ g.pc = "list" /\ Disturbed
    /\ Goto(j, [g EXCEPT !.pc = "done", !.page = {}])
    /\ UNCHANGED <<rows, tracker, offered, again, redo>>

(* A page whose query is refused, or a row of it that cannot be scanned,   *)
(* ends the item with an error: an event is not processed and comes back   *)
(* with the next poll, an asset is not marked.                             *)
ListFails(j) ==
    LET g == job[j] IN
    /\ g.pc = "list" /\ Disturbed
    /\ Goto(j, IF g.kind = "briefing" THEN Idle ELSE Finish(g))
    /\ redo' = IF g.kind = "poll" THEN redo \cup {g.cur} ELSE redo
    /\ UNCHANGED <<rows, tracker, offered, again>>

(* The user is done with: the next of the page, or the next page.          *)
AfterUser(g, u) ==
    LET rest == g.page \ {u} IN
    [g EXCEPT !.page = rest, !.user = 0,
              !.pc = IF rest # {} THEN "count" ELSE IF g.last THEN "done" ELSE "list"]

(* sendMarketAlertToUser is called: the alert of an event has been tried.  *)
Tried(g, u) ==
    IF g.kind = "poll"
    THEN /\ offered' = [offered EXCEPT ![g.cur] = @ \cup {u}]
         /\ again' = IF u \in offered[g.cur] THEN again \cup {g.cur} ELSE again
    ELSE UNCHANGED <<offered, again>>

\* Mutant: > for >=.
CheckPush_OneMore(j) ==
    LET g == job[j]
        u == Least(g.page)
    IN
    /\ g.pc = "count"
    /\ Goto(j, IF CountTodayByUser(u) > MaxPushes
               THEN AfterUser(g, u)
               ELSE [g EXCEPT !.user = u, !.pc = "log"])
    /\ Tried(g, u)
    /\ UNCHANGED <<rows, tracker, redo, trouble>>

(* checkAndLogPush, its first half: the user is skipped at the maximum.    *)
CheckPush(j) ==
    LET g == job[j]
        u == Least(g.page)
    IN
    /\ g.pc = "count"
    /\ Goto(j, IF CountTodayByUser(u) >= MaxPushes
               THEN AfterUser(g, u)
               ELSE [g EXCEPT !.user = u, !.pc = "log"])
    /\ Tried(g, u)
    /\ UNCHANGED <<rows, tracker, redo, trouble>>

(* A count that fails skips the user, and the caller only logs it.         *)
CheckFails(j) ==
    LET g == job[j] IN
    /\ g.pc = "count" /\ Disturbed
    /\ Goto(j, AfterUser(g, Least(g.page)))
    /\ Tried(g, Least(g.page))
    /\ UNCHANGED <<rows, tracker, redo>>

(* checkAndLogPush, its second half: the row says "sent" before anything   *)
(* has been.  When it cannot be written, the mail is sent all the same.    *)
LogPush(j) ==
    LET g == job[j] IN
    /\ g.pc = "log"
    /\ Goto(j, [g EXCEPT !.pc = "send"])
    /\ \/ rows' = [rows EXCEPT ![g.user] = @ + 1] /\ UNCHANGED trouble
       \/ Disturbed /\ UNCHANGED rows
    /\ UNCHANGED <<tracker, offered, again, redo>>

(* The template is rendered and the mail handed to the SMTP server.  That  *)
(* this failed is logged: the caller goes on with the next user.           *)
SendMail(j) ==
    /\ job[j].pc = "send"
    /\ Goto(j, AfterUser(job[j], job[j].user))
    /\ UNCHANGED <<rows, tracker, offered, again, redo, trouble>>

(* One batch of the weekly insight, whose recipients are neither counted   *)
(* nor logged; a batch that fails is skipped.                              *)
SendBatch(j) ==
    LET g == job[j] IN
    /\ g.pc = "batch"
    /\ Goto(j, IF g.page = {} THEN Finish(g)
               ELSE [g EXCEPT !.page = @ \ FirstPage(@)])
    /\ UNCHANGED <<rows, tracker, offered, again, redo, trouble>>

\* Mutant: the bookkeeping of the two loops is mixed up.
ItemDone_Mixed(j) ==
    LET g == job[j] IN
    /\ g.pc = "done"
    /\ Goto(j, [Finish(g) EXCEPT !.done = @ \cup {g.cur}])
    /\ UNCHANGED <<rows, tracker, offered, again, redo, trouble>>

(* SendMarketAlert returns nil, whatever became of the single mails.       *)
ItemDone(j) ==
    LET g == job[j] IN
    /\ g.pc = "done"
    /\ Goto(j, IF g.kind = "briefing" THEN Idle
               ELSE [Finish(g) EXCEPT
                       !.done = IF g.kind = "poll" THEN @ \cup {g.cur} ELSE @])
    /\ tracker' = IF g.kind \in {"score", "close"} THEN tracker \cup {g.cur} ELSE tracker
    /\ UNCHANGED <<rows, offered, again, redo, trouble>>

(* Nothing is left: the poll has events to mark, any other entry returns.  *)
NoMoreItems(j) ==
    LET g == job[j] IN
    /\ g.pc = "pick" /\ g.items = {}
    /\ Goto(j, IF g.kind = "poll" /\ g.done # {} THEN [g EXCEPT !.pc = "mark"] ELSE Idle)
    /\ UNCHANGED <<rows, tracker, offered, again, redo, trouble>>

(* MarkAlerted in one UPDATE.                                              *)
MarkAlerted(j) ==
    /\ job[j].pc = "mark"
    /\ job' = [job EXCEPT ![j] = Idle]
    /\ events' = [e \in Events |-> IF e \in job[j].done THEN "alerted" ELSE events[e]]
    /\ UNCHANGED <<slot, fired, entries, enabled, change, rows, v1rows, tracker, queue, history, trouble>>

MarkFails(j) ==
    /\ job[j].pc = "mark" /\ Disturbed
    /\ Goto(j, Idle)
    /\ redo' = redo \cup job[j].done
    /\ UNCHANGED <<rows, tracker, offered, again>>

Step(j) ==
    \/ PickItem(j) \/ AnalyzeHolding(j) \/ ListUsers(j) \/ CollectRecipients(j)
    \/ CheckPush(j) \/ LogPush(j) \/ SendMail(j) \/ SendBatch(j)
    \/ ItemDone(j) \/ NoMoreItems(j) \/ MarkAlerted(j)

-----------------------------------------------------------------------------
(* smtp.SendMail has no deadline: a server that never answers holds the    *)
(* goroutine, and the mutex of its entry, for ever.  (The server has as    *)
(* many goroutines as it needs, the model one that never hangs.)           *)
SendHangs(j) ==
    /\ Cardinality({i \in Jobs : job[i].pc = "hung"}) < Cardinality(Jobs) - 1
    /\ job[j].pc \in {"send", "batch"} /\ Disturbed
    /\ Goto(j, [job[j] EXCEPT !.pc = "hung"])
    /\ UNCHANGED <<rows, tracker, offered, again, redo>>

(* The next time of the day.  cron fires each entry at its time; at 00:00  *)
(* UTC the counts start again and the tracker is that of another day.      *)
Tick ==
    /\ queue = {}
    /\ \A k \in entries : Due(k, slot) => k \in fired
    /\ slot' = (slot % 4) + 1
    /\ fired' = {}
    /\ IF slot = 4
       THEN /\ rows' = [u \in Users |-> 0]
            /\ v1rows' = [u \in Users |-> 0]
            /\ tracker' = {}
       ELSE UNCHANGED <<rows, v1rows, tracker>>
    /\ UNCHANGED <<entries, enabled, change, events, queue, job, offered, steady,
                   missed, again, redo, trouble>>

(* The server is killed and started again: the goroutines, the tracker and *)
(* the mutexes are gone; an entry whose time passes meanwhile is missed.   *)
Crash ==
    /\ Disturbed
    /\ job' = [j \in Jobs |-> Idle]
    /\ queue' = {}
    /\ tracker' = {}
    /\ fired' \in {fired, entries}
    /\ redo' = redo \cup {e \in Events : \E j \in Jobs : Holds(j, e)}
    /\ UNCHANGED <<slot, entries, table, offered, steady, missed, again>>

-----------------------------------------------------------------------------
(* The rest of the system.                                                 *)

(* PATCH /api/v2/user/email-push, or the deletion of the account.          *)
UpdateEmailPush(u) ==
    /\ Disturbed
    /\ enabled' = IF u \in enabled THEN enabled \ {u} ELSE enabled \cup {u}
    /\ steady' = [e \in Events |-> steady[e] \ {u}]
    /\ UNCHANGED <<slot, fired, entries, change, events, rows, v1rows, tracker, queue,
                   job, offered, missed, again, redo>>

(* The sidecar detects an event, or persists another analysis.             *)
EventDetected(e) ==
    /\ events[e] = "none"
    /\ events' = [events EXCEPT ![e] = "unalerted"]
    /\ steady' = [steady EXCEPT ![e] = enabled]
    /\ UNCHANGED <<slot, fired, entries, enabled, change, rows, v1rows, tracker, queue,
                   job, offered, missed, again, redo, trouble>>

AnalysisPersisted(a) ==
    /\ Disturbed
    /\ \E c \in {0, 5, 10} : change' = [change EXCEPT ![a] = c]
    /\ UNCHANGED <<slot, fired, entries, enabled, events, rows, v1rows, tracker, queue,
                   job, history>>

(* notification.Service.SendToUser: the version 1 digest logs one row for  *)
(* each channel of the user, and the e-mail channel is counted with ours.  *)
SendToUser(u) ==
    /\ Disturbed
    /\ v1rows' = [v1rows EXCEPT ![u] = @ + 1]
    /\ UNCHANGED <<slot, fired, entries, enabled, change, events, rows, tracker, queue,
                   job, history>>

Fire ==
    \/ \E j \in Jobs :
         \/ StartScoreAlert(j) \/ StartClosingAlert(j) \/ StartEventPolling(j)
         \/ StartBriefing(j) \/ StartWeeklyInsight(j) \/ AdmitUser(j)
    \/ StartHoldingAnalysis
    \/ \E k \in Kinds : SkipRound(k)

Trouble(j) == PageBreaksOff(j) \/ ListFails(j) \/ CheckFails(j) \/ MarkFails(j) \/ SendHangs(j)

Next ==
    \/ Fire
    \/ \E j \in Jobs : Step(j) \/ Trouble(j)
    \/ Tick \/ Crash
    \/ \E u \in Users : UpdateEmailPush(u) \/ SendToUser(u)
    \/ \E e \in Events : EventDetected(e)
    \/ \E a \in Assets : AnalysisPersisted(a)

Spec == Init /\ [][Next]_vars

(* Goroutines run, the database and the SMTP server answer except where a  *)
(* fault says otherwise, cron fires, and time passes.                      *)
Fairness == /\ \A j \in Jobs : WF_vars(Step(j))
            /\ WF_vars(Fire)
            /\ WF_vars(Tick)

FairSpec == Spec /\ Fairness

-----------------------------------------------------------------------------
TypeOK ==
    /\ slot \in 1 .. 4
    /\ fired \subseteq Kinds /\ entries \subseteq Kinds
    /\ enabled \subseteq Users
    /\ change \in [Assets -> {0, 5, 10}]
    /\ events \in [Events -> {"none", "unalerted", "alerted"}]
    /\ rows \in [Users -> Nat] /\ v1rows \in [Users -> Nat]
    /\ tracker \subseteq Assets /\ queue \subseteq Users
    /\ job \in [Jobs ->
         [kind : Kinds \cup {"none"},
          items : SUBSET (Assets \cup Events \cup Locales \cup Users),
          cur : Assets \cup Events \cup Locales \cup Users \cup {None},
          done : SUBSET Events,
          pc : {"idle", "pick", "list", "count", "log", "send", "batch", "done", "mark", "hung"},
          after : Nat, page : SUBSET Users, last : BOOLEAN, user : Users \cup {0}]]
    /\ offered \in [Events -> SUBSET Users]
    /\ steady \in [Events -> SUBSET Users] /\ missed \in [Events -> SUBSET Users]
    /\ again \subseteq Events /\ redo \subseteq Events
    /\ trouble \in Nat

(* The daily maximum holds up to the entries that count at once: the check *)
(* and the row are two statements, so each of the others may slip in one   *)
(* more push for the same user, and never more than one.                   *)
PushCap == \A u \in Users : rows[u] <= MaxPushes + Cardinality(Jobs) - 1

(* An event is marked only when its alert was tried for every user who had *)
(* the push enabled from its detection on: no page of users is left out by *)
(* the cursor, and an error of a query leaves the event unmarked.  The     *)
(* exception is the users behind the place where a page broke off: that    *)
(* error is swallowed, and they never get the alert.                       *)
MarkedAfterAll == \A e \in Events :
    events[e] = "alerted" => steady[e] \subseteq offered[e] \cup missed[e]

(* The alert of one event is tried a second time for a user only when a    *)
(* page or the mark failed, the server was killed, or two polls overlapped.*)
TriedOnce == again \subseteq redo

(* Where the poll is registered an event is marked in the end, whatever    *)
(* hangs, fails or is killed: the poll has no mutex, so one that hangs is  *)
(* overtaken by the next.                                                  *)
EventAlerted == \A e \in Events :
    events[e] = "unalerted" /\ "poll" \in entries ~> events[e] = "alerted"
=============================================================================
