--------------------------- MODULE ScheduleEntries ---------------------------
(***************************************************************************)
(* The cron entries of one user in the v1 analysis scheduler.  They are    *)
(* registered at the start of the server, replaced when the user saves his *)
(* settings (PUT, then ReloadUser) and, for the US windows, when daylight  *)
(* saving begins or ends.  These operations run side by side: the mutex    *)
(* guards only the map entryIDs, while cron keeps the entries themselves.  *)
(***************************************************************************)
EXTENDS Naturals, FiniteSets

CONSTANTS
    Puts,       \* PUT requests of the user
    Starts,     \* starts of the server, which bound its crashes
    Fires,      \* transitions of daylight saving, which bound them
    Windows,    \* the market windows, a_share or us, pre or post
    USWindows,
    DefaultOn,  \* the windows that are enabled by default
    NoRow, NoEntry,
    StoredText, \* how the database writes a TIME column: "HH:MM:SS" in PostgreSQL
    MaxFaults   \* bound on failed database calls

Ops     == Puts \cup Starts \cup Fires
Entries == Ops \X Windows   \* an operation registers a window at most once

ASSUME ConstantsAssumption ==
    /\ Puts \cap Starts = {} /\ Puts \cap Fires = {} /\ Starts \cap Fires = {}
    /\ USWindows \subseteq Windows
    /\ DefaultOn \subseteq Windows
    /\ NoEntry \notin Entries
    /\ StoredText \in {"HH:MM", "HH:MM:SS"}
    /\ MaxFaults \in Nat

VARIABLES
    row,       \* the saved settings, or NoRow
    phase,     \* the server is down, starting or up
    entryIDs,  \* entryIDs[w]: the recorded entry of window w
    cron,      \* the entries of the cron instance
    armed,     \* the one-shot DST callback is pending
    pc,        \* pc[o]: where operation o is
    view,      \* view[o]: the settings it has read
    todo,      \* todo[o]: the windows it has still to register
    hand,      \* hand[o]: entries it has added and not recorded, or has to remove
    faults,
    raced      \* the last save overlapped with another operation (history)

table    == <<entryIDs, cron>>
working  == <<view, todo, hand>>
vars     == <<row, phase, table, armed, pc, working, faults, raced>>

\* Settings in memory: the windows that are on, those with a time of the user's
\* own, and those whose time is written "HH:MM".
Settings == [on : SUBSET Windows, custom : SUBSET Windows, parses : SUBSET Windows]

DefaultScheduleSettings ==
    [on |-> DefaultOn, custom |-> {}, parses |-> Windows]

\* A row as scanScheduleSettings returns it, its times as time::text writes them;
\* parseHHMM wants five characters.
Scanned(saved) ==
    [on |-> saved.on, custom |-> saved.custom,
     parses |-> IF StoredText = "HH:MM" THEN Windows ELSE {}]

GetUserScheduleSettings == IF row = NoRow THEN DefaultScheduleSettings ELSE Scanned(row)

\* What a user can save.
Inputs == [on : SUBSET Windows, custom : SUBSET Windows]

Places == {"idle", "reload", "list", "remove", "read", "register", "record", "arm", "end"}

TypeOK ==
    /\ row \in Inputs \cup {NoRow}
    /\ phase \in {"down", "starting", "up"}
    /\ entryIDs \in [Windows -> Entries \cup {NoEntry}]
    /\ cron \subseteq Entries
    /\ armed \in BOOLEAN
    /\ pc \in [Ops -> Places]
    /\ view \in [Ops -> Settings]
    /\ todo \in [Ops -> SUBSET Windows]
    /\ hand \in [Ops -> SUBSET Entries]
    /\ faults \in 0..MaxFaults
    /\ raced \in BOOLEAN

Init ==
    /\ row = NoRow
    /\ phase = "down"
    /\ entryIDs = [w \in Windows |-> NoEntry]
    /\ cron = {}
    /\ armed = FALSE
    /\ pc = [o \in Ops |-> "idle"]
    /\ view = [o \in Ops |-> DefaultScheduleSettings]
    /\ todo = [o \in Ops |-> {}]
    /\ hand = [o \in Ops |-> {}]
    /\ faults = 0
    /\ raced = FALSE

Go(o, place) == pc' = [pc EXCEPT ![o] = place]

Fault ==
    /\ faults < MaxFaults
    /\ faults' = faults + 1

-----------------------------------------------------------------------------
(* Removing and registering, shared by the operations.                     *)

Recorded == {entryIDs[w] : w \in Windows} \ {NoEntry}

\* Mutant: keys without an entry are taken along.
Take_Unchecked(o, ws) ==
    /\ hand' = [hand EXCEPT ![o] = {entryIDs[w] : w \in ws}]
    /\ entryIDs' = [w \in Windows |-> IF w \in ws THEN NoEntry ELSE entryIDs[w]]
    /\ Go(o, "remove")

\* Mutant: the map is cleared and the entries stay in cron.
Take_Forgets(o, ws) ==
    /\ entryIDs' = [w \in Windows |-> IF w \in ws THEN NoEntry ELSE entryIDs[w]]
    /\ Go(o, "remove")
    /\ UNCHANGED hand

\* removeUserEntries and removeUserUSEntries, under the mutex.
Take(o, ws) ==
    /\ hand' = [hand EXCEPT ![o] = {entryIDs[w] : w \in ws} \ {NoEntry}]
    /\ entryIDs' = [w \in Windows |-> IF w \in ws THEN NoEntry ELSE entryIDs[w]]
    /\ Go(o, "remove")

\* cron.Remove, after the mutex is released.
CronRemove(o) ==
    /\ pc[o] = "remove"
    /\ \E e \in hand[o] :
          /\ cron' = cron \ {e}
          /\ hand' = [hand EXCEPT ![o] = @ \ {e}]
    /\ UNCHANGED <<row, phase, entryIDs, armed, pc, view, todo, faults, raced>>

RemoveDone(o) ==
    /\ pc[o] = "remove"
    /\ hand[o] = {}
    /\ Go(o, IF o \in Puts THEN "read" ELSE "register")
    /\ UNCHANGED <<row, phase, table, armed, working, faults, raced>>

\* registerWindowEntry: a time that does not parse is logged and skipped.
SkipWindow(o) ==
    /\ pc[o] = "register"
    /\ \E w \in todo[o] \ view[o].parses : todo' = [todo EXCEPT ![o] = @ \ {w}]
    /\ UNCHANGED <<row, phase, table, armed, pc, view, hand, faults, raced>>

\* cron.AddFunc
AddFunc(o) ==
    /\ pc[o] = "register"
    /\ \E w \in todo[o] \cap view[o].parses :
          /\ cron' = cron \cup {<<o, w>>}
          /\ hand' = [hand EXCEPT ![o] = {<<o, w>>}]
          /\ todo' = [todo EXCEPT ![o] = @ \ {w}]
    /\ Go(o, "record")
    /\ UNCHANGED <<row, phase, entryIDs, armed, view, faults, raced>>

\* Under the mutex: an entry that another operation has recorded is replaced.
Record(o) ==
    /\ pc[o] = "record"
    /\ \E e \in hand[o] :
          /\ cron' = cron \ {entryIDs[e[2]]}
          /\ entryIDs' = [entryIDs EXCEPT ![e[2]] = e]
    /\ hand' = [hand EXCEPT ![o] = {}]
    /\ Go(o, "register")
    /\ UNCHANGED <<row, phase, armed, view, todo, faults, raced>>

RegisterDone(o) ==
    /\ pc[o] = "register"
    /\ todo[o] = {}
    /\ Go(o, IF o \in Puts THEN "end" ELSE "arm")
    /\ UNCHANGED <<row, phase, table, armed, working, faults, raced>>

-----------------------------------------------------------------------------
(* PUT /settings/schedule                                                  *)

UpdateSettings(p) ==
    /\ phase = "up"
    /\ pc[p] = "idle"
    /\ row' \in Inputs
    /\ raced' = \E o \in Ops \ {p} : pc[o] \notin {"idle", "end"}
    /\ Go(p, "reload")
    /\ UNCHANGED <<phase, table, armed, working, faults>>

\* Mutant: only the US entries are removed.
RemoveUserEntries_US(p) ==
    /\ p \in Puts
    /\ pc[p] = "reload"
    /\ Take(p, USWindows)
    /\ UNCHANGED <<row, phase, cron, armed, view, todo, faults, raced>>

\* ReloadUser begins.
RemoveUserEntries(p) ==
    /\ p \in Puts
    /\ pc[p] = "reload"
    /\ Take(p, Windows)
    /\ UNCHANGED <<row, phase, cron, armed, view, todo, faults, raced>>

ReadSettings(p) ==
    /\ pc[p] = "read"
    /\ view' = [view EXCEPT ![p] = GetUserScheduleSettings]
    /\ todo' = [todo EXCEPT ![p] = GetUserScheduleSettings.on]
    /\ Go(p, "register")
    /\ UNCHANGED <<row, phase, table, armed, hand, faults, raced>>

\* The entries are gone; the handler logs the error and answers 200.
ReloadFails(p) ==
    /\ pc[p] = "read"
    /\ Fault
    /\ Go(p, "end")
    /\ UNCHANGED <<row, phase, table, armed, working, raced>>

-----------------------------------------------------------------------------
(* The DST callback.                                                       *)

\* Daylight saving begins or ends; nobody notices when the server is down.
Transition(f) ==
    /\ pc[f] = "idle"
    /\ \A g \in Fires : pc[g] \in {"idle", "end"}
    /\ Go(f, IF armed THEN "list" ELSE "end")
    /\ armed' = FALSE
    /\ UNCHANGED <<row, phase, table, working, faults, raced>>

\* The US windows that the user has not customised get a constant as their time.
Adjusted(settings) == [settings EXCEPT !.parses = @ \cup (USWindows \ settings.custom)]

\* onDSTTransition lists the saved settings.  A user without a row is not among
\* them.
ListSettings(f) ==
    /\ f \in Fires
    /\ pc[f] = "list"
    /\ IF row # NoRow /\ USWindows \ row.custom # {}
         THEN /\ view' = [view EXCEPT ![f] = Adjusted(Scanned(row))]
              /\ todo' = [todo EXCEPT ![f] = row.on \cap USWindows]
              /\ Go(f, "reload")
         ELSE Go(f, "arm") /\ UNCHANGED <<view, todo>>
    /\ UNCHANGED <<row, phase, table, armed, hand, faults, raced>>

\* Mutant: the callback returns when the settings cannot be listed.
ListFails_Returns(f) ==
    /\ f \in Fires
    /\ pc[f] = "list"
    /\ Fault
    /\ Go(f, "end")
    /\ UNCHANGED <<row, phase, table, armed, working, raced>>

\* The settings cannot be listed, or the list is cut short before this user, of which
\* nobody is told.
ListFails(f) ==
    /\ f \in Fires
    /\ pc[f] = "list"
    /\ Fault
    /\ Go(f, "arm")
    /\ UNCHANGED <<row, phase, table, armed, working, raced>>

RemoveUserUSEntries(f) ==
    /\ f \in Fires
    /\ pc[f] = "reload"
    /\ Take(f, USWindows)
    /\ UNCHANGED <<row, phase, cron, armed, view, todo, faults, raced>>

\* scheduleDSTCallback, the last step of onDSTTransition and of Start, which then
\* lets cron run; the HTTP server listens after that.
ScheduleDSTCallback(o) ==
    /\ pc[o] = "arm"
    /\ armed' = TRUE
    /\ phase' = "up"
    /\ Go(o, "end")
    /\ UNCHANGED <<row, table, working, faults, raced>>

-----------------------------------------------------------------------------
(* The server.                                                             *)

Start(s) ==
    /\ phase = "down"
    /\ pc[s] = "idle"
    /\ phase' = "starting"
    /\ raced' = FALSE
    /\ Go(s, "list")
    /\ UNCHANGED <<row, table, armed, working, faults>>

\* Start reads the saved settings, or the defaults for a user with holdings and
\* without a row.
LoadSettings(s) ==
    /\ s \in Starts
    /\ pc[s] = "list"
    /\ \E on \in {GetUserScheduleSettings.on} \cup (IF row = NoRow THEN {{}} ELSE {}) :
          todo' = [todo EXCEPT ![s] = on]
    /\ view' = [view EXCEPT ![s] = GetUserScheduleSettings]
    /\ Go(s, "register")
    /\ UNCHANGED <<row, phase, table, armed, hand, faults, raced>>

\* One of the queries of Start fails, or its list is cut short before this user, without
\* an error: the user gets no entry.
LoadFails(s) ==
    /\ s \in Starts
    /\ pc[s] = "list"
    /\ Fault
    /\ Go(s, "register")
    /\ UNCHANGED <<row, phase, table, armed, working, raced>>

Crash ==
    /\ phase # "down"
    /\ \E s \in Starts : pc[s] = "idle"
    /\ phase' = "down"
    /\ entryIDs' = [w \in Windows |-> NoEntry]
    /\ cron' = {}
    /\ armed' = FALSE
    /\ pc' = [o \in Ops |-> IF pc[o] = "idle" THEN "idle" ELSE "end"]
    /\ todo' = [o \in Ops |-> {}]
    /\ hand' = [o \in Ops |-> {}]
    /\ UNCHANGED <<row, view, faults, raced>>

-----------------------------------------------------------------------------

Replace(o) ==
    \/ CronRemove(o) \/ RemoveDone(o) \/ SkipWindow(o) \/ AddFunc(o) \/ Record(o)
    \/ RegisterDone(o) \/ ScheduleDSTCallback(o)

Reload(p) == RemoveUserEntries(p) \/ ReadSettings(p) \/ ReloadFails(p)

OnDSTTransition(f) == ListSettings(f) \/ ListFails(f) \/ RemoveUserUSEntries(f)

Load(s) == LoadSettings(s) \/ LoadFails(s)

Next ==
    \/ \E o \in Ops : Replace(o)
    \/ \E p \in Puts : UpdateSettings(p) \/ Reload(p)
    \/ \E f \in Fires : Transition(f) \/ OnDSTTransition(f)
    \/ \E s \in Starts : Start(s) \/ Load(s)
    \/ Crash

Spec == Init /\ [][Next]_vars

-----------------------------------------------------------------------------
(* What must hold.                                                         *)

InHand == UNION {hand[o] : o \in Ops}

\* No entry is ever orphaned, however saves, DST transitions and crashes interleave:
\* what cron runs is what entryIDs records, each under its own window, and what an
\* operation is just adding or removing, each in the hands of one operation.  Once
\* they are done a window thus has at most one entry (registerWindowEntry, removeUserEntries).
EntriesTracked ==
    /\ cron = Recorded \cup InHand
    /\ Recorded \cap InHand = {}
    /\ \A o, p \in Ops : o # p => hand[o] \cap hand[p] = {}
    /\ \A w \in Windows : entryIDs[w] # NoEntry => entryIDs[w][2] = w

\* The one-shot callback never dies: while the server runs it is pending, or an
\* operation is under way that arms it, whatever fails on its way (the last line of
\* onDSTTransition).
CallbackAlive ==
    phase # "down" => armed \/ \E o \in Starts \cup Fires : pc[o] \notin {"idle", "end"}

\* Nothing is running that could still change the entries.
Quiet == phase = "up" /\ \A o \in Ops : pc[o] \in {"idle", "end"}

\* The comment of ReloadUser: the entries are re-registered from the current
\* settings, so every enabled window of a saved row has one.
SavedWindowsScheduled ==
    Quiet /\ row # NoRow => \A w \in row.on : entryIDs[w] # NoEntry

\* A window that the user has switched off has no entry, whatever fails, unless the
\* save came while another save or the DST callback was at work: these register what
\* they have read before ("the persisted settings are authoritative").
OffStaysOff ==
    Quiet /\ row # NoRow /\ ~raced => \A w \in Windows \ row.on : entryIDs[w] = NoEntry
=============================================================================
