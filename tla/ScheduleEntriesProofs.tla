------------------------ MODULE ScheduleEntriesProofs ------------------------
(* No cron entry is orphaned, for any number of saves, starts and DST      *)
(* transitions, any windows, and either text form of the stored times.     *)
EXTENDS ScheduleEntries, TLAPS

-----------------------------------------------------------------------------
(* The inductive invariant.                                                *)

\* EntriesTracked entry by entry, as the steps change it.
Tracked ==
    /\ \A e \in cron : (\E w \in Windows : entryIDs[w] = e) \/ (\E o \in Ops : e \in hand[o])
    /\ \A w \in Windows : entryIDs[w] # NoEntry => entryIDs[w] \in cron /\ entryIDs[w][2] = w
    /\ \A o \in Ops : \A e \in hand[o] : e \in cron /\ \A w \in Windows : entryIDs[w] # e
    /\ \A o, p \in Ops : o # p => hand[o] \cap hand[p] = {}

\* An operation holds entries only while it removes or records them, and adds to
\* cron only what is not there: it has not yet registered what it has to do.
Fresh ==
    \A o \in Ops :
        /\ pc[o] \notin {"remove", "record"} => hand[o] = {}
        /\ pc[o] = "record" => \E w \in Windows : hand[o] = {<<o, w>>}
        /\ pc[o] \in {"idle", "reload", "list", "remove", "read"} =>
              \A w \in Windows : <<o, w>> \notin cron
        /\ pc[o] \in {"register", "record"} => \A w \in todo[o] : <<o, w>> \notin cron

\* EntriesTracked alone is not inductive: it takes Fresh for an added entry to be
\* a new one.
EInv == TypeOK /\ Tracked /\ Fresh

-----------------------------------------------------------------------------

\* Settings in memory are well formed, whoever made them.
LEMMA SettingsTypes ==
    ASSUME TypeOK
    PROVE  /\ DefaultScheduleSettings \in Settings
           /\ GetUserScheduleSettings \in Settings
           /\ row # NoRow => Adjusted(Scanned(row)) \in Settings
  <1> USE ConstantsAssumption DEF ConstantsAssumption, Settings
  <1>1. DefaultScheduleSettings \in Settings
    BY DEF DefaultScheduleSettings
  <1>2. ASSUME row # NoRow
        PROVE  Scanned(row) \in Settings
    BY <1>2 DEF TypeOK, Inputs, Scanned
  <1>3. ASSUME NEW s \in Settings
        PROVE  Adjusted(s) \in Settings
    BY DEF Adjusted
  <1> QED
    BY <1>1, <1>2, <1>3 DEF GetUserScheduleSettings

\* Nothing is registered at first.
LEMMA EntriesInit == Init => EInv
  <1> SUFFICES ASSUME Init PROVE EInv
    OBVIOUS
  <1> USE ConstantsAssumption DEF ConstantsAssumption
  <1>1. DefaultScheduleSettings \in Settings
    BY DEF DefaultScheduleSettings, Settings
  <1>2. TypeOK
    <2>1. pc \in [Ops -> Places] /\ view \in [Ops -> Settings]
      BY <1>1 DEF Init, Places
    <2>2. entryIDs \in [Windows -> Entries \cup {NoEntry}]
      BY DEF Init
    <2>3. row \in Inputs \cup {NoRow} /\ faults \in 0..MaxFaults
      BY DEF Init
    <2> QED
      BY <2>1, <2>2, <2>3 DEF Init, TypeOK
  <1>3. Tracked /\ Fresh
    BY DEF Init, Tracked, Fresh
  <1> QED
    BY <1>2, <1>3 DEF EInv

\* Every step keeps the types.
LEMMA EntriesTypes == EInv /\ [Next]_vars => TypeOK'
  <1> SUFFICES ASSUME TypeOK, Tracked, Fresh, [Next]_vars PROVE TypeOK'
    BY DEF EInv
  <1> USE ConstantsAssumption DEF ConstantsAssumption, Places
  <1>0. Puts \subseteq Ops /\ Fires \subseteq Ops /\ Starts \subseteq Ops
    BY DEF Ops
  <1>1. ASSUME NEW o \in Ops, Replace(o) PROVE TypeOK'
    <2>1. CASE CronRemove(o)
      BY <2>1 DEF TypeOK, CronRemove
    <2>2. CASE RemoveDone(o)
      BY <2>2 DEF TypeOK, RemoveDone, Go, table, working
    <2>3. CASE SkipWindow(o)
      BY <2>3 DEF TypeOK, SkipWindow, table
    <2>4. CASE AddFunc(o)
      <3>1. PICK w \in Windows :
               /\ cron' = cron \cup {<<o, w>>}
               /\ hand' = [hand EXCEPT ![o] = {<<o, w>>}]
               /\ todo' = [todo EXCEPT ![o] = @ \ {w}]
        BY <2>4 DEF AddFunc, TypeOK
      <3>2. <<o, w>> \in Entries
        BY DEF Entries
      <3> QED
        BY <2>4, <3>1, <3>2 DEF TypeOK, AddFunc, Go
    <2>5. CASE Record(o)
      <3>1. PICK e \in hand[o] :
               /\ cron' = cron \ {entryIDs[e[2]]}
               /\ entryIDs' = [entryIDs EXCEPT ![e[2]] = e]
        BY <2>5 DEF Record
      <3>2. e \in Entries
        BY <3>1 DEF TypeOK
      <3> QED
        BY <2>5, <3>1, <3>2 DEF TypeOK, Record, Go
    <2>6. CASE RegisterDone(o)
      BY <2>6 DEF TypeOK, RegisterDone, Go, table, working
    <2>7. CASE ScheduleDSTCallback(o)
      BY <2>7 DEF TypeOK, ScheduleDSTCallback, Go, table, working
    <2> QED
      BY <1>1, <2>1, <2>2, <2>3, <2>4, <2>5, <2>6, <2>7 DEF Replace
  <1>2. ASSUME NEW p \in Puts, UpdateSettings(p) \/ Reload(p) PROVE TypeOK'
    <2>1. CASE UpdateSettings(p)
      BY <2>1, <1>0 DEF TypeOK, UpdateSettings, Go, table, working
    <2>2. CASE RemoveUserEntries(p)
      BY <2>2, <1>0 DEF TypeOK, RemoveUserEntries, Take, Go
    <2>3. CASE ReadSettings(p)
      <3>1. GetUserScheduleSettings \in Settings /\ GetUserScheduleSettings.on \in SUBSET Windows
        BY SettingsTypes DEF Settings
      <3> QED
        BY <2>3, <1>0, <3>1 DEF TypeOK, ReadSettings, Go, table
    <2>4. CASE ReloadFails(p)
      BY <2>4, <1>0 DEF TypeOK, ReloadFails, Fault, Go, table, working
    <2> QED
      BY <1>2, <2>1, <2>2, <2>3, <2>4 DEF Reload
  <1>3. ASSUME NEW f \in Fires, Transition(f) \/ OnDSTTransition(f) PROVE TypeOK'
    <2>1. CASE Transition(f)
      BY <2>1, <1>0 DEF TypeOK, Transition, Go, table, working
    <2>2. CASE ListSettings(f)
      <3>1. row # NoRow => Adjusted(Scanned(row)) \in Settings /\ row.on \cap USWindows \subseteq Windows
        BY SettingsTypes
      <3> QED
        BY <2>2, <1>0, <3>1 DEF TypeOK, ListSettings, Go, table
    <2>3. CASE ListFails(f)
      BY <2>3, <1>0 DEF TypeOK, ListFails, Fault, Go, table, working
    <2>4. CASE RemoveUserUSEntries(f)
      BY <2>4, <1>0 DEF TypeOK, RemoveUserUSEntries, Take, Go
    <2> QED
      BY <1>3, <2>1, <2>2, <2>3, <2>4 DEF OnDSTTransition
  <1>4. ASSUME NEW s \in Starts, Start(s) \/ Load(s) PROVE TypeOK'
    <2>1. CASE Start(s)
      BY <2>1, <1>0 DEF TypeOK, Start, Go, table, working
    <2>2. CASE LoadSettings(s)
      <3>1. GetUserScheduleSettings \in Settings /\ GetUserScheduleSettings.on \in SUBSET Windows
        BY SettingsTypes DEF Settings
      <3> QED
        BY <2>2, <1>0, <3>1 DEF TypeOK, LoadSettings, Go, table
    <2>3. CASE LoadFails(s)
      BY <2>3, <1>0 DEF TypeOK, LoadFails, Fault, Go, table, working
    <2> QED
      BY <1>4, <2>1, <2>2, <2>3 DEF Load
  <1>5. CASE Crash
    BY <1>5 DEF TypeOK, Crash
  <1>6. CASE UNCHANGED vars
    BY <1>6 DEF TypeOK, vars, table, working
  <1> QED
    BY <1>1, <1>2, <1>3, <1>4, <1>5, <1>6 DEF Next

\* What Fresh says of one operation.
FreshOf(o) ==
    /\ pc[o] \notin {"remove", "record"} => hand[o] = {}
    /\ pc[o] = "record" => \E w \in Windows : hand[o] = {<<o, w>>}
    /\ pc[o] \in {"idle", "reload", "list", "remove", "read"} =>
          \A w \in Windows : <<o, w>> \notin cron
    /\ pc[o] \in {"register", "record"} => \A w \in todo[o] : <<o, w>> \notin cron

\* The other operations stay where they are.
OthersWait(o) ==
    \A p \in Ops \ {o} : pc'[p] = pc[p] /\ todo'[p] = todo[p] /\ hand'[p] = hand[p]

\* As long as cron gets no entry of theirs, the others stay fresh.
LEMMA OthersFresh ==
    ASSUME Fresh, NEW o \in Ops, OthersWait(o), Fresh, FreshOf(o)',
           \A p \in Ops \ {o} : \A w \in Windows : <<p, w>> \in cron' => <<p, w>> \in cron,
           \A p \in Ops : todo[p] \subseteq Windows
    PROVE  Fresh'
  <1>1. ASSUME NEW p \in Ops \ {o} PROVE FreshOf(p)'
    BY <1>1 DEF Fresh, FreshOf, OthersWait
  <1> QED
    BY <1>1 DEF Fresh, FreshOf

\* A step that only moves an operation with empty hands keeps everything tracked.
LEMMA Unmoved ==
    ASSUME EInv, NEW o \in Ops, OthersWait(o),
           UNCHANGED <<entryIDs, cron, hand>>, hand[o] = {}, todo'[o] \subseteq Windows,
           \/ pc'[o] \in {"arm", "end"}
           \/ /\ pc[o] \in {"idle", "reload", "list", "remove", "read"}
              /\ pc'[o] # "record"
           \/ pc[o] = "register" /\ pc'[o] = "register" /\ todo'[o] \subseteq todo[o]
    PROVE  Tracked' /\ Fresh'
  <1>1. Tracked'
    BY DEF EInv, Tracked
  <1>2. FreshOf(o)'
    BY DEF EInv, Fresh, FreshOf
  <1>3. Fresh'
    BY <1>2, OthersFresh DEF EInv, TypeOK
  <1> QED
    BY <1>1, <1>3

\* Taking recorded entries moves them from the map to the hands of the operation.
LEMMA TakeKeeps ==
    ASSUME EInv, NEW o \in Ops, NEW ws \in SUBSET Windows, Take(o, ws), pc[o] = "reload",
           UNCHANGED <<cron, todo>>
    PROVE  Tracked' /\ Fresh'
  <1>1. hand[o] = {} /\ \A w \in Windows : <<o, w>> \notin cron
    BY DEF EInv, Fresh
  <1>2. /\ hand'[o] = {entryIDs[w] : w \in ws} \ {NoEntry}
        /\ \A p \in Ops \ {o} : hand'[p] = hand[p]
        /\ \A w \in Windows : entryIDs'[w] = IF w \in ws THEN NoEntry ELSE entryIDs[w]
        /\ pc'[o] = "remove" /\ \A p \in Ops \ {o} : pc'[p] = pc[p]
    BY DEF EInv, TypeOK, Take, Go
  <1>3. Tracked'
    <2>1. \A e \in cron' : (\E w \in Windows : entryIDs'[w] = e) \/ (\E p \in Ops : e \in hand'[p])
      <3> SUFFICES ASSUME NEW e \in cron
                   PROVE  (\E w \in Windows : entryIDs'[w] = e) \/ (\E p \in Ops : e \in hand'[p])
        OBVIOUS
      <3>1. e # NoEntry
        BY ConstantsAssumption DEF ConstantsAssumption, EInv, TypeOK
      <3>2. CASE \E w \in Windows : entryIDs[w] = e
        BY <1>2, <3>1, <3>2
      <3>3. CASE \E p \in Ops : e \in hand[p]
        BY <1>1, <1>2, <3>3
      <3> QED
        BY <3>2, <3>3 DEF EInv, Tracked
    <2>2. \A w \in Windows : entryIDs'[w] # NoEntry => entryIDs'[w] \in cron' /\ entryIDs'[w][2] = w
      BY <1>2 DEF EInv, Tracked
    <2>3. \A p \in Ops : \A e \in hand'[p] : e \in cron' /\ \A w \in Windows : entryIDs'[w] # e
      <3>1. ASSUME NEW e \in hand'[o] PROVE e \in cron' /\ \A w \in Windows : entryIDs'[w] # e
        <4>1. PICK v \in ws : e = entryIDs[v] /\ e # NoEntry
          BY <1>2, <3>1
        <4> QED
          BY <1>2, <4>1 DEF EInv, Tracked
      <3>2. ASSUME NEW p \in Ops \ {o}, NEW e \in hand'[p]
            PROVE  e \in cron' /\ \A w \in Windows : entryIDs'[w] # e
        <4>1. e \in hand[p] /\ e \in cron /\ \A w \in Windows : entryIDs[w] # e
          BY <1>2, <3>2 DEF EInv, Tracked
        <4>2. e # NoEntry
          BY <4>1, ConstantsAssumption DEF ConstantsAssumption, EInv, TypeOK
        <4> QED
          BY <1>2, <4>1, <4>2
      <3> QED
        BY <3>1, <3>2
    <2>4. \A p, q \in Ops : p # q => hand'[p] \cap hand'[q] = {}
      <3>1. ASSUME NEW p \in Ops \ {o} PROVE hand'[p] \cap hand'[o] = {}
        BY <1>2, <3>1 DEF EInv, Tracked
      <3> QED
        BY <1>2, <3>1 DEF EInv, Tracked
    <2> QED
      BY <2>1, <2>2, <2>3, <2>4 DEF Tracked
  <1>4. FreshOf(o)'
    BY <1>1, <1>2 DEF FreshOf
  <1>5. Fresh'
    BY <1>2, <1>4, OthersFresh DEF EInv, TypeOK, OthersWait
  <1> QED
    BY <1>3, <1>5

\* Removing an entry from cron drops it from the hands as well.
LEMMA RemoveKeeps ==
    ASSUME EInv, NEW o \in Ops, CronRemove(o)
    PROVE  Tracked' /\ Fresh'
  <1>1. PICK e \in hand[o] : cron' = cron \ {e} /\ hand' = [hand EXCEPT ![o] = @ \ {e}]
    BY DEF CronRemove
  <1>2. /\ hand'[o] = hand[o] \ {e}
        /\ \A p \in Ops \ {o} : hand'[p] = hand[p]
        /\ entryIDs' = entryIDs /\ pc' = pc /\ todo' = todo /\ pc[o] = "remove"
    BY <1>1 DEF EInv, TypeOK, CronRemove
  <1>3. \A p \in Ops \ {o} : e \notin hand[p]
    BY <1>1 DEF EInv, Tracked
  <1>4. Tracked'
    BY <1>1, <1>2, <1>3 DEF EInv, Tracked
  <1>5. FreshOf(o)'
    BY <1>1, <1>2 DEF EInv, Fresh, FreshOf
  <1>6. Fresh'
    BY <1>1, <1>2, <1>5, OthersFresh DEF EInv, TypeOK, OthersWait
  <1> QED
    BY <1>4, <1>6

\* An added entry is new to cron, to the map and to all hands.
LEMMA AddKeeps ==
    ASSUME EInv, NEW o \in Ops, AddFunc(o)
    PROVE  Tracked' /\ Fresh'
  <1>1. PICK w \in todo[o] :
           /\ cron' = cron \cup {<<o, w>>}
           /\ hand' = [hand EXCEPT ![o] = {<<o, w>>}]
           /\ todo' = [todo EXCEPT ![o] = @ \ {w}]
    BY DEF AddFunc
  <1>2. w \in Windows /\ hand[o] = {} /\ <<o, w>> \notin cron
    BY <1>1 DEF EInv, TypeOK, Fresh, AddFunc
  <1>3. /\ hand'[o] = {<<o, w>>}
        /\ \A p \in Ops \ {o} : hand'[p] = hand[p] /\ todo'[p] = todo[p] /\ pc'[p] = pc[p]
        /\ entryIDs' = entryIDs /\ pc'[o] = "record" /\ todo'[o] = todo[o] \ {w}
        /\ pc[o] = "register"
    BY <1>1 DEF EInv, TypeOK, AddFunc, Go
  <1>4. <<o, w>> # NoEntry
    BY <1>2, ConstantsAssumption DEF ConstantsAssumption, Entries
  <1>5. \A v \in Windows : entryIDs[v] # <<o, w>>
    BY <1>2, <1>4 DEF EInv, Tracked
  <1>6. \A p \in Ops : <<o, w>> \notin hand[p]
    BY <1>2 DEF EInv, Tracked
  <1>7. Tracked'
    BY <1>1, <1>2, <1>3, <1>5, <1>6 DEF EInv, Tracked
  <1>8. FreshOf(o)'
    BY <1>1, <1>2, <1>3 DEF EInv, Fresh, FreshOf
  <1>9. Fresh'
    BY <1>1, <1>3, <1>8, OthersFresh DEF EInv, TypeOK, OthersWait
  <1> QED
    BY <1>7, <1>9

\* Recording puts the entry in the map, and takes the one it replaces out of cron.
LEMMA RecordKeeps ==
    ASSUME EInv, NEW o \in Ops, Record(o)
    PROVE  Tracked' /\ Fresh'
  <1>1. PICK w \in Windows : hand[o] = {<<o, w>>}
    BY DEF EInv, Fresh, Record
  <1>2. /\ cron' = cron \ {entryIDs[w]}
        /\ entryIDs' = [entryIDs EXCEPT ![w] = <<o, w>>]
    <2>1. PICK e \in hand[o] :
             /\ cron' = cron \ {entryIDs[e[2]]}
             /\ entryIDs' = [entryIDs EXCEPT ![e[2]] = e]
      BY DEF Record
    <2>2. e = <<o, w>>
      BY <1>1, <2>1
    <2>3. e[2] = w
      BY <2>2
    <2> QED
      BY <2>1, <2>2, <2>3
  <1>3. /\ hand'[o] = {}
        /\ \A p \in Ops \ {o} : hand'[p] = hand[p] /\ pc'[p] = pc[p]
        /\ todo' = todo /\ pc[o] = "record" /\ pc'[o] = "register"
        /\ entryIDs'[w] = <<o, w>>
        /\ \A v \in Windows \ {w} : entryIDs'[v] = entryIDs[v]
    BY <1>2 DEF EInv, TypeOK, Record, Go
  <1>4. <<o, w>> \in cron /\ \A v \in Windows : entryIDs[v] # <<o, w>>
    BY <1>1 DEF EInv, Tracked
  <1>5. \A p \in Ops \ {o} : <<o, w>> \notin hand[p]
    BY <1>1 DEF EInv, Tracked
  <1>6. \A v \in Windows \ {w} : entryIDs[v] # NoEntry => entryIDs[v] # entryIDs[w]
    BY DEF EInv, Tracked
  <1>7. \A p \in Ops : \A e \in hand[p] : e # entryIDs[w]
    BY DEF EInv, Tracked
  <1>8. Tracked'
    <2>1. \A e \in cron' : (\E v \in Windows : entryIDs'[v] = e) \/ (\E p \in Ops : e \in hand'[p])
      <3> SUFFICES ASSUME NEW e \in cron'
                   PROVE  (\E v \in Windows : entryIDs'[v] = e) \/ (\E p \in Ops : e \in hand'[p])
        OBVIOUS
      <3>1. e \in cron /\ e # entryIDs[w]
        BY <1>2
      <3>2. CASE \E v \in Windows : entryIDs[v] = e
        BY <1>3, <3>1, <3>2
      <3>3. CASE \E p \in Ops : e \in hand[p]
        BY <1>1, <1>3, <3>3
      <3> QED
        BY <3>1, <3>2, <3>3 DEF EInv, Tracked
    <2>2. \A v \in Windows : entryIDs'[v] # NoEntry => entryIDs'[v] \in cron' /\ entryIDs'[v][2] = v
      <3>1. entryIDs'[w] \in cron' /\ entryIDs'[w][2] = w
        BY <1>2, <1>3, <1>4
      <3>2. ASSUME NEW v \in Windows \ {w}, entryIDs'[v] # NoEntry
            PROVE  entryIDs'[v] \in cron' /\ entryIDs'[v][2] = v
        BY <1>2, <1>3, <1>6, <3>2 DEF EInv, Tracked
      <3> QED
        BY <3>1, <3>2
    <2>3. \A p \in Ops : \A e \in hand'[p] : e \in cron' /\ \A v \in Windows : entryIDs'[v] # e
      BY <1>2, <1>3, <1>5, <1>7 DEF EInv, Tracked
    <2>4. \A p, q \in Ops : p # q => hand'[p] \cap hand'[q] = {}
      BY <1>3 DEF EInv, Tracked
    <2> QED
      BY <2>1, <2>2, <2>3, <2>4 DEF Tracked
  <1>9. FreshOf(o)'
    BY <1>2, <1>3 DEF EInv, Fresh, FreshOf
  <1>10. Fresh'
    BY <1>2, <1>3, <1>9, OthersFresh DEF EInv, TypeOK, OthersWait
  <1> QED
    BY <1>8, <1>10

\* Every step keeps the entries tracked.
LEMMA EntriesNext == EInv /\ [Next]_vars => Tracked' /\ Fresh'
  <1> SUFFICES ASSUME EInv, [Next]_vars PROVE Tracked' /\ Fresh'
    OBVIOUS
  <1>0. Puts \subseteq Ops /\ Fires \subseteq Ops /\ Starts \subseteq Ops
    BY DEF Ops
  <1>T. TypeOK /\ Fresh
    BY DEF EInv
  <1>1. ASSUME NEW o \in Ops, Replace(o) PROVE Tracked' /\ Fresh'
    <2>1. CASE RemoveDone(o)
      <3>1. hand[o] = {} /\ pc[o] = "remove" /\ pc'[o] # "record" /\ OthersWait(o)
        BY <2>1, <1>T DEF TypeOK, RemoveDone, Go, working, OthersWait
      <3> QED
        BY <2>1, <3>1, <1>T, Unmoved DEF TypeOK, RemoveDone, table, working
    <2>2. CASE SkipWindow(o)
      <3>1. hand[o] = {} /\ pc[o] = "register" /\ pc' = pc /\ OthersWait(o)
        BY <2>2, <1>T DEF TypeOK, Fresh, SkipWindow, OthersWait
      <3>2. todo'[o] \subseteq todo[o] /\ todo'[o] \subseteq Windows
        BY <2>2, <1>T DEF TypeOK, SkipWindow
      <3> QED
        BY <2>2, <3>1, <3>2, Unmoved DEF SkipWindow, table
    <2>3. CASE RegisterDone(o)
      <3>1. hand[o] = {} /\ pc'[o] \in {"arm", "end"} /\ OthersWait(o)
        BY <2>3, <1>T DEF TypeOK, Fresh, RegisterDone, Go, working, OthersWait
      <3> QED
        BY <2>3, <3>1, <1>T, Unmoved DEF TypeOK, RegisterDone, table, working
    <2>4. CASE ScheduleDSTCallback(o)
      <3>1. hand[o] = {} /\ pc'[o] \in {"arm", "end"} /\ OthersWait(o)
        BY <2>4, <1>T DEF TypeOK, Fresh, ScheduleDSTCallback, Go, working, OthersWait
      <3> QED
        BY <2>4, <3>1, <1>T, Unmoved DEF TypeOK, ScheduleDSTCallback, table, working
    <2> QED
      BY <1>1, <2>1, <2>2, <2>3, <2>4, RemoveKeeps, AddKeeps, RecordKeeps DEF Replace
  <1>2. ASSUME NEW p \in Puts, UpdateSettings(p) \/ Reload(p) PROVE Tracked' /\ Fresh'
    <2>1. CASE UpdateSettings(p)
      <3>1. hand[p] = {} /\ pc[p] = "idle" /\ pc'[p] = "reload" /\ OthersWait(p)
        BY <2>1, <1>0, <1>T DEF TypeOK, Fresh, UpdateSettings, Go, working, OthersWait
      <3> QED
        BY <2>1, <3>1, <1>0, <1>T, Unmoved DEF TypeOK, UpdateSettings, table, working
    <2>2. CASE RemoveUserEntries(p)
      BY <2>2, <1>0, TakeKeeps DEF RemoveUserEntries
    <2>3. CASE ReadSettings(p)
      <3>1. hand[p] = {} /\ pc[p] = "read" /\ pc'[p] = "register" /\ OthersWait(p)
        BY <2>3, <1>0, <1>T DEF TypeOK, Fresh, ReadSettings, Go, OthersWait
      <3>2. todo'[p] \subseteq Windows
        BY <2>3, <1>0, <1>T, SettingsTypes DEF TypeOK, ReadSettings, Settings
      <3> QED
        BY <2>3, <3>1, <3>2, <1>0, Unmoved DEF ReadSettings, table
    <2>4. CASE ReloadFails(p)
      <3>1. hand[p] = {} /\ pc[p] = "read" /\ pc'[p] = "end" /\ OthersWait(p)
        BY <2>4, <1>0, <1>T DEF TypeOK, Fresh, ReloadFails, Go, working, OthersWait
      <3> QED
        BY <2>4, <3>1, <1>0, <1>T, Unmoved DEF TypeOK, ReloadFails, table, working
    <2> QED
      BY <1>2, <2>1, <2>2, <2>3, <2>4 DEF Reload
  <1>3. ASSUME NEW f \in Fires, Transition(f) \/ OnDSTTransition(f) PROVE Tracked' /\ Fresh'
    <2>1. CASE Transition(f)
      <3>1. hand[f] = {} /\ pc[f] = "idle" /\ pc'[f] \in {"list", "end"} /\ OthersWait(f)
        BY <2>1, <1>0, <1>T DEF TypeOK, Fresh, Transition, Go, working, OthersWait
      <3> QED
        BY <2>1, <3>1, <1>0, <1>T, Unmoved DEF TypeOK, Transition, table, working
    <2>2. CASE ListSettings(f)
      <3>1. hand[f] = {} /\ pc[f] = "list" /\ pc'[f] \in {"reload", "arm"} /\ OthersWait(f)
        BY <2>2, <1>0, <1>T DEF TypeOK, Fresh, ListSettings, Go, OthersWait
      <3>2. todo'[f] \subseteq Windows
        BY <2>2, <1>0, <1>T, ConstantsAssumption DEF TypeOK, ListSettings, ConstantsAssumption
      <3> QED
        BY <2>2, <3>1, <3>2, <1>0, Unmoved DEF ListSettings, table
    <2>3. CASE ListFails(f)
      <3>1. hand[f] = {} /\ pc[f] = "list" /\ pc'[f] = "arm" /\ OthersWait(f)
        BY <2>3, <1>0, <1>T DEF TypeOK, Fresh, ListFails, Go, working, OthersWait
      <3> QED
        BY <2>3, <3>1, <1>0, <1>T, Unmoved DEF TypeOK, ListFails, table, working
    <2>4. CASE RemoveUserUSEntries(f)
      BY <2>4, <1>0, TakeKeeps, ConstantsAssumption DEF RemoveUserUSEntries, ConstantsAssumption
    <2> QED
      BY <1>3, <2>1, <2>2, <2>3, <2>4 DEF OnDSTTransition
  <1>4. ASSUME NEW s \in Starts, Start(s) \/ Load(s) PROVE Tracked' /\ Fresh'
    <2>1. CASE Start(s)
      <3>1. hand[s] = {} /\ pc[s] = "idle" /\ pc'[s] = "list" /\ OthersWait(s)
        BY <2>1, <1>0, <1>T DEF TypeOK, Fresh, Start, Go, working, OthersWait
      <3> QED
        BY <2>1, <3>1, <1>0, <1>T, Unmoved DEF TypeOK, Start, table, working
    <2>2. CASE LoadSettings(s)
      <3>1. hand[s] = {} /\ pc[s] = "list" /\ pc'[s] = "register" /\ OthersWait(s)
        BY <2>2, <1>0, <1>T DEF TypeOK, Fresh, LoadSettings, Go, OthersWait
      <3>2. todo'[s] \subseteq Windows
        BY <2>2, <1>0, <1>T, SettingsTypes DEF TypeOK, LoadSettings, Settings
      <3> QED
        BY <2>2, <3>1, <3>2, <1>0, Unmoved DEF LoadSettings, table
    <2>3. CASE LoadFails(s)
      <3>1. hand[s] = {} /\ pc[s] = "list" /\ pc'[s] = "register" /\ OthersWait(s)
        BY <2>3, <1>0, <1>T DEF TypeOK, Fresh, LoadFails, Go, working, OthersWait
      <3> QED
        BY <2>3, <3>1, <1>0, <1>T, Unmoved DEF TypeOK, LoadFails, table, working
    <2> QED
      BY <1>4, <2>1, <2>2, <2>3 DEF Load
  <1>5. CASE Crash
    BY <1>5, <1>T DEF TypeOK, Crash, Tracked, Fresh
  <1>6. CASE UNCHANGED vars
    BY <1>6 DEF EInv, Tracked, Fresh, vars, table, working
  <1> QED
    BY <1>1, <1>2, <1>3, <1>4, <1>5, <1>6 DEF Next

-----------------------------------------------------------------------------

\* The invariant holds throughout.
THEOREM EntriesInductive == Spec => []EInv
  <1>1. EInv /\ [Next]_vars => EInv'
    BY EntriesTypes, EntriesNext DEF EInv
  <1> QED
    BY EntriesInit, <1>1, PTL DEF Spec

\* No cron entry is ever orphaned or recorded under a wrong window, whatever saves,
\* DST transitions, failed queries and crashes interleave.
THEOREM NoOrphan == Spec => []EntriesTracked
  <1>1. EInv => EntriesTracked
    <2> SUFFICES ASSUME TypeOK, Tracked PROVE EntriesTracked
      BY DEF EInv
    <2>1. cron \subseteq Recorded \cup InHand
      <3> SUFFICES ASSUME NEW e \in cron PROVE e \in Recorded \cup InHand
        OBVIOUS
      <3>1. e # NoEntry
        BY ConstantsAssumption DEF ConstantsAssumption, TypeOK
      <3> QED
        BY <3>1 DEF Tracked, Recorded, InHand
    <2>2. Recorded \cup InHand \subseteq cron
      BY DEF Tracked, Recorded, InHand
    <2>3. Recorded \cap InHand = {}
      BY DEF Tracked, Recorded, InHand
    <2> QED
      BY <2>1, <2>2, <2>3 DEF Tracked, EntriesTracked
  <1> QED
    BY EntriesInductive, <1>1, PTL

\* Every step keeps the callback alive.
LEMMA AliveNext ==
    ASSUME TypeOK, CallbackAlive, [Next]_vars
    PROVE  CallbackAlive'
  <1> USE ConstantsAssumption DEF ConstantsAssumption
  <1> DEFINE Arming(o) == pc[o] \notin {"idle", "end"}
  <1>0. Ops = Puts \cup Starts \cup Fires
    BY DEF Ops
  <1>1. ASSUME UNCHANGED <<phase, armed>>,
               \A o \in Starts \cup Fires : Arming(o) => Arming(o)'
        PROVE  CallbackAlive'
    BY <1>1 DEF CallbackAlive
  <1>2. ASSUME NEW o \in Ops, Replace(o) PROVE CallbackAlive'
    <2>1. CASE CronRemove(o) \/ SkipWindow(o)
      BY <1>1, <2>1 DEF CronRemove, SkipWindow
    <2>2. CASE RemoveDone(o) \/ AddFunc(o) \/ Record(o) \/ RegisterDone(o)
      BY <1>0, <1>1, <2>2 DEF TypeOK, RemoveDone, AddFunc, Record, RegisterDone, Go
    <2>3. CASE ScheduleDSTCallback(o)
      BY <2>3 DEF ScheduleDSTCallback, CallbackAlive
    <2> QED
      BY <1>2, <2>1, <2>2, <2>3 DEF Replace
  <1>3. ASSUME NEW p \in Puts, UpdateSettings(p) \/ Reload(p) PROVE CallbackAlive'
    BY <1>0, <1>1, <1>3
       DEF TypeOK, UpdateSettings, Reload, RemoveUserEntries, ReadSettings, ReloadFails, Take, Go
  <1>4. ASSUME NEW f \in Fires, Transition(f) \/ OnDSTTransition(f) PROVE CallbackAlive'
    <2>1. CASE Transition(f)
      <3>1. CASE armed
        BY <1>0, <2>1, <3>1 DEF TypeOK, Transition, CallbackAlive, Go
      <3>2. CASE ~armed
        BY <1>0, <1>1, <2>1, <3>2 DEF TypeOK, Transition, Go
      <3> QED
        BY <3>1, <3>2
    <2>2. CASE OnDSTTransition(f)
      BY <1>0, <1>1, <2>2
         DEF TypeOK, OnDSTTransition, ListSettings, ListFails, RemoveUserUSEntries, Take, Go
    <2> QED
      BY <1>4, <2>1, <2>2
  <1>5. ASSUME NEW s \in Starts, Start(s) \/ Load(s) PROVE CallbackAlive'
    <2>1. CASE Start(s)
      BY <1>0, <2>1 DEF TypeOK, Start, CallbackAlive, Go
    <2>2. CASE Load(s)
      BY <1>0, <1>1, <2>2 DEF TypeOK, Load, LoadSettings, LoadFails, Go
    <2> QED
      BY <1>5, <2>1, <2>2
  <1>6. CASE Crash
    BY <1>6 DEF Crash, CallbackAlive
  <1>7. CASE UNCHANGED vars
    BY <1>7 DEF vars, CallbackAlive
  <1> QED
    BY <1>2, <1>3, <1>4, <1>5, <1>6, <1>7 DEF Next

\* The DST callback is never lost, whatever fails between its firing and its being
\* armed again.
THEOREM CallbackSurvives == Spec => []CallbackAlive
  <1>1. Init => CallbackAlive
    BY DEF Init, CallbackAlive
  <1>2. TypeOK /\ CallbackAlive /\ [Next]_vars => CallbackAlive'
    BY AliveNext
  <1>3. EInv => TypeOK
    BY DEF EInv
  <1> QED
    BY EntriesInductive, <1>1, <1>2, <1>3, PTL DEF Spec

\* All variables keep their types.
THEOREM TypesKept == Spec => []TypeOK
  <1>1. EInv => TypeOK
    BY DEF EInv
  <1> QED
    BY EntriesInductive, <1>1, PTL

-----------------------------------------------------------------------------
(* A window that is off has no entry.                                      *)

Active(o) == pc[o] \notin {"idle", "end"}

\* Who is at work in which phase of the server.
Phased ==
    /\ \A s \in Starts : Active(s) => phase = "starting"
    /\ \A s, t \in Starts : Active(s) /\ Active(t) => s = t
    /\ \A o \in Puts \cup Fires : Active(o) => phase = "up"
    /\ armed => phase = "up"
    /\ phase = "down" => \A w \in Windows : entryIDs[w] = NoEntry

\* What o has to do is what it will register.
Pledged(o) ==
    \/ pc[o] \in {"register", "record"}
    \/ o \notin Puts /\ pc[o] \in {"reload", "remove"}

\* Unless a save raced, an operation registers only what is on now, and what is
\* recorded for a window that is off has still to be removed by a save.
Agrees ==
    /\ \A o \in Ops : pc[o] \in {"idle", "list"} => todo[o] = {}
    /\ row # NoRow /\ ~raced =>
          /\ \A o \in Ops : Pledged(o) => todo[o] \subseteq row.on
          /\ \A o \in Ops : pc[o] = "record" => \A e \in hand[o] : e[2] \in row.on
          /\ \A w \in Windows \ row.on :
                entryIDs[w] = NoEntry \/ \E p \in Puts : pc[p] = "reload"

\* Every step keeps the phases.
LEMMA PhasedNext ==
    ASSUME TypeOK, Phased, [Next]_vars
    PROVE  Phased'
  <1> USE ConstantsAssumption DEF ConstantsAssumption
  <1>0. Ops = Puts \cup Starts \cup Fires
    BY DEF Ops
  <1>1. ASSUME UNCHANGED phase, armed' => armed, \A o \in Ops : Active(o)' => Active(o),
               phase = "down" => UNCHANGED entryIDs
        PROVE  Phased'
    BY <1>0, <1>1 DEF Phased
  <1>2. ASSUME NEW o \in Ops, Replace(o) PROVE Phased'
    <2>1. CASE CronRemove(o) \/ SkipWindow(o)
      BY <1>1, <2>1 DEF CronRemove, SkipWindow, Active, table
    <2>2. CASE RemoveDone(o) \/ AddFunc(o) \/ RegisterDone(o)
      BY <1>1, <2>2 DEF TypeOK, RemoveDone, AddFunc, RegisterDone, Go, Active, table
    <2>3. CASE Record(o)
      <3>1. phase # "down"
        BY <1>0, <2>3 DEF Phased, Active, Record
      <3> QED
        BY <1>1, <2>3, <3>1 DEF TypeOK, Record, Go, Active
    <2>4. CASE ScheduleDSTCallback(o)
      <3>1. /\ Active(o) /\ ~Active(o)' /\ phase' = "up"
            /\ \A q \in Ops \ {o} : Active(q)' <=> Active(q)
        BY <2>4 DEF TypeOK, ScheduleDSTCallback, Go, Active
      <3>2. \A s \in Starts : ~Active(s)'
        BY <1>0, <3>1 DEF Phased
      <3> QED
        BY <3>1, <3>2 DEF Phased
    <2> QED
      BY <1>2, <2>1, <2>2, <2>3, <2>4 DEF Replace
  <1>3. ASSUME NEW p \in Puts, UpdateSettings(p) \/ Reload(p) PROVE Phased'
    <2>1. CASE UpdateSettings(p)
      <3>1. phase = "up" /\ phase' = "up" /\ \A q \in Ops \ {p} : Active(q)' <=> Active(q)
        BY <2>1, <1>0 DEF TypeOK, UpdateSettings, Go, Active
      <3> QED
        BY <1>0, <3>1 DEF Phased
    <2>2. CASE Reload(p)
      <3>1. phase = "up"
        BY <2>2 DEF Phased, Active, Reload, RemoveUserEntries, ReadSettings, ReloadFails
      <3> QED
        BY <1>0, <1>1, <2>2, <3>1
           DEF TypeOK, Reload, RemoveUserEntries, ReadSettings, ReloadFails, Take, Go, Active
    <2> QED
      BY <1>3, <2>1, <2>2
  <1>4. ASSUME NEW f \in Fires, Transition(f) \/ OnDSTTransition(f) PROVE Phased'
    <2>1. CASE Transition(f)
      <3>1. /\ Active(f)' => phase = "up"
            /\ \A q \in Ops \ {f} : Active(q)' <=> Active(q)
            /\ UNCHANGED <<phase, entryIDs>> /\ ~armed'
        BY <2>1, <1>0 DEF TypeOK, Transition, Go, Active, Phased, table
      <3> QED
        BY <1>0, <3>1 DEF Phased
    <2>2. CASE OnDSTTransition(f)
      <3>1. phase = "up"
        BY <2>2 DEF Phased, Active, OnDSTTransition, ListSettings, ListFails, RemoveUserUSEntries
      <3> QED
        BY <1>0, <1>1, <2>2, <3>1
           DEF TypeOK, OnDSTTransition, ListSettings, ListFails, RemoveUserUSEntries, Take, Go, Active
    <2> QED
      BY <1>4, <2>1, <2>2
  <1>5. ASSUME NEW s \in Starts, Start(s) \/ Load(s) PROVE Phased'
    <2>1. CASE Start(s)
      <3>1. /\ phase = "down" /\ phase' = "starting" /\ UNCHANGED armed
            /\ \A q \in Ops \ {s} : Active(q)' <=> Active(q)
        BY <2>1, <1>0 DEF TypeOK, Start, Go, Active
      <3> QED
        BY <1>0, <3>1 DEF Phased
    <2>2. CASE Load(s)
      BY <1>0, <1>1, <2>2 DEF TypeOK, Load, LoadSettings, LoadFails, Go, Active, table
    <2> QED
      BY <1>5, <2>1, <2>2
  <1>6. CASE Crash
    BY <1>0, <1>6 DEF Crash, Phased, Active
  <1>7. CASE UNCHANGED vars
    BY <1>7 DEF vars, table, Phased, Active
  <1> QED
    BY <1>2, <1>3, <1>4, <1>5, <1>6, <1>7 DEF Next

\* Every step keeps what the operations are about to register in agreement with
\* the saved row.
LEMMA AgreesNext ==
    ASSUME EInv, Phased, Agrees, [Next]_vars
    PROVE  Agrees'
  <1> USE ConstantsAssumption DEF ConstantsAssumption
  <1>0. TypeOK /\ Fresh /\ Ops = Puts \cup Starts \cup Fires
    BY DEF EInv, Ops
  \* An operation goes on; it registers no more than it had to.
  <1>1. ASSUME NEW o \in Ops, UNCHANGED <<row, raced>>,
               \A q \in Ops \ {o} : pc'[q] = pc[q] /\ todo'[q] = todo[q] /\ hand'[q] = hand[q],
               pc'[o] \notin {"idle", "list"},
               row # NoRow /\ Pledged(o)' => todo'[o] \subseteq row.on \/ (Pledged(o) /\ todo'[o] \subseteq todo[o]),
               pc'[o] = "record" => \A e \in hand'[o] : Pledged(o) /\ e[2] \in todo[o],
               \A w \in Windows : \/ entryIDs'[w] \in {entryIDs[w], NoEntry}
                                  \/ pc[o] = "record" /\ \E e \in hand[o] : w = e[2],
               pc[o] = "reload" => o \notin Puts \/ \A w \in Windows : entryIDs'[w] = NoEntry
        PROVE  Agrees'
    <2>1. \A q \in Ops : pc'[q] \in {"idle", "list"} => todo'[q] = {}
      BY <1>1 DEF Agrees
    <2> SUFFICES ASSUME row # NoRow, ~raced
                 PROVE  /\ \A q \in Ops : Pledged(q)' => todo'[q] \subseteq row.on
                        /\ \A q \in Ops : pc'[q] = "record" => \A e \in hand'[q] : e[2] \in row.on
                        /\ \A w \in Windows \ row.on :
                              entryIDs'[w] = NoEntry \/ \E p \in Puts : pc'[p] = "reload"
      BY <1>1, <2>1 DEF Agrees
    <2>2. \A q \in Ops : Pledged(q) => todo[q] \subseteq row.on
      BY DEF Agrees
    <2>3. \A q \in Ops \ {o} : Pledged(q)' <=> Pledged(q)
      BY <1>1 DEF Pledged
    <2>4. \A q \in Ops : Pledged(q)' => todo'[q] \subseteq row.on
      BY <1>1, <2>2, <2>3
    <2>5. \A q \in Ops : pc'[q] = "record" => \A e \in hand'[q] : e[2] \in row.on
      BY <1>1, <2>2 DEF Agrees
    <2>6. ASSUME NEW w \in Windows \ row.on
          PROVE  entryIDs'[w] = NoEntry \/ \E p \in Puts : pc'[p] = "reload"
      <3>1. pc[o] = "record" => \A e \in hand[o] : w # e[2]
        BY DEF Agrees
      <3>2. entryIDs'[w] \in {entryIDs[w], NoEntry}
        BY <1>1, <3>1
      <3>3. entryIDs[w] = NoEntry \/ \E p \in Puts : pc[p] = "reload"
        BY DEF Agrees
      <3>4. ASSUME NEW p \in Puts, pc[p] = "reload"
            PROVE  entryIDs'[w] = NoEntry \/ pc'[p] = "reload"
        BY <1>0, <1>1, <3>4
      <3> QED
        BY <3>2, <3>3, <3>4
    <2> QED
      BY <2>4, <2>5, <2>6
  <1>2. ASSUME NEW o \in Ops, Replace(o) PROVE Agrees'
    <2>1. CASE CronRemove(o)
      BY <1>0, <1>1, <2>1 DEF TypeOK, CronRemove, Pledged
    <2>2. CASE RemoveDone(o)
      BY <1>0, <1>1, <2>2 DEF TypeOK, RemoveDone, Go, Pledged, table, working
    <2>3. CASE SkipWindow(o)
      BY <1>0, <1>1, <2>3 DEF TypeOK, SkipWindow, Pledged, table
    <2>4. CASE AddFunc(o)
      <3>1. PICK w \in todo[o] :
               /\ hand' = [hand EXCEPT ![o] = {<<o, w>>}]
               /\ todo' = [todo EXCEPT ![o] = @ \ {w}]
        BY <2>4 DEF AddFunc
      <3>2. /\ pc[o] = "register" /\ pc'[o] = "record" /\ hand'[o] = {<<o, w>>}
            /\ todo'[o] \subseteq todo[o]
            /\ \A q \in Ops \ {o} : pc'[q] = pc[q] /\ todo'[q] = todo[q] /\ hand'[q] = hand[q]
            /\ UNCHANGED <<row, raced, entryIDs>>
        BY <1>0, <2>4, <3>1 DEF TypeOK, AddFunc, Go
      <3> QED
        BY <1>1, <3>2 DEF Pledged
    <2>5. CASE Record(o)
      <3>1. PICK e \in hand[o] : entryIDs' = [entryIDs EXCEPT ![e[2]] = e]
        BY <2>5 DEF Record
      <3>2. \A w \in Windows : entryIDs'[w] = entryIDs[w] \/ w = e[2]
        BY <1>0, <3>1 DEF TypeOK
      <3>3. /\ pc[o] = "record" /\ pc'[o] = "register" /\ todo'[o] = todo[o]
            /\ \A q \in Ops \ {o} : pc'[q] = pc[q] /\ todo'[q] = todo[q] /\ hand'[q] = hand[q]
            /\ UNCHANGED <<row, raced>>
        BY <1>0, <2>5 DEF TypeOK, Record, Go
      <3> QED
        BY <1>1, <3>1, <3>2, <3>3 DEF Pledged
    <2>6. CASE RegisterDone(o)
      BY <1>0, <1>1, <2>6 DEF TypeOK, RegisterDone, Go, Pledged, table, working
    <2>7. CASE ScheduleDSTCallback(o)
      BY <1>0, <1>1, <2>7 DEF TypeOK, ScheduleDSTCallback, Go, Pledged, table, working
    <2> QED
      BY <1>2, <2>1, <2>2, <2>3, <2>4, <2>5, <2>6, <2>7 DEF Replace
  <1>3. ASSUME NEW p \in Puts, UpdateSettings(p) PROVE Agrees'
    <2>1. /\ pc'[p] = "reload" /\ pc[p] = "idle" /\ UNCHANGED <<todo, hand>>
          /\ \A q \in Ops \ {p} : pc'[q] = pc[q]
          /\ ~raced' => \A q \in Ops \ {p} : pc[q] \in {"idle", "end"}
      BY <1>0, <1>3 DEF TypeOK, UpdateSettings, Go, working
    <2> QED
      BY <1>0, <2>1 DEF Agrees, Pledged
  <1>4. ASSUME NEW p \in Puts, Reload(p) PROVE Agrees'
    <2>1. CASE RemoveUserEntries(p)
      BY <1>0, <1>1, <2>1 DEF TypeOK, RemoveUserEntries, Take, Go, Pledged
    <2>2. CASE ReadSettings(p)
      <3>1. row # NoRow => GetUserScheduleSettings.on = row.on
        BY DEF GetUserScheduleSettings, Scanned
      <3>2. /\ pc[p] = "read" /\ pc'[p] = "register" /\ todo'[p] = GetUserScheduleSettings.on
            /\ \A q \in Ops \ {p} : pc'[q] = pc[q] /\ todo'[q] = todo[q]
            /\ UNCHANGED <<row, raced, entryIDs, hand>>
        BY <1>0, <2>2 DEF TypeOK, ReadSettings, Go, table
      <3> QED
        BY <1>0, <1>1, <3>1, <3>2
    <2>3. CASE ReloadFails(p)
      BY <1>0, <1>1, <2>3 DEF TypeOK, ReloadFails, Go, Pledged, table, working
    <2> QED
      BY <1>4, <2>1, <2>2, <2>3 DEF Reload
  <1>5. ASSUME NEW f \in Fires, Transition(f) PROVE Agrees'
    <2>1. /\ pc[f] = "idle" /\ pc'[f] \in {"list", "end"} /\ todo[f] = {}
          /\ \A q \in Ops \ {f} : pc'[q] = pc[q]
          /\ UNCHANGED <<row, raced, entryIDs, todo, hand>>
      BY <1>0, <1>5 DEF TypeOK, Transition, Go, Agrees, table, working
    <2> QED
      BY <1>0, <2>1 DEF Agrees, Pledged
  <1>6. ASSUME NEW f \in Fires, OnDSTTransition(f) PROVE Agrees'
    <2>1. CASE ListSettings(f)
      <3>1. /\ pc[f] = "list" /\ pc'[f] \in {"reload", "arm"}
            /\ pc'[f] = "reload" => todo'[f] \subseteq row.on
            /\ \A q \in Ops \ {f} : pc'[q] = pc[q] /\ todo'[q] = todo[q]
            /\ UNCHANGED <<row, raced, entryIDs, hand>>
        BY <1>0, <2>1 DEF TypeOK, ListSettings, Go, table
      <3> QED
        BY <1>0, <1>1, <3>1 DEF Pledged
    <2>2. CASE ListFails(f)
      BY <1>0, <1>1, <2>2 DEF TypeOK, ListFails, Go, Pledged, table, working
    <2>3. CASE RemoveUserUSEntries(f)
      BY <1>0, <1>1, <2>3 DEF TypeOK, RemoveUserUSEntries, Take, Go, Pledged
    <2> QED
      BY <1>6, <2>1, <2>2, <2>3 DEF OnDSTTransition
  <1>7. ASSUME NEW s \in Starts, Start(s) PROVE Agrees'
    <2>1. /\ pc[s] = "idle" /\ pc'[s] = "list" /\ todo[s] = {}
          /\ \A q \in Ops \ {s} : pc'[q] = pc[q] /\ pc[q] \in {"idle", "end"}
          /\ \A w \in Windows : entryIDs[w] = NoEntry
          /\ UNCHANGED <<row, entryIDs, todo, hand>>
      BY <1>0, <1>7 DEF TypeOK, Start, Go, Agrees, Phased, Active, table, working
    <2> QED
      BY <1>0, <2>1 DEF Agrees, Pledged
  <1>8. ASSUME NEW s \in Starts, Load(s) PROVE Agrees'
    <2>1. CASE LoadSettings(s)
      <3>1. row # NoRow => GetUserScheduleSettings.on = row.on
        BY DEF GetUserScheduleSettings, Scanned
      <3>2. /\ pc[s] = "list" /\ pc'[s] = "register"
            /\ row # NoRow => todo'[s] = GetUserScheduleSettings.on
            /\ \A q \in Ops \ {s} : pc'[q] = pc[q] /\ todo'[q] = todo[q]
            /\ UNCHANGED <<row, raced, entryIDs, hand>>
        BY <1>0, <2>1 DEF TypeOK, LoadSettings, Go, table
      <3> QED
        BY <1>0, <1>1, <3>1, <3>2
    <2>2. CASE LoadFails(s)
      <3>1. todo[s] = {}
        BY <1>0, <2>2 DEF LoadFails, Agrees
      <3> QED
        BY <1>0, <1>1, <2>2, <3>1 DEF TypeOK, LoadFails, Go, Pledged, table, working
    <2> QED
      BY <1>8, <2>1, <2>2 DEF Load
  <1>9. CASE Crash
    <2>1. /\ \A o \in Ops : pc'[o] \in {"idle", "end"} /\ todo'[o] = {}
          /\ \A w \in Windows : entryIDs'[w] = NoEntry
      BY <1>9 DEF Crash
    <2> QED
      BY <1>0, <2>1 DEF Agrees, Pledged
  <1>10. CASE UNCHANGED vars
    BY <1>10 DEF vars, table, working, Agrees, Pledged
  <1> QED
    BY <1>2, <1>3, <1>4, <1>5, <1>6, <1>7, <1>8, <1>9, <1>10 DEF Next

\* A window that is off has no entry once the server is at rest, for any number of
\* saves, starts, DST transitions and failures that do not overlap with a save.
THEOREM OffIsOff == Spec => []OffStaysOff
  <1>1. ASSUME Init PROVE Phased /\ Agrees
    <2>1. \A o \in Ops : pc[o] = "idle" /\ todo[o] = {}
      BY <1>1 DEF Init
    <2>2. Phased
      BY <1>1, <2>1 DEF Init, Phased, Active, Ops
    <2>3. Agrees
      BY <1>1, <2>1 DEF Init, Agrees
    <2> QED
      BY <2>2, <2>3
  <1>2. EInv /\ Phased /\ Agrees /\ [Next]_vars => Phased' /\ Agrees'
    BY PhasedNext, AgreesNext DEF EInv
  <1>3. Agrees => OffStaysOff
    BY DEF Agrees, OffStaysOff, Quiet, Ops
  <1> QED
    BY EntriesInductive, <1>1, <1>2, <1>3, PTL DEF Spec
=============================================================================
