------------------------------ MODULE Migrations ------------------------------
(***************************************************************************)
(* The migrations of the schema: the commands "migrate up" and "migrate    *)
(* down" (migration.Runner), and the server that compares the rows of      *)
(* schema_migrations with its files before it starts (VerifyCurrent).      *)
(*                                                                         *)
(* A script is one transaction; the row that records it is written by a    *)
(* statement of its own afterwards.  Nothing keeps two runners apart, and  *)
(* each may stop anywhere.  Releases and branches have different files,    *)
(* all well-formed, each with both scripts.                                *)
(*                                                                         *)
(* What a script does is reduced to what its second execution does.  Most  *)
(* say IF [NOT] EXISTS and do nothing.  Some fail: up 015-017, 019 and     *)
(* 021-023, down 015 and 021.  Up 020 adds 99999 to every key once more,   *)
(* and down 020 does not take that back.  A script that lacks what another *)
(* one makes fails: any script may (Stop).                                 *)
(***************************************************************************)
EXTENDS Integers, FiniteSets, FiniteSetsExt

CONSTANTS
    Runners,     \* processes of cmd/migrate
    Servers,     \* processes of cmd/server
    Releases,    \* sets of versions: the files that come with a process
    StrictUp,    \* versions whose up script fails where it has been executed
    StrictDown,  \* versions whose down script fails where it has been executed
    Additive,    \* versions whose up script adds with every execution
    MaxTimes     \* bound: executions of an additive script

Versions == UNION Releases

MigrationsAssumption ==
    /\ Releases \subseteq SUBSET Nat
    /\ Additive \subseteq Versions
    /\ MaxTimes \in Nat \ {0}

VARIABLES
    hasTable,  \* schema_migrations exists
    recorded,  \* its rows
    effects,   \* version -> how often the schema has its changes
    runner,    \* runner -> its place, files, versions to go, and whether it met another
    server,    \* server -> running, its files, and the versions it may miss (history)
    doubt,     \* versions left by an interrupted or overlapping runner (history)
    excused    \* versions ever interrupted, overlapped or rolled back (history)

vars == <<hasTable, recorded, effects, runner, server, doubt, excused>>

Idle == [pc |-> "idle", disk |-> {}, todo |-> {}, met |-> FALSE]
Off == [up |-> FALSE, disk |-> {}, lacks |-> {}]

Init ==
    /\ hasTable = FALSE
    /\ recorded = {}
    /\ effects = [v \in Versions |-> 0]
    /\ runner = [r \in Runners |-> Idle]
    /\ server = [s \in Servers |-> Off]
    /\ doubt = {} /\ excused = {}

(* The files of a release are sorted by version.                           *)
NextFile(r) == Min(runner[r].todo)

(* A script has been committed and its row not been written.               *)
InHand == {NextFile(r) : r \in {q \in Runners : runner[q].pc \in {"record", "remove"}}}

Suspect(set, r, v) == IF runner[r].met THEN set \cup {v} ELSE set
Settled(r, v) == IF runner[r].met THEN doubt ELSE doubt \ {v}

-----------------------------------------------------------------------------
(* The command is started; CREATE TABLE IF NOT EXISTS schema_migrations.   *)
EnsureTable(r) ==
    LET others == {q \in Runners \ {r} : runner[q] # Idle} IN
    /\ runner[r] = Idle
    /\ \E disk \in Releases, direction \in {"up", "down"} :
         runner' = [q \in Runners |->
                      IF q = r THEN [pc |-> direction, disk |-> disk, todo |-> {}, met |-> others # {}]
                      ELSE IF q \in others THEN [runner[q] EXCEPT !.met = TRUE]
                      ELSE runner[q]]
    /\ hasTable' = TRUE
    /\ UNCHANGED <<recorded, effects, server, doubt, excused>>

Missing(disk) == disk \ recorded

(* Up: the rows are read once, before the first script.                    *)
AppliedVersions(r) ==
    LET missing == Missing(runner[r].disk) IN
    /\ runner[r].pc = "up"
    /\ runner' = [runner EXCEPT ![r] =
                    IF missing = {} THEN Idle ELSE [@ EXCEPT !.pc = "apply", !.todo = missing]]
    /\ UNCHANGED <<hasTable, recorded, effects, server, doubt, excused>>

(* The transaction of an up script.                                        *)
ExecUp(r) ==
    LET v == NextFile(r) IN
    /\ runner[r].pc = "apply"
    /\ v \in StrictUp => effects[v] = 0
    /\ v \in Additive => effects[v] < MaxTimes
    /\ effects' = [effects EXCEPT ![v] = IF v \in Additive THEN @ + 1 ELSE 1]
    /\ runner' = [runner EXCEPT ![r].pc = "record"]
    /\ doubt' = Suspect(doubt, r, v) /\ excused' = Suspect(excused, r, v)
    /\ UNCHANGED <<hasTable, recorded, server>>

(* INSERT of the version, which is the primary key.                        *)
RecordApplied(r) ==
    LET v == NextFile(r)
        rest == runner[r].todo \ {v}
    IN
    /\ runner[r].pc = "record" /\ v \notin recorded
    /\ recorded' = recorded \cup {v}
    /\ runner' = [runner EXCEPT ![r] =
                    IF rest = {} THEN Idle ELSE [@ EXCEPT !.pc = "apply", !.todo = rest]]
    /\ doubt' = Settled(r, v)
    /\ UNCHANGED <<hasTable, effects, server, excused>>

(* Down: the greatest version that is recorded, if its files are here.     *)
AppliedHistory(r) ==
    /\ runner[r].pc = "down"
    /\ runner' = [runner EXCEPT ![r] =
                    IF recorded = {} \/ Max(recorded) \notin runner[r].disk THEN Idle
                    ELSE [@ EXCEPT !.pc = "rollback", !.todo = {Max(recorded)}]]
    /\ UNCHANGED <<hasTable, recorded, effects, server, doubt, excused>>

(* The transaction of a down script.                                       *)
ExecDown(r) ==
    LET v == NextFile(r) IN
    /\ runner[r].pc = "rollback"
    /\ v \in StrictDown => effects[v] > 0
    /\ effects' = IF v \in Additive THEN effects ELSE [effects EXCEPT ![v] = 0]
    /\ runner' = [runner EXCEPT ![r].pc = "remove"]
    /\ doubt' = Suspect(doubt, r, v) /\ excused' = excused \cup {v}
    /\ server' = [s \in Servers |->
                    IF server[s].up THEN [server[s] EXCEPT !.lacks = @ \cup {v}] ELSE Off]
    /\ UNCHANGED <<hasTable, recorded>>

(* DELETE of its row.                                                      *)
RemoveApplied(r) ==
    LET v == NextFile(r) IN
    /\ runner[r].pc = "remove"
    /\ recorded' = recorded \ {v}
    /\ runner' = [runner EXCEPT ![r] = Idle]
    /\ doubt' = Settled(r, v)
    /\ UNCHANGED <<hasTable, effects, server, excused>>

\* Mutant: an error of the script is ignored and the version recorded.
Stop_Records(r) ==
    LET torn == IF runner[r].pc \in {"record", "remove"} THEN {NextFile(r)} ELSE {} IN
    /\ runner[r] # Idle
    /\ runner' = [runner EXCEPT ![r] = Idle]
    /\ recorded' = IF runner[r].pc = "apply" THEN recorded \cup {NextFile(r)} ELSE recorded
    /\ doubt' = doubt \cup torn /\ excused' = excused \cup torn
    /\ UNCHANGED <<hasTable, effects, server>>

(* A statement or a script fails, which takes all of the script back, or   *)
(* the process is killed: the command ends where it is.                    *)
Stop(r) ==
    LET torn == IF runner[r].pc \in {"record", "remove"} THEN {NextFile(r)} ELSE {} IN
    /\ runner[r] # Idle
    /\ runner' = [runner EXCEPT ![r] = Idle]
    /\ doubt' = doubt \cup torn /\ excused' = excused \cup torn
    /\ UNCHANGED <<hasTable, recorded, effects, server>>

-----------------------------------------------------------------------------
(* The rows cover the files; rows without a file are no obstacle.          *)
VerifyCurrent(disk) == hasTable /\ Missing(disk) = {}

(* A server starts, or else ends with the message that says what to do.    *)
StartServer(s) ==
    /\ ~ server[s].up
    /\ \E disk \in Releases :
         /\ VerifyCurrent(disk)
         /\ server' = [server EXCEPT ![s] = [up |-> TRUE, disk |-> disk, lacks |-> doubt \cup InHand]]
    /\ UNCHANGED <<hasTable, recorded, effects, runner, doubt, excused>>

StopServer(s) ==
    /\ server[s].up
    /\ server' = [server EXCEPT ![s] = Off]
    /\ UNCHANGED <<hasTable, recorded, effects, runner, doubt, excused>>

Next ==
    \/ \E r \in Runners :
         \/ EnsureTable(r) \/ AppliedVersions(r) \/ ExecUp(r) \/ RecordApplied(r)
         \/ AppliedHistory(r) \/ ExecDown(r) \/ RemoveApplied(r) \/ Stop(r)
    \/ \E s \in Servers : StartServer(s) \/ StopServer(s)

Spec == Init /\ [][Next]_vars

-----------------------------------------------------------------------------
TypeOK ==
    /\ hasTable \in BOOLEAN
    /\ recorded \subseteq Versions /\ doubt \subseteq Versions /\ excused \subseteq Versions
    /\ effects \in [Versions -> 0 .. MaxTimes]
    /\ runner \in [Runners -> [pc : {"idle", "up", "apply", "record", "down", "rollback", "remove"},
                               disk : Releases \cup {{}}, todo : SUBSET Versions, met : BOOLEAN]]
    /\ \A r \in Runners :
         /\ runner[r].todo \subseteq runner[r].disk
         /\ (runner[r].pc \in {"apply", "record", "rollback", "remove"}) <=> (runner[r].todo # {})
    /\ server \in [Servers -> [up : BOOLEAN, disk : Releases \cup {{}}, lacks : SUBSET Versions]]

(* The rows say what the schema has, but for the version whose script a    *)
(* runner has just committed, and for those that a runner left half done   *)
(* or executed beside another.  A runner that meets no other settles what  *)
(* it executes and records, whatever was left before it.                   *)
RowsTellSchema ==
    \A v \in Versions \ (doubt \cup InHand) :
        /\ v \in recorded => effects[v] > 0
        /\ effects[v] > 0 => v \in recorded \/ v \in Additive

(* A script that adds with every execution is executed twice only after a  *)
(* rollback, an interruption or an overlap.                                *)
AddedOnce == \A v \in Additive : effects[v] > 1 => v \in excused

(* A server that has passed the verification has the schema of its files,  *)
(* but for what was half done then and what was rolled back since: in any  *)
(* order of releases, branches and rollbacks.                              *)
ServedSchema ==
    \A s \in Servers : \A v \in server[s].disk \ server[s].lacks : effects[v] > 0

(* What schema_migrations promises to those who read it: three views of    *)
(* the same rows, that hold together.                                      *)
SchemaSound == RowsTellSchema /\ AddedOnce /\ ServedSchema
=============================================================================
