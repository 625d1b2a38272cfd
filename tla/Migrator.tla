------------------------------ MODULE Migrator ------------------------------
(***************************************************************************)
(* clickhouse-migrator: the commands that apply, undo and record the       *)
(* migrations of a ClickHouse cluster.  Running a migration and recording  *)
(* it are separate statements, without a transaction.  The version table   *)
(* is Distributed: a row inserted into it may wait on the node that took   *)
(* it (sending), and DELETE is a mutation that is accepted now and         *)
(* executed later (deleting).  The goose provider, which decides what to   *)
(* run, is a library; Up and Down below are what its commands do with the  *)
(* store of this program.                                                  *)
(***************************************************************************)
EXTENDS Integers, FiniteSets, FiniteSetsExt

CONSTANTS
    Versions,       \* of migrations, positive
    MaxCommands,    \* bound: commands run, one after the other
    MaxFaults       \* bound: commands cut by a failed call or a crash

ASSUME MigratorAssumption ==
    /\ IsFiniteSet(Versions) /\ Versions \subseteq Nat \ {0}
    /\ MaxCommands \in Nat /\ MaxFaults \in Nat

VARIABLES
    tables,     \* the migrations whose effect is in the schema
    rows,       \* the versions seen in the version table
    sending,    \* version -> rows inserted that have not arrived yet
    deleting,   \* the versions whose rows an accepted mutation will delete
    cmd,        \* the command that runs
    step,       \* where it is; between commands, how the last one ended
    todo,       \* versions it has still to run or, in reshard, to put back
    commands, faults,
    \* History, of versions:
    torn,       \* a cut command ran it or dropped its row, and did not record it
    crossed,    \* its row was on its way, in or out, as a command rewrote it
    stale,      \* its row was there when the command looked, to be deleted later
    unseen      \* its row was not there yet when the command looked

dbVars == <<tables, rows, sending, deleting>>
history == <<torn, crossed, stale, unseen>>
vars == <<dbVars, cmd, step, todo, commands, faults, history>>

-----------------------------------------------------------------------------
(* The commands.  Each comes with the directory of migrations it reads and *)
(* a version to go to; the flag --s allows migrations out of order, which  *)
(* is of use to those that go up.                                          *)

Command(name, targets, orders) ==
    [name : {name}, target : targets, files : (SUBSET Versions) \ {{}}, outOfOrder : orders]

UpCmd == Command("up", {Max(Versions)}, BOOLEAN)
UpToCmd == Command("up", Versions, BOOLEAN)
UpByOneCmd == Command("up-by-one", {Max(Versions)}, BOOLEAN)
DownCmd == Command("down", {0}, {FALSE})
DownToCmd == Command("down-to", Versions \cup {0}, {FALSE})
ResetCmd == Command("reset", {0}, {FALSE})
RerunCmd == Command("rerun", {0}, BOOLEAN)
ReshardCmd == Command("reshard", {0}, {FALSE})
StatusCmd == Command("status", {0}, {FALSE})

Commands ==
    UpCmd \cup UpToCmd \cup UpByOneCmd \cup DownCmd \cup DownToCmd
        \cup ResetCmd \cup RerunCmd \cup ReshardCmd \cup StatusCmd

NoCommand == [name |-> "none", target |-> 0, files |-> {}, outOfOrder |-> FALSE]

MigratorTypeOK ==
    /\ tables \subseteq Versions
    /\ rows \subseteq Versions \cup {0}
    /\ sending \in [Versions \cup {0} -> Nat]
    /\ deleting \subseteq rows \ {0}
    /\ cmd \in Commands \cup {NoCommand} \/ cmd.name \in {"reset", "rerun"}
    /\ step \in {"ok", "failed", "store", "reopen", "status", "plan up", "plan down",
                 "up", "up record", "down", "down record", "read", "truncate", "fill"}
    /\ todo \subseteq Versions
    /\ commands \in 0 .. MaxCommands
    /\ faults \in 0 .. MaxFaults
    /\ torn \subseteq Versions
    /\ crossed \subseteq Versions
    /\ stale \subseteq Versions
    /\ unseen \subseteq Versions

Init ==
    /\ tables = {}
    /\ rows = {}
    /\ sending = [v \in Versions \cup {0} |-> 0]
    /\ deleting = {}
    /\ cmd = NoCommand
    /\ step = "ok"
    /\ todo = {}
    /\ commands = 0
    /\ faults = 0
    /\ torn = {}
    /\ crossed = {}
    /\ stale = {}
    /\ unseen = {}

UnderWay == {v \in Versions : sending[v] > 0}

-----------------------------------------------------------------------------
(* The version table.                                                      *)

(* The row is written at once, or later if it belongs to another shard. *)
Insert(v) ==
    \/ /\ rows' = rows \cup {v}
       /\ deleting' = deleting \ {v}
       /\ UNCHANGED sending
    \/ /\ sending' = [sending EXCEPT ![v] = @ + 1]
       /\ UNCHANGED <<rows, deleting>>

(* MUTANT: without ON CLUSTER, which misses a row of another shard. *)
DeleteOnOneShard(v) ==
    /\ deleting' \in {deleting, deleting \cup ({v} \cap rows)}
    /\ UNCHANGED <<rows, sending>>

Delete(v) ==
    /\ deleting' = deleting \cup ({v} \cap rows)
    /\ UNCHANGED <<rows, sending>>

(* In the background: a row arrives, or a mutation is executed. *)
Arrive(v) ==
    /\ sending[v] > 0
    /\ sending' = [sending EXCEPT ![v] = @ - 1]
    /\ rows' = rows \cup {v}
    /\ deleting' = deleting \ {v}
    /\ UNCHANGED <<tables, cmd, step, todo, commands, faults, history>>

Mutate(v) ==
    /\ v \in deleting
    /\ deleting' = deleting \ {v}
    /\ rows' = rows \ {v}
    /\ UNCHANGED <<tables, sending, cmd, step, todo, commands, faults, history>>

-----------------------------------------------------------------------------
(* A command.  It opens the store, then goes its own way.                  *)

Start(c) ==
    /\ step \in {"ok", "failed"}
    /\ commands < MaxCommands
    /\ cmd' = c
    /\ step' = "store"
    /\ commands' = commands + 1
    /\ stale' = {} /\ unseen' = {}
    /\ UNCHANGED <<dbVars, todo, faults, torn, crossed>>

End(result) == step' = result /\ cmd' = NoCommand

(* The table is created if it must be; an empty one is given version 0. *)
CreateVersionTable == IF rows = {} THEN Insert(0) ELSE UNCHANGED <<rows, sending, deleting>>

(* Every command opens the store, and reshard does so a second time. *)
NewStore ==
    /\ step \in {"store", "reopen"}
    /\ CreateVersionTable
    /\ step' = CASE step = "reopen" -> "read"
                 [] step = "store" /\ cmd.name = "reshard" -> "reopen"
                 [] step = "store" /\ cmd.name \in {"reset", "rerun", "status"} -> "status"
                 [] step = "store" /\ cmd.name \in {"up", "up-by-one"} -> "plan up"
                 [] OTHER -> "plan down"
    /\ UNCHANGED <<tables, cmd, todo, commands, faults, history>>

(* The library's provider begins by looking for version 0. *)
Initialized == 0 \in rows

Status ==
    /\ step = "status" /\ cmd.name = "status"
    /\ Initialized
    /\ End("ok")
    /\ UNCHANGED <<dbVars, todo, commands, faults, history>>

(* Reset and Rerun ask for the status of the migrations, one per file, and *)
(* go down to the version of the first.                                    *)
Reset ==
    /\ step = "status" /\ cmd.name # "status"
    /\ Initialized
    /\ cmd' = [cmd EXCEPT !.target = Min(cmd.files)]
    /\ step' = "plan down"
    /\ UNCHANGED <<dbVars, todo, commands, faults, history>>

(* Versions are left to run, or the command ends, or Rerun goes up. *)
Proceed(direction, left) ==
    IF left # {} THEN step' = direction /\ UNCHANGED cmd
    ELSE IF direction = "down" /\ cmd.name = "rerun"
    THEN step' = "plan up" /\ cmd' = [cmd EXCEPT !.target = Max(Versions)]
    ELSE End("ok")

ByOne == cmd.name \in {"up-by-one", "down"}

ListMigrations == rows

(* A command goes by what it listed, until it lists again. *)
Look == stale' = deleting \ UnderWay /\ unseen' = UnderWay \ rows

(* Going up: the files without a row. *)
Pending == {v \in cmd.files \ ListMigrations : v <= cmd.target}

(* One below the latest row is an error unless the provider allows it. *)
Missing == {v \in Pending : v < Max(ListMigrations)}

CanGoUp == (Missing = {} \/ cmd.outOfOrder) /\ (ByOne => Pending # {})

(* Going down: every row above the target, and each must have its file. *)
Applied == {v \in ListMigrations : v > cmd.target}

CanGoDown == Applied \subseteq cmd.files /\ (ByOne => Applied # {})

(* Whoever goes up or down checks that version 0 is there and lists the    *)
(* versions once.                                                          *)
Plan(direction, able, versions, first) ==
    /\ step = IF direction = "up" THEN "plan up" ELSE "plan down"
    /\ Initialized /\ able
    /\ todo' = IF ByOne THEN {first} ELSE versions
    /\ Proceed(direction, todo')
    /\ Look
    /\ UNCHANGED <<dbVars, commands, faults, torn, crossed>>

PlanUp == Plan("up", CanGoUp, Pending, Min(Pending))
PlanDown == Plan("down", CanGoDown, Applied, Max(Applied))

(* The command ends with an error of its own. *)
Refuse ==
    /\ \/ step \in {"status", "plan up", "plan down"} /\ ~Initialized
       \/ step = "plan up" /\ Initialized /\ ~CanGoUp
       \/ step = "plan down" /\ Initialized /\ ~CanGoDown
    /\ End("failed")
    /\ UNCHANGED <<dbVars, todo, commands, faults, history>>

(* The statements of a migration; those of the repository are idempotent. *)
RunUp ==
    /\ step = "up"
    /\ tables' = tables \cup {Min(todo)}
    /\ step' = "up record"
    /\ UNCHANGED <<rows, sending, deleting, cmd, todo, commands, faults, history>>

RunDown ==
    /\ step = "down"
    /\ tables' = tables \ {Max(todo)}
    /\ step' = "down record"
    /\ UNCHANGED <<rows, sending, deleting, cmd, todo, commands, faults, history>>

(* A row of the version that is still on its way outlives the deletion. *)
Recorded(v, direction) ==
    /\ todo' = todo \ {v}
    /\ Proceed(direction, todo')
    /\ torn' = torn \ {v}
    /\ crossed' = IF direction = "down" /\ v \in UnderWay THEN crossed \cup {v} ELSE crossed \ {v}
    /\ UNCHANGED <<tables, commands, faults, stale, unseen>>

RecordUp == step = "up record" /\ Insert(Min(todo)) /\ Recorded(Min(todo), "up")
RecordDown == step = "down record" /\ Delete(Max(todo)) /\ Recorded(Max(todo), "down")

-----------------------------------------------------------------------------
(* Reshard: the rows are read, deleted, and written again.                 *)

(* MUTANT: version 0 is not left out. *)
ReadRowsAndZero ==
    /\ step = "read"
    /\ todo' = rows
    /\ step' = "truncate"
    /\ Look
    /\ UNCHANGED <<dbVars, cmd, commands, faults, torn, crossed>>

(* MUTANT: reads the local table, where the rows of other shards are not. *)
ReadRowsOfOneShard ==
    /\ step = "read"
    /\ todo' \in SUBSET (rows \ {0})
    /\ step' = "truncate"
    /\ Look
    /\ UNCHANGED <<dbVars, cmd, commands, faults, torn, crossed>>

ReadRows ==
    /\ step = "read"
    /\ todo' = rows \ {0}
    /\ step' = "truncate"
    /\ Look
    /\ UNCHANGED <<dbVars, cmd, commands, faults, torn, crossed>>

(* A row that came after it was read goes with the rest. *)
Truncate ==
    /\ step = "truncate"
    /\ rows' = {}
    /\ deleting' = {}
    /\ crossed' = crossed \cup ((unseen \cap rows) \ UnderWay)
    /\ step' = "fill"
    /\ UNCHANGED <<tables, sending, cmd, todo, commands, faults, torn, stale, unseen>>

(* A row without a file is a panic, unless its number occurs in the name   *)
(* of another file.                                                        *)
Panic ==
    /\ step = "fill"
    /\ ~ todo \subseteq cmd.files
    /\ torn' = torn \cup todo
    /\ todo' = {}
    /\ End("failed")
    /\ UNCHANGED <<dbVars, commands, faults, crossed, stale, unseen>>

(* MUTANT: a row without a file is passed over. *)
FillKnown ==
    /\ step = "fill"
    /\ rows' = rows \cup {0} \cup (todo \cap cmd.files)
    /\ crossed' = crossed \cup stale
    /\ todo' = {}
    /\ End("ok")
    /\ UNCHANGED <<tables, sending, deleting, commands, faults, torn, stale, unseen>>

(* Waits for the shards and a quorum of replicas. *)
BulkInsert(versions) == rows' = rows \cup versions

(* What was read is written back, with version 0, and so is a row that was *)
(* to be deleted.                                                          *)
Fill ==
    /\ step = "fill"
    /\ BulkInsert({0} \cup todo)
    /\ crossed' = crossed \cup stale
    /\ todo' = {}
    /\ End("ok")
    /\ UNCHANGED <<tables, sending, deleting, commands, faults, torn, stale, unseen>>

(* Any call fails, or the process dies, before the step it is at. *)
Fail ==
    /\ step \notin {"ok", "failed"}
    /\ faults < MaxFaults
    /\ faults' = faults + 1
    /\ torn' = CASE step = "up record" -> torn \cup {Min(todo)}
                 [] step = "down record" -> torn \cup {Max(todo)}
                 [] step = "fill" -> torn \cup todo
                 [] OTHER -> torn
    /\ todo' = {}
    /\ End("failed")
    /\ UNCHANGED <<dbVars, commands, crossed, stale, unseen>>

Next ==
    \/ \E c \in Commands : Start(c)
    \/ \E v \in Versions \cup {0} : Arrive(v) \/ Mutate(v)
    \/ NewStore \/ Status \/ Reset \/ PlanUp \/ PlanDown \/ Refuse
    \/ RunUp \/ RecordUp \/ RunDown \/ RecordDown
    \/ ReadRows \/ Truncate \/ Panic \/ Fill
    \/ Fail

Spec == Init /\ [][Next]_vars

-----------------------------------------------------------------------------

(* Versions whose record says nothing sure of the schema, until a command *)
(* runs and records them again.                                            *)
Unsure == torn \cup crossed

(* What the version table shows once its background work is done. *)
Settled == ((rows \ deleting) \cup UnderWay) \ {0}

(***************************************************************************)
(* Between commands the schema and the version table, its background work  *)
(* counted as done, agree on every migration but for two kinds, each until *)
(* it is recorded again: those that a cut command ran, or dropped the row  *)
(* of, and did not record; and those whose row was on its way while a      *)
(* command rewrote it, that is deleted it before it came (down), emptied   *)
(* the table when it had come after the reading (reshard), or wrote it     *)
(* back although it was to be deleted (reshard).  In particular the table  *)
(* agrees on all other migrations after any number of further commands.    *)
(***************************************************************************)
RecordAccuracy ==
    step \in {"ok", "failed"} =>
        (tables \ Settled) \cup (Settled \ tables) \subseteq Unsure

(* What is in the schema, and the running command could tell. *)
Known == tables \ (Unsure \cup unseen)

(***************************************************************************)
(* Migrations are built on one another: none is applied while a later one  *)
(* is in the schema, unless the command was given --s, which is what makes *)
(* the provider accept it (goose.go:22; the usage text describes --s as    *)
(* numbering and gives --allow-missing this meaning); and none is undone   *)
(* before a later one.  Excepted as the later one are those of             *)
(* RecordAccuracy, and those whose row was not there yet when the command  *)
(* listed the rows.                                                        *)
(***************************************************************************)
OneByOne ==
    /\ \A v \in tables' \ tables : \A w \in Known : cmd.outOfOrder \/ w < v
    /\ \A v \in tables \ tables' : \A w \in Known : w <= v

StepsInOrder == [][OneByOne]_vars

(* The files a command that goes up has to bring into the schema. *)
Wanted == {v \in cmd.files : v <= cmd.target}

(***************************************************************************)
(* An up, up-to or rerun that ends well has brought the schema to its      *)
(* target: every file is applied but for those of RecordAccuracy and those *)
(* whose row it took as a sign that they are, when it was about to be      *)
(* deleted.  A rerun ("it resets and runs migrations", rerun.go:18) meets  *)
(* the deletions of its own first half in this way.                        *)
(***************************************************************************)
UpApplies ==
    [][cmd.name \in {"up", "rerun"} /\ step' = "ok"
         => Wanted \subseteq tables \cup Unsure \cup stale']_step
=============================================================================
