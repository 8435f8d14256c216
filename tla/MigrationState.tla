--------------------------- MODULE MigrationState ---------------------------
(***************************************************************************)
(* What one invocation of the migration tool reads and writes: the legacy  *)
(* database, the two destination services behind their HTTP APIs, the      *)
(* state store (runs and items) and the memory of the CLI processes.       *)
(* Snapshot.tla and Rollback.tla give the steps of the commands; this      *)
(* module holds the state they share, the answers of the services and the  *)
(* steps of everybody else (other writers, late requests, crashes).        *)
(***************************************************************************)
EXTENDS Naturals, FiniteSets

CONSTANTS
    Users, Sales,       \* keys of user rows and of sale rows
    UserOf,             \* the user_id of every sale
    Values,             \* contents of a row, up to what the comparisons tell apart
    Absent,             \* no such row
    Runs, NoRun,        \* run ids; NoRun: no run id given, or inserted by no run
    Procs,              \* CLI processes that may be started
    NoKey,              \* no row in hand
    Rejected,           \* payloads the services answer 422
    MaxRetries,         \* settings.http_max_retries
    AllowDestructive,   \* settings.allow_destructive_rollback
    InitLegacy,         \* possible initial contents of the legacy tables
    InitServices,       \* possible initial contents of the services
    Commands,           \* the commands the operator uses
    MaxFaults,          \* bound: lost requests, lost answers, crashes, exceptions
    MaxChurn,           \* bound: rows other programs write in the legacy database
    MaxDrift            \* bound: rows other clients write in the services

Keys == Users \union Sales
Contents == Values \union {Absent}
Tables == [Keys -> Contents]

ASSUME KeysAssumption ==
    /\ Users \subseteq Nat /\ Sales \subseteq Nat /\ Users \intersect Sales = {}
    /\ UserOf \in [Sales -> Users]
    /\ NoKey \notin Keys
ASSUME FiniteAssumption == IsFiniteSet(Users) /\ IsFiniteSet(Sales)
ASSUME ValuesAssumption == Absent \notin Values /\ Rejected \subseteq Values
ASSUME RunsAssumption == NoRun \notin Runs
ASSUME BoundsAssumption ==
    /\ MaxRetries \in Nat /\ MaxFaults \in Nat /\ MaxChurn \in Nat /\ MaxDrift \in Nat
    /\ AllowDestructive \in BOOLEAN
ASSUME InitAssumption == InitLegacy \subseteq Tables /\ InitServices \subseteq Tables
ASSUME CommandsAssumption ==
    Commands \subseteq {"snapshot", "resume", "validate", "rollback", "dry"}

(***************************************************************************)
(* models.py: the statuses and actions written in the state store.         *)
(***************************************************************************)
RunStatus ==
    {"STARTED", "USERS_MIGRATED", "USERS_VALIDATED", "SALES_MIGRATED",
     "SALES_VALIDATED", "VALIDATED", "COMPLETED", "FAILED", "ROLLED_BACK",
     "ROLLBACK_FAILED"}
ImportAction == {"created", "unchanged", "conflict", "failed"}
ItemStatus ==
    {"imported", "validated", "failed", "rolled_back", "rollback_conflict",
     "rollback_failed"}
EntityType == {"user", "sale"}

(* No item row, and no run row, exists yet. *)
NoItem == [action |-> "none", status |-> "none", payload |-> Absent]
Item == [action : ImportAction, status : ItemStatus, payload : Values] \union {NoItem}
StoredStatus == RunStatus \union {"none"}

(* The memory of one CLI process; every field but the first five is local  *)
(* to a loop of the command.                                               *)
Stage == {"idle",
          "import_open", "import_next", "post", "upsert",
          "count", "check_open", "check_next", "check_item", "check_mark",
          "refs_open", "refs_next", "complete", "fail", "report",
          "rb_open", "rb_next", "delete", "confirm", "rb_mark"}
Process ==
    [cmd : {"idle", "snapshot", "validate", "rollback", "dry"},
     pc : Stage,
     run : Runs \union {NoRun},
     ent : EntityType,
     bad : BOOLEAN,               \* something the command must report was met
     cursor : Tables,             \* rows of the query still to be handled
     cur : Keys \union {NoKey},   \* the row in hand
     tries : Nat,                 \* attempts of the HTTP call under way
     ans : ImportAction \union ItemStatus \union {"none"},
     expected : Nat, found : Nat, \* legacy_count and found of the validators
     refs : SUBSET Users, missing : SUBSET Users]

VARIABLES
    legacy,    \* contents of the legacy tables
    svc,       \* contents of the User Service and the Sales Service
    wire,      \* requests the client gave up on, the service may still run them
    status,    \* migration_runs.status
    items,     \* migration_items
    proc,      \* the CLI processes
    faults, churn, drift,         \* how much of the bounds is used
    pre,       \* history: what the services held before the first command
    origin,    \* history: the run whose POST put the present row there
    touched    \* history: rows somebody else wrote since the command began

store == <<status, items>>
world == <<legacy, svc, wire>>
budget == <<faults, churn, drift>>
history == <<pre, origin, touched>>
vars == <<world, store, proc, budget, history>>

Request ==
    [op : {"post", "delete"}, run : Runs, key : Keys, val : Contents]

(***************************************************************************)
(* Helpers on the state of a process.                                      *)
(***************************************************************************)
Rows(ent) == IF ent = "user" THEN Users ELSE Sales
NoRows == [k \in Keys |-> Absent]
(* The rows of a table (or of the items of a run) a query on ent returns. *)
Select(ent, table) == [k \in Keys |-> IF k \in Rows(ent) THEN table[k] ELSE Absent]
Pending(p) == {k \in Keys : proc[p].cursor[k] # Absent}
(* Every query is ORDER BY id. *)
IsNext(p, k) == k \in Pending(p) /\ \A j \in Pending(p) : k <= j
Drop(p, k) == [proc[p].cursor EXCEPT ![k] = Absent]

IdleProcess ==
    [cmd |-> "idle", pc |-> "idle", run |-> NoRun, ent |-> "user", bad |-> FALSE,
     cursor |-> NoRows, cur |-> NoKey, tries |-> 0, ans |-> "none",
     expected |-> 0, found |-> 0, refs |-> {}, missing |-> {}]

At(p, stage) == proc[p].pc = stage
Step(p, r) == proc' = [proc EXCEPT ![p] = r]
Goto(p, stage) == Step(p, [proc[p] EXCEPT !.pc = stage])
Exit(p) == Step(p, IdleProcess)
Begin(p, cmd, r, ent, stage) ==
    /\ At(p, "idle")
    /\ Step(p, [IdleProcess EXCEPT !.cmd = cmd, !.run = r, !.ent = ent, !.pc = stage])
    /\ touched' = [touched EXCEPT ![p] = {}]
Fault == faults < MaxFaults /\ faults' = faults + 1
=============================================================================
