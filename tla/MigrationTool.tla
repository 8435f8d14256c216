--------------------------- MODULE MigrationTool ---------------------------
(***************************************************************************)
(* The whole system: every process may run every command, next to the      *)
(* services, the other writers and the late requests. The tool takes no    *)
(* lock, so two commands may run at once; with a single process in Procs   *)
(* the operator runs one command at a time.                                *)
(***************************************************************************)
EXTENDS Snapshot, Rollback

Init ==
    /\ legacy \in InitLegacy
    /\ svc \in InitServices
    /\ wire = {}
    /\ status = [r \in Runs |-> "none"]
    /\ items = [r \in Runs |-> [k \in Keys |-> NoItem]]
    /\ proc = [p \in Procs |-> IdleProcess]
    /\ faults = 0 /\ churn = 0 /\ drift = 0
    /\ pre = svc
    /\ origin = [k \in Keys |-> NoRun]
    /\ touched = [p \in Procs |-> {}]

(* A running command moves on; whatever goes wrong; a new command. *)
Advance(p) == SnapshotStep(p) \/ RollbackStep(p)
Trouble(p) == SnapshotTrouble(p) \/ RollbackTrouble(p) \/ Crash(p)
Start(p) == SnapshotStart(p) \/ RollbackStart(p)

Next ==
    \/ \E p \in Procs : Start(p) \/ Advance(p) \/ Trouble(p)
    \/ Elsewhere

Spec == Init /\ [][Next]_vars

(***************************************************************************)
(* Type invariant.                                                         *)
(***************************************************************************)

(* What a process holds at each stage of its command: the row in hand, the run
   it works for, the answer to be recorded. *)
StageOK(p) ==
    LET me == proc[p] IN
    /\ me.cmd \in {"snapshot", "rollback", "dry"} => me.run \in Runs
    /\ me.pc \in {"import_open", "import_next", "post", "upsert"} => me.cmd = "snapshot"
    /\ me.pc \in {"post", "upsert"} => me.cur \in Keys /\ me.cursor[me.cur] \in Values
    /\ me.pc = "upsert" => me.ans \in ImportAction
    /\ me.pc = "check_item" => me.cur \in Keys
    /\ me.pc = "check_mark" =>
           me.cur \in Keys /\ me.run \in Runs /\ items[me.run][me.cur].action # "none"
    /\ me.pc \in {"rb_open", "rb_next", "delete", "confirm", "rb_mark"} =>
           me.cmd \in {"rollback", "dry"}
    /\ me.pc \in {"rb_next", "delete", "confirm", "rb_mark"} =>
           \A k \in Pending(p) : items[me.run][k].action # "none"
    /\ me.pc \in {"delete", "confirm", "rb_mark"} =>
           me.cur \in Keys /\ items[me.run][me.cur].action # "none"
    /\ me.pc = "rb_mark" /\ ~ Dry(p) => me.ans \in ItemStatus

(* Every variable has its type: the state store holds only the statuses,
   actions and payloads models.py knows, a process only the stages and
   locals of run_snapshot, validate and run_rollback. *)
TypeOK ==
    /\ legacy \in Tables /\ svc \in Tables /\ pre \in Tables
    /\ wire \subseteq Request
    /\ status \in [Runs -> StoredStatus]
    /\ items \in [Runs -> [Keys -> Item]]
    /\ proc \in [Procs -> Process]
    /\ faults \in Nat /\ churn \in Nat /\ drift \in Nat
    /\ origin \in [Keys -> Runs \union {NoRun}]
    /\ touched \in [Procs -> SUBSET Keys]
    /\ \A p \in Procs : StageOK(p)

(***************************************************************************)
(* What the tool promises about rows it does not own.                      *)
(***************************************************************************)

(* rollback.py:6, "never touches unchanged rows - they pre-dated the run":
   as long as no other client writes in the services, a row that was there
   before the first command keeps its contents through every snapshot,
   resume and rollback, crash, retry and late request, of any number of
   concurrent processes. *)
PreexistingSurvive ==
    drift = 0 => \A k \in Keys : pre[k] # Absent => svc[k] = pre[k]

(* models.py:36, "this run inserted the row": no run ever records as created
   a row that was there before, whatever answers were lost on the way. *)
CreatedIsNew ==
    drift = 0 => \A r \in Runs, k \in Keys :
                   items[r][k].action = "created" => pre[k] = Absent

(* What a process may be about to record as created, or to delete. *)
HoldsNewOnly(p) ==
    LET new(k) == pre[k] = Absent IN
    /\ At(p, "upsert") /\ proc[p].ans = "created" => new(proc[p].cur)
    /\ At(p, "delete") => new(proc[p].cur)
    /\ proc[p].pc \in {"rb_next", "delete", "confirm", "rb_mark"} =>
           \A k \in Pending(p) : new(k)

(* Why both hold: nothing that leads to a DELETE - an item recorded as created,
   an answer 201 in hand, the cursor or the row in hand of a rollback, a late
   request - ever names a row that was there before. *)
NothingClaimed ==
    drift = 0 =>
        /\ PreexistingSurvive /\ CreatedIsNew
        /\ \A q \in wire : q.op = "delete" => pre[q.key] = Absent
        /\ \A p \in Procs : HoldsNewOnly(p)

(* The other half of ownership, while nothing is lost: with no fault and no
   other client, every row a run inserted and that is still there is either
   recorded as created by that run, or its 201 answer is in the hands of the
   process that is about to record it. *)
InsertedIsOwned ==
    faults = 0 /\ drift = 0 =>
        \A k \in Keys :
            svc[k] # Absent /\ origin[k] # NoRun =>
                \/ items[origin[k]][k].action = "created"
                \/ \E p \in Procs : /\ At(p, "upsert") /\ proc[p].ans = "created"
                                    /\ proc[p].run = origin[k] /\ proc[p].cur = k

(***************************************************************************)
(* What a verdict means.                                                   *)
(***************************************************************************)

(* The rows nobody else wrote since the command of p began. *)
Settled(p) == Keys \ touched[p]

(* README.md:159, "never COMPLETED if": when run_snapshot is about to write
   COMPLETED, or validate to report VALIDATED, every legacy row nobody else wrote
   since the command began is in its service with the same contents, and so is
   the user of every such sale - whatever was imported by earlier runs or skipped
   by resume, whatever requests failed, and whatever was written next to it. *)
VerdictSound ==
    \A p \in Procs :
        proc[p].pc \in {"complete", "report"} /\ ~ proc[p].bad =>
            \A k \in Settled(p) : legacy[k] # Absent =>
                /\ svc[k] = legacy[k]
                /\ k \in Sales /\ UserOf[k] \in Settled(p) => svc[UserOf[k]] # Absent

(* A COMPLETED run accounts for the legacy: for every row nobody else wrote since
   the command began the run has an item that it owns or found unchanged, and
   that it validated - also for the rows resume skipped. *)
CompletedIsRecorded ==
    \A p \in Procs :
        At(p, "complete") =>
            \A k \in Settled(p) : legacy[k] # Absent =>
                /\ items[proc[p].run][k].status = "validated"
                /\ items[proc[p].run][k].action \in {"created", "unchanged"}

(* README.md:159 and the phase order of run_snapshot: the tool sends a sale only
   when every legacy user nobody else wrote since the command began is in the
   User Service unchanged. *)
SalesAfterUsers ==
    \A p \in Procs :
        At(p, "post") /\ proc[p].ent = "sale" =>
            \A u \in Users \intersect Settled(p) : legacy[u] # Absent => svc[u] = legacy[u]

(***************************************************************************)
(* What a rollback removes.                                                *)
(***************************************************************************)

(* README.md:243, "all created rows removed -> STATUS = ROLLED_BACK": a rollback
   writes ROLLED_BACK only when none of the rows its run created, those an earlier
   rollback gave up on included, is left, but for rows others wrote meanwhile. *)
RolledBackIsClean ==
    [][\A p \in Procs :
         /\ proc[p].cmd = "rollback"
         /\ status'[proc[p].run] = "ROLLED_BACK"
         /\ status[proc[p].run] # "ROLLED_BACK"
         => \A k \in Settled(p) :
                items[proc[p].run][k].action = "created" => svc[k] = Absent]_vars

(* rollback.py:9, "Sales are removed before Users": a user is deleted only when no
   sale its run created is left, but for sales others wrote meanwhile. *)
UsersDeletedLast ==
    \A p \in Procs :
        At(p, "delete") /\ proc[p].ent = "user" =>
            \A s \in Sales \intersect Settled(p) :
                items[proc[p].run][s].action = "created" => svc[s] = Absent

(* rollback.py:10, "a drifted row is a ROLLBACK CONFLICT and is left in place":
   an attempt to delete a row nobody else wrote since the command began finds it
   as the run sent it, or already gone. *)
DriftedRowsStay ==
    \A p \in Procs :
        At(p, "delete") /\ proc[p].cur \in Settled(p) =>
            svc[proc[p].cur] \in {items[proc[p].run][proc[p].cur].payload, Absent}

(* rollback.py:79, "dry-run, which never writes", and validate only reads the
   services: a process running either changes no row and no run, and a dry
   run changes no item. *)
ReadOnlyCommands ==
    [][\A p \in Procs :
         proc[p].cmd \in {"dry", "validate"} /\ proc'[p] # proc[p] =>
             /\ <<legacy, svc, wire, status>>' = <<legacy, svc, wire, status>>
             /\ proc[p].cmd = "dry" => items' = items]_vars

(* README.md:250, a dry run "performs the GET + snapshot comparison": when it ends
   with nothing unresolved, every row the run created that nobody else wrote since
   the dry run began is gone or still as the run sent it, so that no conflict
   awaits the rollback that follows. *)
DryRunForetells ==
    [][\A p \in Procs :
         Dry(p) /\ RollbackEnd(p) /\ ~ proc[p].bad =>
             \A k \in Settled(p) :
                 LET item == items[proc[p].run][k] IN
                 item.action = "created" => svc[k] \in {item.payload, Absent}]_vars

(* README.md:136, a row answered 201 "is owned by this run": no later attempt, crash,
   retry or writer takes the ownership of a row away from the run while no rollback
   has handled it. *)
OwnershipKept ==
    [][\A r \in Runs, k \in Keys :
         /\ items[r][k].action = "created"
         /\ items[r][k].status \in {"imported", "validated"}
         => items'[r][k].action = "created"]_vars

(***************************************************************************)
(* What the documentation says and the code does not do.                   *)
(***************************************************************************)

(* README.md:138 and models.py:37, "row already existed identically": an item
   recorded as unchanged never stands for a row the same run inserted. *)
UnchangedMeansPreexisting ==
    drift = 0 => \A r \in Runs, k \in Keys :
                   items[r][k].action = "unchanged" => origin[k] # r

(* rollback.py:4, "ONLY rows this run inserted": the row a DELETE removes was put
   there by the run being rolled back. *)
RollbackDeletesOwnRows ==
    [][\A p \in Procs :
         LET k == proc[p].cur IN
         At(p, "delete") /\ proc'[p] # proc[p] /\ svc'[k] # svc[k] =>
             origin[k] = proc[p].run]_vars

(* validation.py:155, "For every legacy sale, confirm its user_id resolves": when
   the check passes, the user of every legacy sale is in the User Service. *)
EverySaleResolves ==
    [][\A p \in Procs :
         At(p, "refs_next") /\ proc'[p].pc \in {"complete", "report"} /\ ~ proc'[p].bad =>
             \A s \in Sales : legacy[s] # Absent => svc[UserOf[s]] # Absent]_vars

(***************************************************************************)
(* The run statuses, one command at a time: RunLifecycle.                  *)
(***************************************************************************)
(* An attempt is over when its outcome is recorded; divergent users are recorded
   as FAILED a transaction before _finalize does. *)
Concluded(p) == At(p, "fail") /\ status[proc[p].run] = "FAILED"
Driver == {p \in Procs : proc[p].cmd = "snapshot" /\ ~ Concluded(p)}
Driven == IF Driver = {} THEN NoRun ELSE proc[CHOOSE p \in Driver : TRUE].run

(* The milestones this attempt has recorded, from where the process stands. *)
FirstImport(p) ==
    proc[p].ent = "user" /\ proc[p].pc \in {"import_open", "import_next", "post", "upsert"}
Reached ==
    IF \E p \in Driver : ~ FirstImport(p)
    THEN CASE status[Driven] = "USERS_MIGRATED" -> 1
           [] status[Driven] = "USERS_VALIDATED" -> 2
           [] status[Driven] = "SALES_MIGRATED" -> 3
           [] status[Driven] = "SALES_VALIDATED" -> 4
           [] status[Driven] = "VALIDATED" -> 5
    ELSE 0

Lifecycle == INSTANCE RunLifecycle WITH driven <- Driven, reached <- Reached

(* With one process, every step of the tool is a step of the run state machine
   of README.md, or changes nothing it shows. *)
LifecycleSpec == Lifecycle!Spec

(***************************************************************************)
(* Liveness. The CLI is a sequential program: a running command takes its  *)
(* next step. Two operators who do not give up on a run: as often as one   *)
(* can start a resume, or a rollback, some time it is started.             *)
(***************************************************************************)
Running == \A p \in Procs : WF_vars(Advance(p))
RunningSpec == Spec /\ Running

ResumesAgain == \A p \in Procs, r \in Runs : SF_vars(StartResume(p, r))
RollsBackAgain == \A p \in Procs, r \in Runs : SF_vars(StartRollback(p, r, TRUE, FALSE))
NoRollback == [](\A p \in Procs : proc[p].cmd # "rollback")

(* README.md:211, "A run that ended FAILED is resumable": without conflicting
   rows, rejected payloads and rollbacks, an operator who resumes again gets every
   run that was started COMPLETED, from wherever a crash or an error left it. *)
ResumeCompletes ==
    ResumesAgain /\ NoRollback =>
        \A r \in Runs : status[r] # "none" ~> status[r] = "COMPLETED"

(* README.md:243-244 and rollback.py:71, only ROLLED_BACK ends it: a rollback that is
   repeated until it succeeds does succeed, for every run whatever state it is in -
   interrupted, failed, resumed in between, its rollback interrupted or failed - while
   no other client writes in the services. *)
RollbackCompletes ==
    RollsBackAgain =>
        \A r \in Runs : status[r] # "none" ~> status[r] = "ROLLED_BACK"
=============================================================================
