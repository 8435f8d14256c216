----------------------------- MODULE Reporting -----------------------------
(***************************************************************************)
(* What the tool says it did: the counters of MigrationStats and           *)
(* RollbackReport in the memory of a process, the report, the error and    *)
(* the end that migration_runs keeps of a run, and the exit code.          *)
(*                                                                         *)
(* The module lays these over MigrationTool: every step is a step of the   *)
(* tool together with what it counts, stores or returns, or one of the two *)
(* things that only this layer shows - a count of the legacy rows, a       *)
(* command that is turned away.                                            *)
(***************************************************************************)
EXTENDS MigrationTool, Integers

VARIABLES
    report,    \* per process: what the command has counted so far
    record,    \* per run: stats_json, error and finished_at of migration_runs
    exit       \* per process: the exit code of its last command

rvars == <<vars, report, record, exit>>

(* 0, 1, 2 and 3; none: the command still runs, or was killed. *)
ExitCode == {"none", "success", "failures", "bad_arguments", "refused"}

(***************************************************************************)
(* models.py: MigrationStats, RunReport and RollbackReport.                *)
(***************************************************************************)
Tally ==
    [found : Nat, created : Nat, unchanged : Nat, conflict : Nat, failed : Nat,
     validated : Int]
MigrationStats ==
    [tally : [EntityType -> Tally], http_failures : Nat,
     checked_sales_refs : Nat, orphan_sales : Nat]
RollbackOutcome == {"deleted", "already_absent", "conflict", "failed", "would_delete"}

NoTally ==
    [found |-> 0, created |-> 0, unchanged |-> 0, conflict |-> 0, failed |-> 0,
     validated |-> 0]
NoStats ==
    [tally |-> [e \in EntityType |-> NoTally], http_failures |-> 0,
     checked_sales_refs |-> 0, orphan_sales |-> 0]

NewReport(resumed) ==
    [stats |-> NoStats,
     divergences |-> {},              \* rows with a divergence, once a phase is done
     differing |-> {},                \* those of the phase under way
     undone |-> [o \in RollbackOutcome |-> 0],
     resumed |-> resumed,             \* the command is resume
     counted |-> {}]                  \* tables whose rows are counted
NoRecord == [stats |-> NoStats, divergences |-> {}, error |-> FALSE, finished |-> FALSE]

(***************************************************************************)
(* Helpers.                                                                *)
(***************************************************************************)
Note(p, rep) == report' = [report EXCEPT ![p] = rep]
Tallied(rep, ent, action) == [rep EXCEPT !.stats.tally[ent][action] = @ + 1]
Recorded(rep, outcome) == [rep EXCEPT !.undone[outcome] = @ + 1]

(* Mutant: the report is stored where its counters belong. *)
EnvelopeOfReport(row, rep) == [row EXCEPT !.stats = rep, !.divergences = rep.divergences]

(* build_envelope, stored by update_run. *)
Envelope(row, rep) == [row EXCEPT !.stats = rep.stats, !.divergences = rep.divergences]
Persist(p, rep) == record' = [record EXCEPT ![proc[p].run] = Envelope(@, rep)]

(* update_run(finished=True): an error is stored, no error leaves the column alone. *)
Closed(row, aborted) == [row EXCEPT !.finished = TRUE, !.error = @ \/ aborted]

Ends(p, code) ==
    /\ exit' = [exit EXCEPT ![p] = code]
    /\ Note(p, NewReport(FALSE))

(***************************************************************************)
(* Starting a command, or being turned away.                               *)
(***************************************************************************)
Started(p) ==
    /\ Start(p)
    /\ LET me == proc'[p] IN
       Note(p, NewReport(me.cmd = "snapshot" /\ status[me.run] # "none"))
    /\ exit' = [exit EXCEPT ![p] = "none"]
    /\ UNCHANGED record

(* KeyError and ValueError of run_snapshot and run_rollback, RollbackRefused. *)
TurnedAway(p) ==
    /\ At(p, "idle")
    /\ \E r \in Runs :
         \/ /\ "resume" \in Commands /\ status[r] \in ResumeBlocked \union {"none"}
            /\ exit' = [exit EXCEPT ![p] = "bad_arguments"]
         \/ /\ "rollback" \in Commands /\ status[r] = "none"
            /\ exit' = [exit EXCEPT ![p] = "bad_arguments"]
         \/ /\ "rollback" \in Commands /\ status[r] # "none"
            /\ \E confirm \in BOOLEAN : ~ RollbackAllowed(r, confirm, FALSE)
            /\ exit' = [exit EXCEPT ![p] = "refused"]
    /\ UNCHANGED <<vars, report, record>>

(***************************************************************************)
(* users_found and sales_found: a query of its own, before the rows are    *)
(* streamed, and for validate both before anything else.                   *)
(***************************************************************************)
ImportDue(p) == IF At(p, "import_open") THEN {proc[p].ent} ELSE {}
ValidateDue(p) == IF At(p, "count") /\ proc[p].cmd = "validate" THEN EntityType ELSE {}

Due(p) == (ImportDue(p) \union ValidateDue(p)) \ report[p].counted

CountFound(p) ==
    /\ \E ent \in Due(p) :
         /\ ent = "sale" => "user" \notin Due(p)
         /\ Note(p, [report[p] EXCEPT
                       !.stats.tally[ent].found =
                           Cardinality({k \in Rows(ent) : legacy[k] # Absent}),
                       !.counted = @ \union {ent}])
    /\ UNCHANGED <<vars, record, exit>>

(***************************************************************************)
(* Phases 1 and 3: add_import.                                             *)
(***************************************************************************)

(* Mutants: a skipped row is not counted; it is counted as unchanged. *)
SkippedUncounted(rep, ent, action) == rep
SkippedAsUnchanged(rep, ent, action) == Tallied(rep, ent, "unchanged")

(* A row skipped by resume is counted with the action its item has. *)
Skipped(rep, ent, action) == Tallied(rep, ent, action)

SkipCounted(p) ==
    /\ ImportSkip(p)
    /\ \E k \in Keys :
         /\ IsNext(p, k)
         /\ Note(p, Skipped(report[p], proc[p].ent, items[proc[p].run][k].action))
    /\ UNCHANGED <<record, exit>>

AnswerCounted(p) ==
    /\ PostAnswered(p)
    /\ Note(p, Tallied(report[p], proc[p].ent, proc'[p].ans))
    /\ UNCHANGED <<record, exit>>

(* HttpError: the last attempt failed, or the status was unexpected. *)
FailureCounted(p) ==
    /\ PostLost(p) \/ PostRefused(p)
    /\ Note(p, IF proc'[p].pc = "upsert"
               THEN [Tallied(report[p], proc[p].ent, "failed")
                     EXCEPT !.stats.http_failures = @ + 1]
               ELSE report[p])
    /\ UNCHANGED <<record, exit>>

ImportPersisted(p) ==
    /\ ImportEnd(p)
    /\ Persist(p, report[p])
    /\ UNCHANGED <<report, exit>>

(***************************************************************************)
(* Phases 2, 4 and 5: what the validators report.                          *)
(***************************************************************************)
RowCompared(p) ==
    /\ CheckRow(p)
    /\ \E k \in Keys :
         /\ IsNext(p, k)
         /\ Note(p, IF Agrees(svc[k], proc[p].cursor[k]) THEN report[p]
                    ELSE [report[p] EXCEPT !.differing = @ \union {k}])
    /\ UNCHANGED <<record, exit>>

(* users_validated: the rows found, less the rows with a divergence. *)
Validated(p) == proc[p].found - Cardinality(report[p].differing)

CheckCounted(p) ==
    LET rep == [report[p] EXCEPT !.stats.tally[proc[p].ent].validated = Validated(p),
                                 !.divergences = @ \union report[p].differing,
                                 !.differing = {}] IN
    /\ CheckEnd(p)
    /\ Note(p, rep)
    /\ IF Imports(p) /\ (Mismatch(p) => proc[p].ent = "user")
       THEN Persist(p, rep) ELSE UNCHANGED record
    /\ UNCHANGED exit

RefsCounted(p) ==
    LET rep == [report[p] EXCEPT
                  !.stats.checked_sales_refs = Cardinality({s \in Sales : legacy[s] # Absent}),
                  !.stats.orphan_sales = Cardinality(Orphans(p))] IN
    /\ RefsEnd(p)
    /\ Note(p, rep)
    /\ IF proc'[p].pc = "complete" THEN Persist(p, rep) ELSE UNCHANGED record
    /\ UNCHANGED exit

(***************************************************************************)
(* How a snapshot, resume or validate ends.                                *)
(***************************************************************************)
Finalized(p) ==
    /\ Finalize(p)
    /\ record' = [record EXCEPT ![proc[p].run] = Closed(Envelope(@, report[p]), FALSE)]
    /\ Ends(p, IF At(p, "complete") THEN "success" ELSE "failures")

ValidateEnded(p) ==
    /\ Report(p)
    /\ Ends(p, IF proc[p].bad THEN "failures" ELSE "success")
    /\ UNCHANGED record

(* Both exception handlers store the error. The command resume takes any KeyError
   or ValueError for a bad argument, those met while it drives the run included. *)
Aborted(p) ==
    /\ Abort(p)
    /\ record' = [record EXCEPT ![proc[p].run] = Closed(Envelope(@, report[p]), TRUE)]
    /\ \/ Ends(p, "failures")
       \/ report[p].resumed /\ Ends(p, "bad_arguments")

Killed(p) == Crash(p) /\ Ends(p, "none") /\ UNCHANGED record

(***************************************************************************)
(* Rollback: _record, and the exit code.                                   *)
(***************************************************************************)

(* Mutant: a dry run does not record the rows it would delete. *)
ReadOutcomeUnlessDry(p, k) ==
    CASE Decision(p, k) = "rolled_back" -> "already_absent"
      [] Decision(p, k) = "rollback_conflict" -> "conflict"
      [] OTHER -> "none"

ReadOutcome(p, k) ==
    CASE Decision(p, k) = "rolled_back" -> "already_absent"
      [] Decision(p, k) = "rollback_conflict" -> "conflict"
      [] OTHER -> IF Dry(p) THEN "would_delete" ELSE "none"

RollbackReadRecorded(p) ==
    /\ RollbackRead(p)
    /\ \E k \in Keys :
         /\ IsNext(p, k)
         /\ Note(p, IF ReadOutcome(p, k) = "none" THEN report[p]
                    ELSE Recorded(report[p], ReadOutcome(p, k)))
    /\ UNCHANGED <<record, exit>>

(* The row is to be marked: it was removed, or it could not be. *)
RemovalRecorded(p) ==
    /\ RollbackConfirm(p) \/ DeleteLost(p) \/ RemovalFailed(p) \/ RollbackReadLost(p)
    /\ Note(p, IF proc'[p].pc # "rb_mark" THEN report[p]
               ELSE Recorded(report[p], IF proc'[p].ans = "rolled_back" THEN "deleted"
                                        ELSE "failed"))
    /\ UNCHANGED <<record, exit>>

(* Mutant: only conflicts count against a rollback. *)
RollbackOkUnlessConflict(p) == report[p].undone["conflict"] = 0

(* cli.py: ok. A dry run is judged by its conflicts alone. *)
RollbackOk(p) == IF Dry(p) THEN report[p].undone["conflict"] = 0 ELSE ~ proc[p].bad

RollbackEnded(p) ==
    /\ RollbackEnd(p)
    /\ record' = IF ~ Dry(p) /\ ~ proc[p].bad
                 THEN [record EXCEPT ![proc[p].run] = Closed(@, FALSE)]
                 ELSE record
    /\ Ends(p, IF RollbackOk(p) THEN "success" ELSE "failures")

(***************************************************************************)
(* The layered system.                                                     *)
(***************************************************************************)
RInit ==
    /\ Init
    /\ report = [p \in Procs |-> NewReport(FALSE)]
    /\ record = [r \in Runs |-> NoRecord]
    /\ exit = [p \in Procs |-> "none"]

(* Steps that count, store and return nothing. *)
Quiet(p) ==
    /\ \/ ImportOpen(p) \/ ImportBegin(p) \/ ImportUpsert(p)
       \/ CountLegacy(p) \/ CheckOpen(p) \/ CheckRowLost(p)
       \/ CheckItem(p) \/ CheckMark(p)
       \/ RefsOpen(p) \/ RefsGet(p) \/ RefsGetLost(p)
       \/ RollbackOpen(p) \/ DeleteAnswered(p) \/ RollbackMark(p) \/ SalesDone(p)
    /\ UNCHANGED <<report, record, exit>>

RAdvance(p) ==
    \/ SkipCounted(p) \/ AnswerCounted(p) \/ FailureCounted(p) \/ ImportPersisted(p)
    \/ RowCompared(p) \/ CheckCounted(p) \/ RefsCounted(p)
    \/ Finalized(p) \/ ValidateEnded(p)
    \/ RollbackReadRecorded(p) \/ RemovalRecorded(p) \/ RollbackEnded(p)
    \/ Quiet(p)

RNext ==
    \/ \E p \in Procs :
         \/ Started(p) \/ TurnedAway(p) \/ CountFound(p)
         \/ Due(p) = {} /\ RAdvance(p)
         \/ Aborted(p) \/ Killed(p)
    \/ Elsewhere /\ UNCHANGED <<report, record, exit>>

RSpec == RInit /\ [][RNext]_rvars

(***************************************************************************)
(* Type invariant.                                                         *)
(***************************************************************************)

(* The counters are numbers, the stored report has the shape of the counted one,
   and the exit code is one the command line documents. *)
ReportingTypeOK ==
    /\ report \in [Procs -> [stats : MigrationStats, divergences : SUBSET Keys,
                             differing : SUBSET Keys, undone : [RollbackOutcome -> Nat],
                             resumed : BOOLEAN, counted : SUBSET EntityType]]
    /\ record \in [Runs -> [stats : MigrationStats, divergences : SUBSET Keys,
                            error : BOOLEAN, finished : BOOLEAN]]
    /\ exit \in [Procs -> ExitCode]

(***************************************************************************)
(* What the numbers mean.                                                  *)
(***************************************************************************)
Outcomes(tally) == tally.created + tally.unchanged + tally.conflict + tally.failed
WithAction(r, ent, action) ==
    Cardinality({k \in Rows(ent) : items[r][k].action = action})

(* migration.py:213-251: a row is counted once whether it is skipped, answered or
   given up on - the outcomes of a phase add up to the rows found in it, unless the
   monolith wrote between the count and the stream. *)
OutcomesAddUp ==
    \A p \in Procs :
        At(p, "import_next") /\ Pending(p) = {} /\ touched[p] = {} =>
            Outcomes(report[p].stats.tally[proc[p].ent])
                = report[p].stats.tally[proc[p].ent].found

(* README.md:115, "last computed report envelope": the report stored with a
   COMPLETED run describes the whole run, not its last attempt - after any
   sequence of crashes, aborts, resumes and interrupted rollbacks it counts as
   created exactly the items a rollback would take, nothing is missing from it,
   and it shows no trace of the failures of earlier attempts. *)
CompletedReportAgrees ==
    churn = 0 =>
        \A r \in Runs :
            status[r] = "COMPLETED" =>
                LET stats == record[r].stats IN
                /\ record[r].finished /\ record[r].divergences = {}
                /\ stats.orphan_sales = 0 /\ stats.http_failures = 0
                /\ \A ent \in EntityType :
                     LET tally == stats.tally[ent] IN
                     /\ tally.created = WithAction(r, ent, "created")
                     /\ tally.unchanged = WithAction(r, ent, "unchanged")
                     /\ tally.conflict = 0 /\ tally.failed = 0
                     /\ tally.found = tally.created + tally.unchanged
                     /\ tally.validated = tally.found
                /\ stats.checked_sales_refs = stats.tally["sale"].found

(* models.py:170, every item has one outcome: when a rollback ends, each item its
   run created has been deleted, found absent, found changed, given up on, or (dry)
   announced; users only when every sale is resolved. *)
RollbackAccounts ==
    \A p \in Procs :
        At(p, "rb_next") /\ Pending(p) = {} =>
            LET r == proc[p].run
                undone == report[p].undone IN
            undone["deleted"] + undone["already_absent"] + undone["conflict"]
                + undone["failed"] + undone["would_delete"]
            = WithAction(r, "sale", "created")
                + (IF proc[p].ent = "user" THEN WithAction(r, "user", "created") ELSE 0)

(* README.md:95, "Exit codes: 0 success": when a command exits with 0, then for the
   rows nobody else wrote since it began - a snapshot, resume or validate: every
   legacy row is in its service unchanged; a rollback: none of the rows its run
   created is left; a dry run that read them all: the rollback will find every one
   of them as the run sent it, or gone. *)
ExitZeroIsTrue ==
    [][\A p \in Procs :
         LET created(k) == items[proc[p].run][k].action = "created" IN
         ~ At(p, "idle") /\ exit'[p] = "success" =>
             \A k \in Settled(p) :
                 CASE proc[p].cmd \in {"snapshot", "validate"} ->
                        legacy[k] # Absent => svc[k] = legacy[k]
                   [] proc[p].cmd = "rollback" -> created(k) => svc[k] = Absent
                   [] proc[p].cmd = "dry" ->
                        created(k) /\ report[p].undone["failed"] = 0 =>
                            svc[k] \in {items[proc[p].run][k].payload, Absent}]_rvars

(***************************************************************************)
(* What the documentation and the report say and the code does not do.     *)
(***************************************************************************)

(* report.py:45, "Validated:": the number printed is a number of rows, those found
   and not divergent, hence not negative. *)
ValidatedIsACount ==
    \A p \in Procs, ent \in EntityType : report[p].stats.tally[ent].validated >= 0
=============================================================================
