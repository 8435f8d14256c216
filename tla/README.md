# Verification of the migration tool

TLA+ models of `migration_tool`, the command line program that copies users and
sales from the monolith's database into the User Service and the Sales Service,
checks the copy, and can take it back. TLC checks the models on small instances;
TLAPS proves part of the properties for all instances.

    tlc -config MCOneCommand.cfg MCMigrationTool.tla     # or any other MC*.cfg
    tlapm OwnershipProofs.tla

`PROJECT.json` lists the components, the runs, the lines every definition stands
for, one plausible bug per property that the run detects, the hazards, the
findings and the theorems.

## 1. The system

One CLI process executes one command, sequentially. It reads the legacy database,
calls the two services over HTTP, and records what it did in its own state store.

| component | state it keeps | operations |
|---|---|---|
| snapshot, resume (`migration.py`) | statistics in memory; the run in the state store | `run_snapshot`: migrate users, validate users, migrate sales, validate sales, referential check, `_finalize`; two exception handlers; `resume` starts over at phase 1 and skips items already imported |
| preflight (`run_dry`) | none | counts, health checks, one join |
| validation (`validation.py`) | loop locals; marks items `validated` | `validate_users`, `validate_sales`, `check_referential_integrity`; alone as `validate`, with or without a run id |
| rollback (`rollback.py`) | loop locals; item and run status | gates, sales then users; per item read, compare, DELETE, read again, record; `--dry-run` |
| state store (`state.py`) | `migration_runs`, `migration_items` | create and update a run, upsert an item, set an item's status, query items; one transaction each |
| HTTP client (`http.py`) | loop variable | `request`: up to 1 + `http_max_retries` attempts, capped exponential pauses |
| service clients (`clients/`) | none | import, get, delete: what a status code means |
| legacy source (`legacy.py`) | none | counts, ordered streams, two referential queries |
| the services | rows | outside this repository; import is idempotent by id, 201/200/409/422, 204/404 |
| models and comparisons (`models.py`) | none | enumerations; datetimes equal within a second |
| CLI, config, report, logging, runtime | none | wiring, printing, exit codes, report files |

Components share three stores and nothing else: the services (import, rollback and
validation), the items (import writes them, resume, validation and rollback read
them) and the run status (every command's gate). There is no lock: a second
process may run any command on the same run.

What is hard here:

- **An answer that never came.** The client retries a request the service may have
  run, and gives up on requests the service may still run. Whether a row is
  `created` (owned, and deleted by a rollback) or `unchanged` depends on the
  answer that arrived.
- **A crash between two stores.** The row is in the service and the item is not
  recorded yet, or the row is deleted and the item not marked.
- **Stale knowledge.** `resume` skips rows on the word of an item written by an
  earlier attempt; the legacy database and the services may have changed since.
- **Queries at different moments.** Counts, streams, references and the sales of
  those references are separate queries on a database in use.
- **Partial failure.** One row fails, the rest of the phase goes on; a later phase
  must not start; a rollback must keep the users of sales it could not remove.
- **Repetition.** Resume after resume, rollback after a failed rollback, runs after
  rolled back runs, two commands at once.
- **Retry boundaries.** Two comparisons in `request` separate retrying, returning
  and raising.
- **Two ways to compare.** Validation reads numbers with `int()` and raises on what it
  cannot read; rollback compares printed values and calls it a mismatch. Both allow
  timestamps a second apart, which is not transitive.
- **Numbers over several attempts.** Counters start from zero in every attempt and are
  rebuilt from skipped rows; the report, the error and the exit code must be true of
  the run all the same.

What makes each component correct:

- import: rows that were there before are never claimed as created; rows inserted
  are owned; no sale is sent before all users are confirmed;
- validation: a positive verdict is true; a COMPLETED run accounts for every row;
- rollback: pre-existing rows and drifted rows stay; sales go first; ROLLED_BACK
  means nothing is left; a dry run changes nothing;
- runs: statuses follow the state machine of the repository's README; failed runs
  can be completed and failed rollbacks finished;
- HTTP client: retries exactly what is transient, gives up last, and the answer
  reported is true;
- comparisons: a copy left alone is accepted, and rollback accepts nothing that
  validation rejects;
- reports and exit codes: the counters add up, the report of a COMPLETED run describes
  its items, and exit code 0 is true;
- preflight: what it found in order is in order, until somebody writes;
- every command ends.

## 2. The modules

| module | what it is |
|---|---|
| `MigrationState` | constants, variables and vocabulary shared by the commands: tables, store, process memory |
| `Services` | one HTTP attempt at a time: answered, lost, run late; other writers; crashes |
| `Snapshot` | `migration.py` and `validation.py`: snapshot, resume, validate |
| `Rollback` | `rollback.py`: rollback, dry run |
| `MigrationTool` | the composition: `Init`, `Next`, the properties, fairness |
| `RunLifecycle` | abstract: what `migration_runs.status` promises to a reader |
| `HttpRetry` | `http.py`, and what the clients make of its outcome |
| `RemoteCall` | abstract: what one call promises to the commands |
| `Reporting` | laid over `MigrationTool`: counters, the stored report, error and end of a run, exit codes |
| `Preflight` | laid over `MigrationTool`: `run_dry` |
| `Comparison` | one row with its fields and dates: `_cmp_user`, `_cmp_sale`, `_matches_snapshot`, `datetimes_equal` |
| `MCMigrationTool`, `MCReporting`, `MCPreflight`, `MCHttpRetry`, `MCComparison` | small instances |
| `MigrationToolProofs`, `OwnershipProofs` | theorems about the tool: types, and the rows that were there first |
| `StepProofs`, `VerdictProofs`, `OneCommandProofs` | theorems about the tool: what each action does, the verdicts, and what holds with one command at a time |
| `LayersProofs` | theorems about `Reporting` and `Preflight` |
| `HttpRetryProofs`, `ComparisonProofs` | theorems about the two modules they are named after |

`Snapshot` and `Rollback` EXTEND `Services`, which EXTENDS `MigrationState`;
`MigrationTool` EXTENDS both and INSTANCEs `RunLifecycle` with a refinement mapping.
`HttpRetry` INSTANCEs `RemoteCall`. `Services` and the call steps of the commands
take one call as `RemoteCall` describes it, and `HttpRetry` is shown to keep that
description: this is how the retry loop is checked once and not inside every
command.

`Reporting` and `Preflight` EXTEND `MigrationTool` with variables of their own: each of
their steps is a step of the tool together with what it counts, or leaves the tool
alone. That they never steer it is proved (`LayersProofs`), so what holds of the tool
holds under them, and the large runs of the tool need not carry the counters.
`Comparison` stands alone: the other modules take a row's contents as one value, and it
says what stands behind the equality of two such values.

### State

| variable | code |
|---|---|
| `legacy` | the tables of the monolith: contents of every key, or `Absent` |
| `svc` | the rows of both services |
| `wire` | requests the client stopped waiting for and the service may still run |
| `status` | `migration_runs.status`, "none" before `create_run` |
| `items` | `migration_items`: `action`, `status`, and the payload sent |
| `proc` | per process: the command, where it stands (`pc`), the run, the phase's entity, whether something was reported (`bad`), the rows of the open query (`cursor`), the row in hand (`cur`), attempts of the call under way, the answer, the counters and sets of the validators |
| `faults`, `churn`, `drift` | how much of the bounds is used |
| `report` (Reporting) | per process: `MigrationStats`, the rows with divergences and those of the validator under way, the outcomes of `RollbackReport`; which tables are counted |
| `record` (Reporting) | `stats_json`, `error` and `finished_at` of `migration_runs` |
| `exit` (Reporting) | the exit code of the last command |
| `flight`, `cleared` (Preflight) | the step, counts and reasons of `run_dry`; history: when a preflight last found nothing |
| `legacy`, `stored`, `remote`, `stage` (Comparison) | one row in the monolith, in `payload_json`, in the service's answer; how far it got |
| `pre`, `origin`, `touched` | history, read by properties only: what the services held first; whose POST put a row there; the rows somebody else wrote since a process's command began |

### Actions

One action is one transaction, one query, or one HTTP attempt: the points where
another process, the monolith, or a crash can come in between.

| actions | code |
|---|---|
| `StartSnapshot`, `StartResume`, `StartValidate`, `StartRollback` | the commands of `cli.py` with the gates of `run_snapshot`, `resume`, `run_rollback` |
| `ImportOpen`, `ImportSkip`, `ImportBegin`, `PostAnswered`, `PostLost`, `PostRefused`, `ImportUpsert`, `ImportEnd` | `_migrate_users`, `_migrate_sales` and the status after them |
| `CountLegacy`, `CheckOpen`, `CheckRow`, `CheckRowLost`, `CheckItem`, `CheckMark`, `CheckEnd` | `validate_users`, `validate_sales`, `_mark_validated` |
| `RefsOpen`, `RefsGet`, `RefsGetLost`, `RefsEnd` | `check_referential_integrity` |
| `Finalize`, `Report`, `Abort` | `_finalize`, the `validate` command's end, the exception handlers |
| `RollbackOpen`, `RollbackRead`, `RollbackReadLost`, `DeleteAnswered`, `DeleteLost`, `RollbackConfirm`, `RemovalFailed`, `RollbackMark`, `SalesDone`, `RollbackEnd` | `run_rollback`, `_process` |
| `Arrive`, `LegacyWrite`, `ServiceWrite`, `Crash` | late requests, the monolith, other clients, kills |
| `Started`, `TurnedAway`, `CountFound`, `SkipCounted`, `AnswerCounted`, `FailureCounted`, `ImportPersisted`, `RowCompared`, `CheckCounted`, `RefsCounted`, `Finalized`, `ValidateEnded`, `Aborted`, `RollbackReadRecorded`, `RemovalRecorded`, `RollbackEnded` | the same steps with `add_import`, `users_found`, `users_validated`, `_persist`, `_finalize`, `_record`, and the exit of `cli.py` |
| `StartPreflight`, `Ping`, `CountRows`, `Healthy`, `Unhealthy`, `Verdict`, `FlightLost` | `run_dry` |
| `Send`, `Insert`, `LegacyEdit`, `ServiceEdit` | the journey of one row |

### What the models abstract

- Row contents are values, except in `Comparison`. Two contents are equal exactly when
  no compared field differs. `Comparison` shows how far that is from the code: a copy
  left alone is accepted by both comparisons whatever its form, and what both accept
  differs in `created_at` only, by at most two seconds.
- In `Comparison` the fields of users and sales are one set of number fields and one
  text; a service prints all its numbers in one form. An ISO text is the clock and zone
  it shows: microseconds are printed, so nothing of a date is lost on the way out.
  A fraction of a second lost in the service is its own `dropped`.
- A key identifies a row in the legacy database and in its service (the import
  keeps ids). Users and sales have disjoint keys, so one table serves both; the
  least key is the first of an `ORDER BY id`. The `user_id` of a sale is fixed.
- A query is a snapshot of the moment it is opened, as in PostgreSQL at its default
  isolation. Which process is slow does not matter: the stream is in `cursor`.
- A GET changes nothing, so its attempts are one step: it is answered, or it fails
  (`CheckRowLost`, `RefsGetLost`, `RollbackReadLost`). POST and DELETE take a step
  per attempt.
- A status code that is neither retried nor known to the client is taken to come
  from something that did not run the request (`PostRefused`, `RemovalFailed`).
- The two transactions of `_mark_validated` are two steps: an item read as imported
  (`CheckItem`) is marked (`CheckMark`) whatever another process made of it since, so an
  item may be in conflict and validated. The query and the write of `upsert_item` share
  one transaction and are one step.
- A process killed while a request is on its way is `PostLost` or `DeleteLost`
  followed by `Crash`: it uses up two faults.
- Divergent users are recorded as FAILED twice, by `_persist` and by `_finalize`; the
  first write is in `CheckEnd`, the second in `Finalize`, and a crash may come between.
- The reasons of a report are what makes a run FAILED and a validation fail; their
  texts are not modelled. `record` keeps the rows that have divergences, not the fields.
  The divergences a validator found reach the report when it returns (`CheckCounted`); a
  command aborted inside it stores none of them, hence `differing`.
- `users_found` is counted by a query of its own, a moment before the rows are streamed
  (`CountFound`), and by `validate` before anything else.
- The counts of a `RollbackReport` are kept by outcome; its per-entity counters are the
  same numbers split in two.
- A failing health check or a killed preflight changes nothing, so it uses up no fault.

## 3. Bounds and assumptions

Assumptions on the constants are named in the module that declares them
(`KeysAssumption`, `FiniteAssumption`, `ValuesAssumption`, `RunsAssumption`,
`BoundsAssumption`, `InitAssumption`, `CommandsAssumption`; `RetriesAssumption`,
`CodesAssumption`) and evaluated by TLC in every run.

`MaxFaults` bounds lost requests, lost answers, crashes and exceptions together;
`MaxChurn` the rows the monolith writes; `MaxDrift` the rows other clients write.
The proofs hold for every value of the three.

| run | instance | properties |
|---|---|---|
| `one_command` | 2 users (the second has the sale), 1 sale, 2 runs, 1 process, 1 retry, 2 faults; services empty, or holding one user the same or different | `TypeOK`, `InsertedIsOwned`, `VerdictSound`, `SalesAfterUsers`, `RolledBackIsClean`, `ReadOnlyCommands`, `LifecycleSpec` |
| `two_processes` | 1 user present, 1 sale, 1 run, 2 processes, 1 fault | `PreexistingSurvive`, `CreatedIsNew`, `NothingClaimed`, `VerdictSound` |
| `live_sources` | 1 user, 1 sale, 1 process, a rejected payload, a write of the monolith, a write in the services, 1 fault; the legacy still growing | `VerdictSound`, `CompletedIsRecorded`, `UsersDeletedLast`, `DriftedRowsStay`, `RolledBackIsClean`, `DryRunForetells`, `OwnershipKept` |
| `persistence` | 2 users, 1 sale, 1 run, 1 process, 3 faults, no conflicting rows; fairness | `ResumeCompletes`, `RollbackCompletes` |
| `http_retry` | 5 retries, two codes the loop retries (429, 503) and two it does not (400, 501), every request and row | `TypeOK`, `FinalNotRetried`, `GivesUpLast`, `PausesBetween`, `AnswersHold`, `CallSpec`, `CallEnds` |
| `reports` | 2 users, 1 sale, 1 run, 1 process, every command, 2 faults, a write of the monolith; services holding one user the same or different | `ReportingTypeOK`, `OutcomesAddUp`, `CompletedReportAgrees`, `RollbackAccounts`, `ExitZeroIsTrue` |
| `preflight` | 1 user, 1 sale (with, without, before its user), 1 run, snapshots and resumes, a write of each kind, 1 fault | `PreflightTypeOK`, `PreflightForetells` |
| `comparison` | 1 number field, 2 texts (one of them "None"), a clock of 3 seconds in half seconds, 3 zones (none, UTC, one ahead), 3 forms of numbers, 2 edits | `ComparisonTypeOK`, `FaithfulCopyAccepted`, `RollbackStricter`, `DriftBounded` |
| `lost_answer`, `retried_rollback`, `late_sale`, `validated_count` | smallest instances that show a finding | see section 6 |

Why these are enough: every loop handles rows one by one and carries over only a
flag, two counters and a set, so two users show a loop that goes on after a
failure, a user without a sale and one whose sale depends on it. Two runs show a
run next to, before and after another. Two faults show a lost request followed by a
lost retry (with `MaxRetries` 1: the call fails), a crash during a recovery from a
crash, and a resume of a failed resume. `persistence` has one run, as neither a
resume nor a rollback waits for anything another run does, and three faults, so that
a resume or a rollback can fail twice. In `reports` no other client writes in the
services. One write of each kind, at any moment, is what one row needs to be stale;
the writes a property excuses are excused row by
row (`touched`), so every other row is still checked. `http_retry` takes five
retries because the pauses reach their cap only with the fifth. `comparison` takes
half seconds so that a dropped fraction is less than the tolerance and two edits can
leave dates exactly two seconds apart; its fields are compared one by one, so one number
and one text show what any number of them would, and the proofs take any set.

## 4. What is checked

**Ownership.** `PreexistingSurvive`, `CreatedIsNew`, and the invariant behind both,
`NothingClaimed`: nothing that leads to a DELETE ever names a row that was there
first, with two processes on one run. `InsertedIsOwned` is the other half: as long
as nothing is lost, an inserted row is recorded as created by its run. With lost
answers it is not (finding 1), and with two processes on one run the second may be
answered 200 and overwrite the first one's `created` (section 6), so it is stated
without faults and checked with one process. `OwnershipKept`: with one process, an
owned row stays owned from attempt to attempt until a rollback handles it, under faults and other writers.

**Verdicts.** `VerdictSound`: COMPLETED and VALIDATED are only reported when every
row that nobody else wrote meanwhile is there and the same, and its user too.
`CompletedIsRecorded`: such a row has a validated item. `SalesAfterUsers`: no sale
is sent while a user is missing, also when resume skipped that user.

**Rollback.** `RolledBackIsClean`, `UsersDeletedLast`, `DriftedRowsStay`,
`ReadOnlyCommands`, and `DryRunForetells`: a dry run without conflicts and failures is
right about what the rollback will find, for the rows nobody else writes. With two
processes on the same run the first two are not promised: a resume may record a row as created after the rollback's query.

**Runs.** `LifecycleSpec`: with one process the tool implements `RunLifecycle`.
`Driven` is the run of the process in a snapshot or resume, `Reached` the number of
milestones this attempt recorded, read off the status unless the process still
stands in its first phase, where the status is left from an earlier attempt.

**Calls.** `FinalNotRetried`: what README.md:326 calls deterministic is never asked for
again; `GivesUpLast`: what the loop takes for transient is asked for to the last attempt.
`CallSpec`: the loop implements `RemoteCall`, with an attempt that ended
without a usable response as `Lost`, the last one as `GivenUp`, and pauses as
stutters. `AnswersHold` is the part the commands rely on most: whatever earlier
attempts did unheard, the answer that arrives describes the row.

**Comparisons.** `FaithfulCopyAccepted`, `RollbackStricter` and `DriftBounded`, as in
section 2: time zones, dates without one, dropped fractions, unreadable and missing
fields, numbers printed as 3, "3" or 3.0. The last is where the two comparisons part:
validation accepts 3.0, rollback does not, so `FaithfulCopyAccepted` excludes it for
rollback. A field that is missing ends the run in validation and prints as "None" in
rollback, so `RollbackStricter` excludes rows whose name is "None" (section 6).

**Reports.** `OutcomesAddUp`: a row is counted once. `CompletedReportAgrees`: the report
stored with a COMPLETED run agrees with its items and carries nothing of the failures of
earlier attempts - after any crashes, aborts and resumes, as long as the monolith rests.
`RollbackAccounts`: every owned item has one outcome. `ExitZeroIsTrue` relates the exit
code to the services themselves: whatever was counted, 0 is returned only when every row
nobody else wrote is where the command says.

**Preflight.** `PreflightForetells`: while the monolith writes nothing, a snapshot or
resume after a preflight without reasons finds no orphan sale, unless users were written
in the service by others. It checks the join of the preflight against the two queries and
the GETs of phase 5.

**Progress**, under this fairness:

- `WF_vars(Advance(p))`: the CLI is sequential and every wait is bounded (per
  attempt by httpx's timeout, in number by the retry loop), so a command that can
  take its next step takes it. An HTTP timeout is per read: a server that sends a
  byte now and then could outlast it, and is not considered.
- `SF_vars(StartResume(p, r))` as `ResumesAgain`, and the same for a rollback as
  `RollsBackAgain`: the operator does not give up. These are assumptions on two
  different operators, so each stands as the premise of its property,
  `ResumeCompletes` (with `NoRollback`) and `RollbackCompletes`, and not in
  `RunningSpec`; strong because other commands may run in between.
- `WF_vars(Loop)` in `HttpRetry`: as the first.

Faults are bounded, so they stop at last; liveness then says that what they left
behind does not keep a later attempt from succeeding.

## 5. What is proved

The specifications with their constants arbitrary: any rows, runs, processes and
bounds. Every invariant and action property of the passing runs is the subject of a
theorem; what is left to TLC is liveness.

`StepProofs` EXTENDS `MigrationToolProofs`, and `VerdictProofs`, `OneCommandProofs` and
`LayersProofs` EXTEND one another in this order, the last with `Reporting` and
`Preflight`. `OwnershipProofs` EXTENDS `MigrationToolProofs` only.

### For any number of processes

`MigrationToolProofs!TypeCorrect`: `Spec => []TypeOK`. The record types alone are
not inductive: a process that upserts needs an answer that is an `ImportAction`, a
rollback that marks needs an item to mark. `StageOK` says what a process holds at
each stage, and is part of `TypeOK`. The rollback's part rests on items never being
removed (`ItemsGrow`).

`OwnershipProofs`: `PreexistingSurvive` is not inductive, as a DELETE is legitimate
only because of where its row came from. `NothingClaimed` follows the row backwards:
the row in hand, the cursor of the rollback, the items with action `created`, the
answer 201 about to be recorded, the late requests. A 201 is only given for an
absent row, which by the invariant was not there first. `NothingClaimedHolds` proves
it inductive together with `TypeOK`, one lemma per group of actions;
`PreexistingSurviveHolds` and `CreatedIsNewHolds` follow.

`StepProofs` has one lemma per action, `<Action>Does`, with the fields of the process it
sets; the later proofs cite these and expand no action. `OthersKeep` and `ElsewhereKeeps`
say that a step changes the memory of its own process only, and that every row it writes
is from then on `touched` for the other processes, so that the rows a process is settled
on are as they were when its command began or as it wrote them itself (`Undisturbed`).
`Control` says which stages belong to which command; `ReadOnlyCommandsHold`
follows, as the stages of a dry run and of `validate` have no action that writes what
the property protects.

`VerdictProofs`: `VerdictInv` says of every process which rows it has compared so far
(`Checked`: the users before the sales, the rows of a table before the pending ones) and
that, unless something was reported, those nobody else wrote since are still in their
service as in the legacy database; that the cursor is current for the others
(`CursorCurrent`); that an import reaches the sales only with all users there
(`UsersThere`); and what became of the user of each sale (`RefsResolved`). At the end of
the checks `Checked` is every row, which is `VerdictSoundHolds`; `UsersThere` is
`SalesAfterUsersHolds`.

### With one command at a time

`OneCommandProofs` has the hypothesis `OneCommand == \A p, q \in Procs : p = q`, for any
rows, runs, faults and other writers. It is needed: TLC finds every property of this
section violated with two processes on one run, most of them within a few steps of a
resume next to a rollback, `DriftedRowsStay` and `DryRunForetells` only when the legacy
database is written too (two resumes send different contents, and the later upsert changes
what the rollback of the row goes by). The tool has no lock, so the hypothesis is one
on its operator.

- `RollbackInv`: a rollback's cursor holds created items with the payloads of the run
  (`OwnItems`), the row about to be deleted was seen as sent (`HandMatches`), and the
  handled rows are gone, or in a dry run safe to delete, unless something was reported
  (`HandledFine`, `SalesFine`). It gives `RolledBackIsCleanHolds`,
  `UsersDeletedLastHolds`, `DriftedRowsStayHolds` and `DryRunForetellsHolds`.
- `RecordedInv`: as `VerdictInv`, for items: the rows the import has taken have a done
  item, the compared ones a validated item, and `complete` is only reached with
  nothing reported. `CompletedIsRecordedHolds`.
- `HolderInv`: a row is sent only while its item is not done; a driven run is not blocked
  and a run rolled back is not ROLLED_BACK until the command ends. So no step lowers a
  `created` item that no rollback handled: `OwnershipKeptHolds`.
- `OwnedInv`: `InsertedIsOwned` with what it rests on while nothing was lost: no request is
  under way on its own, created items were imported, and undone items belong to a run whose
  rollback was started. `InsertedIsOwnedHolds`.
- `MilestoneInv`: which status the driven run shows at each stage. With it every step of the
  tool is a step of `RunLifecycle` or a stutter under the mapping: `ImplementsLifecycle`.

### The layers

`LayersProofs`: `ReportingObserves` (`RSpec => Spec`) and `PreflightObserves`
(`PSpec => Spec`), action by action; with them every theorem about `Spec` is one about
the layered specifications. `PreflightTypes` takes `TypeOK` over that way.
`ReportingTypes` is by the
lemmas about the counting operators (`OneMoreOutcome`, `TalliedDoes`, `ReportFields`).

- `PreflightForetellsHolds`, any number of processes: `Clearance` (while `churn` has the value
  at which a preflight found nothing, the legacy database has no orphan sale) and
  `MissingInv` (a user the referential check did not find is not there, unless others
  wrote it), with `VerdictInv` for the users that are.
- `OutcomesAddUpHolds`, any number of processes: `CountInv`, that the rows counted plus
  the rows still to count are the rows found (`AddingUp`), while nobody writes. The row in
  hand is counted at its answer, before it is recorded, so `ToCount` leaves it out there.
- `RollbackAccountsHolds`, one command: `AccountInv`, the same sum for a rollback over its two
  tables, with the row between its reading and its DELETE counted apart.
- `ExitZeroIsTrueHolds`, one command: `ExitInv` (no running command has exited with 0; a dry
  run that met something counted it), then what each kind of command has established when
  it ends: `RollbackInv`, `RecordedInv` and `VerdictInv`.
- `CompletedReportAgreesHolds`, one command: `RecordInv`. For an import with nothing reported,
  and while the monolith rests, each counter is the number of imported rows whose item
  has that action, plus one while an answer is counted and not recorded (`TalliesMatch`);
  nothing is divergent (`NothingWrong`); and what queries counted is what the legacy
  database holds (`QueriesMatch`, `EndsMatch`). That a resume rebuilds the counters from
  the items of earlier attempts needs that those items are of rows still in the legacy
  database (`ItemsExist`); that the stored report stays true after the run needs
  `HolderInv`, as nothing but a rollback writes the items of a COMPLETED run.

### Calls and comparisons

`HttpRetryProofs`: `Looping` (the loop variable is the number of outcomes heard, all
but the last transient, and the loop goes on exactly when the last one is and tries
are left) is inductive and gives `FinalNotRetriedHolds`, `GivesUpLastHolds` and
`TypesHold`. `Pausing` adds that the i-th pause lasts what the capped exponential says and
that there is one before every attempt but the first; `PausesBetweenHolds` follows, with
the powers of two taken as numbers of subsets, which the prover can compare without
an induction. `AnswersHoldAlways` adds that an answer, once given, stays true when late
attempts arrive, and `ImplementsCall` that every step of the loop is a step of
`RemoteCall` or a stutter under the mapping.

`ComparisonProofs`, from `ComparisonConstants` (zones have integer offsets, a second has
at least a tick): `CInv` says that only edits tell the row from the payload and the copy
from what a service makes of it. `EqualityIsCloseness` reduces `datetimes_equal` to the
moments two dates stand for, `Accepted` and `Matched` spell out what each comparison
accepts; `FaithfulCopies`, `RollbackIsStricter` and `DriftIsBounded` follow, the last by
`TwoSeconds`.

### Only model-checked

`ResumeCompletes`, `RollbackCompletes` and `CallEnds`: liveness under
fairness is out of this prover's reach. The four findings are violations, shown by TLC.

## 6. Findings

Each is a run whose property quotes the repository and is violated by what the code
does.

1. `lost_answer`: README.md:138 says an `unchanged` row existed before the run. A
   POST that was run but not answered is answered 200 by the retry, so a row the run
   inserted is recorded as unchanged and no rollback removes it.
2. `retried_rollback`: rollback.py:4 says only rows this run inserted are removed. A
   rollback that failed on a row the service then did delete, run again after
   another run inserted the row anew, deletes that run's row.
3. `late_sale`: validation.py:155 says every legacy sale's user is looked up. A sale
   inserted between the two queries of the check is counted without it.
4. `validated_count` (a bug): validation.py:97 subtracts missing rows from a number that
   never contained them, so the report may print -1 validated rows.

Other divergences met while modelling, which have no run of their own:

- README.md:136 says a row answered 201 is owned by the run. Of two resumes of one run
  at once, the one answered 200 overwrites the `created` of the other with `unchanged`
  (state.py:202), though nothing was lost: `InsertedIsOwned` fails with two processes.
- migration.py:42 and README.md:211 say rolled-back runs are not driven. A process that
  drives a run while another rolls it back writes its next milestone over ROLLED_BACK.
- README.md:116 says `error` is set if the run aborted. `update_run` never clears it
  (state.py:156), so a COMPLETED run may show the error of an earlier attempt;
  `CompletedReportAgrees` leaves that column out.
- README.md:209 says a second pass produces `created = 0, unchanged = everything`. A
  skipped row is counted with the action of its item, `created` again (migration.py:217).
  A test, tests/test_snapshot.py:216, expects what the code does, and
  `CompletedReportAgrees` shows why it is useful.
- README.md:95 says exit code 1 is for failures and 2 for bad arguments. A dry run of a
  rollback that could not read a row exits with 0 (cli.py:133); `resume` returns 2 for
  any KeyError or ValueError of the work, after the run was recorded as FAILED (cli.py:73).
- http.py:5 and README.md:324 say every status of 500 and above is retried;
  `RETRYABLE_STATUS` (http.py:23) holds 500, 502, 503 and 504 only: a 501 is returned at
  once and becomes a failed item. `FinalNotRetried` goes by the documentation, so it
  bounds what is retried and not what is given up.
- rollback.py:48-62 prints both sides before it compares them, so a row named "None" is
  taken for unchanged when the service answers without a name (`str(None)`), and deleted;
  validation raises a KeyError on that answer.

## 7. Not modelled

- `status` and `runs`: they read the state store once, print and change nothing.
- `render_text` and `write_files`: formatting, and two files whose failure is caught and
  which nothing reads back. Two attempts of a run write the same files, the last wins.
- Logging, configuration, runtime wiring: settings are the constants `MaxRetries` and
  `AllowDestructive`; an invalid configuration ends the process before any command.
- The columns nothing reads: `payload_hash`, the error of an item, `started_at`,
  `legacy_source`, `destination`.
- The services' implementation: another repository. Only what the clients see of
  them is modelled, marked external in the map. That they compare an import with the
  tolerance of a second is what models.py:12 says of them and is not checked here.

## 8. Plan

Done: the core (state, services, snapshot, rollback, composition, lifecycle, retry loop),
the layers (reports and exit codes, preflight), the comparisons, and the proofs of
section 5.

Next, proving: which of the properties of one command at a time survive a weaker
hypothesis, namely any number of processes of which no two work on the same run; and
`DriftedRowsStay` and `DryRunForetells` for any number of processes while the monolith
writes nothing.
