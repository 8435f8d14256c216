------------------------------ MODULE Snapshot ------------------------------
(***************************************************************************)
(* migration.py and validation.py: the commands snapshot, resume and       *)
(* validate. One action is one transaction on the state store, one query   *)
(* of the legacy database, or one HTTP attempt.                            *)
(***************************************************************************)
EXTENDS Services

Imports(p) == proc[p].cmd = "snapshot"

(***************************************************************************)
(* Starting a command.                                                     *)
(***************************************************************************)
StartSnapshot(p, r) ==
    /\ "snapshot" \in Commands
    /\ status[r] = "none"
    /\ status' = [status EXCEPT ![r] = "STARTED"]
    /\ Begin(p, "snapshot", r, "user", "import_open")
    /\ UNCHANGED <<world, items, budget, pre, origin>>

(* Mutants: a failed rollback may be resumed; a failed run may not. *)
ResumeBlockedUnlessFailedRollback == {"COMPLETED", "ROLLED_BACK"}
ResumeBlockedWhenFailed == {"COMPLETED", "FAILED", "ROLLED_BACK", "ROLLBACK_FAILED"}

ResumeBlocked == {"COMPLETED", "ROLLED_BACK", "ROLLBACK_FAILED"}

StartResume(p, r) ==
    /\ "resume" \in Commands
    /\ status[r] \notin ResumeBlocked \union {"none"}
    /\ Begin(p, "snapshot", r, "user", "import_open")
    /\ UNCHANGED <<world, store, budget, pre, origin>>

(* cli validate: --run-id is optional and is not looked up. *)
StartValidate(p, r) ==
    /\ "validate" \in Commands
    /\ Begin(p, "validate", r, "user", "count")
    /\ UNCHANGED <<world, store, budget, pre, origin>>

(***************************************************************************)
(* Phases 1 and 3: _migrate_users, _migrate_sales.                         *)
(***************************************************************************)
ImportOpen(p) ==
    /\ At(p, "import_open")
    /\ Step(p, [proc[p] EXCEPT !.cursor = Select(proc[p].ent, legacy),
                               !.pc = "import_next"])
    /\ UNCHANGED <<world, store, budget, history>>

(* Mutant: a row imported by an earlier attempt is sent again. *)
AlreadyValidated(item) ==
    item.status = "validated" /\ item.action \in {"created", "unchanged"}

AlreadyDone(item) ==
    item.status \in {"imported", "validated"} /\ item.action \in {"created", "unchanged"}

ImportSkip(p) ==
    /\ At(p, "import_next")
    /\ \E k \in Keys :
         /\ IsNext(p, k) /\ AlreadyDone(items[proc[p].run][k])
         /\ Step(p, [proc[p] EXCEPT !.cursor = Drop(p, k)])
    /\ UNCHANGED <<world, store, budget, history>>

ImportBegin(p) ==
    /\ At(p, "import_next")
    /\ \E k \in Keys :
         /\ IsNext(p, k) /\ ~ AlreadyDone(items[proc[p].run][k])
         /\ Step(p, [proc[p] EXCEPT !.cur = k, !.pc = "post"])
    /\ UNCHANGED <<world, store, budget, history>>

PostRequest(p) ==
    [op |-> "post", run |-> proc[p].run, key |-> proc[p].cur,
     val |-> proc[p].cursor[proc[p].cur]]

PostAnswered(p) ==
    /\ At(p, "post")
    /\ Answer(p, PostRequest(p))
    /\ Step(p, [proc[p] EXCEPT !.ans = Reply(svc[proc[p].cur], PostRequest(p).val),
                               !.tries = 0, !.pc = "upsert"])
    /\ UNCHANGED <<legacy, store, churn, drift, pre>>

PostLost(p) ==
    /\ At(p, "post")
    /\ Lose(p, PostRequest(p))
    /\ Step(p, IF Exhausted(p)
               THEN [proc[p] EXCEPT !.ans = "failed", !.tries = 0, !.pc = "upsert"]
               ELSE [proc[p] EXCEPT !.tries = @ + 1])
    /\ UNCHANGED <<legacy, store, churn, drift, pre>>

(* An answer that is neither retried nor one of 201, 200, 409, 422. *)
PostRefused(p) ==
    /\ At(p, "post")
    /\ Fault
    /\ Step(p, [proc[p] EXCEPT !.ans = "failed", !.tries = 0, !.pc = "upsert"])
    /\ UNCHANGED <<world, store, churn, drift, history>>

(* Mutants: the action is stored as the status; every row the service has now
   is recorded as created. *)
UpsertedStatusIsAction(ans, v) == [action |-> ans, status |-> ans, payload |-> v]
UpsertedAlwaysCreated(ans, v) ==
    [action |-> IF ans = "unchanged" THEN "created" ELSE ans,
     status |-> IF ans \in {"created", "unchanged"} THEN "imported" ELSE "failed",
     payload |-> v]

UpsertedItem(ans, v) ==
    [action |-> ans,
     status |-> IF ans \in {"created", "unchanged"} THEN "imported" ELSE "failed",
     payload |-> v]

ImportUpsert(p) ==
    LET me == proc[p] IN
    /\ At(p, "upsert")
    /\ items' = [items EXCEPT ![me.run][me.cur] =
                   UpsertedItem(me.ans, me.cursor[me.cur])]
    /\ Step(p, [me EXCEPT !.bad = @ \/ me.ans \in {"conflict", "failed"},
                          !.cursor = Drop(p, me.cur), !.cur = NoKey,
                          !.ans = "none", !.pc = "import_next"])
    /\ UNCHANGED <<world, status, budget, history>>

ImportEnd(p) ==
    /\ At(p, "import_next")
    /\ Pending(p) = {}
    /\ status' = [status EXCEPT ![proc[p].run] =
                    IF proc[p].ent = "user" THEN "USERS_MIGRATED" ELSE "SALES_MIGRATED"]
    /\ Goto(p, IF proc[p].bad THEN "fail" ELSE "count")
    /\ UNCHANGED <<world, items, budget, history>>

(***************************************************************************)
(* Phases 2 and 4: validate_users, validate_sales.                         *)
(***************************************************************************)
CountLegacy(p) ==
    /\ At(p, "count")
    /\ Step(p, [proc[p] EXCEPT
                  !.expected = Cardinality({k \in Rows(proc[p].ent) : legacy[k] # Absent}),
                  !.found = 0, !.pc = "check_open"])
    /\ UNCHANGED <<world, store, budget, history>>

CheckOpen(p) ==
    /\ At(p, "check_open")
    /\ Step(p, [proc[p] EXCEPT !.cursor = Select(proc[p].ent, legacy),
                               !.pc = "check_next"])
    /\ UNCHANGED <<world, store, budget, history>>

(* Mutant: a row that is there is not compared. *)
AgreesIfPresent(row, v) == row # Absent

(* _cmp_user, _cmp_sale: the row is there and has no differing field. *)
Agrees(row, v) == row = v

CheckRow(p) ==
    /\ At(p, "check_next")
    /\ \E k \in Keys :
         /\ IsNext(p, k)
         /\ LET me == proc[p]
                same == Agrees(svc[k], me.cursor[k]) IN
            Step(p, [me EXCEPT !.found = IF svc[k] = Absent THEN @ ELSE @ + 1,
                               !.bad = @ \/ ~ same,
                               !.cur = IF same THEN k ELSE NoKey, !.cursor = Drop(p, k),
                               !.pc = IF same THEN "check_item" ELSE "check_next"])
    /\ UNCHANGED <<world, store, budget, history>>

(* HttpError while reading the row. *)
CheckRowLost(p) ==
    /\ At(p, "check_next")
    /\ Fault
    /\ \E k \in Keys :
         /\ IsNext(p, k)
         /\ Step(p, [proc[p] EXCEPT !.bad = TRUE, !.cursor = Drop(p, k)])
    /\ UNCHANGED <<world, store, churn, drift, history>>

(* Mutant: only owned rows are marked. *)
MarkableOwned(r, k) == r # NoRun /\ items[r][k].action = "created"

(* _mark_validated: get_item, and set_item_status of what it found, whatever has
   become of the item in between. *)
Markable(r, k) == r # NoRun /\ items[r][k].action \in {"created", "unchanged"}

CheckItem(p) ==
    LET me == proc[p] IN
    /\ At(p, "check_item")
    /\ Step(p, IF Markable(me.run, me.cur)
               THEN [me EXCEPT !.pc = "check_mark"]
               ELSE [me EXCEPT !.cur = NoKey, !.pc = "check_next"])
    /\ UNCHANGED <<world, store, budget, history>>

CheckMark(p) ==
    LET me == proc[p] IN
    /\ At(p, "check_mark")
    /\ items' = [items EXCEPT ![me.run][me.cur].status = "validated"]
    /\ Step(p, [me EXCEPT !.cur = NoKey, !.pc = "check_next"])
    /\ UNCHANGED <<world, status, budget, history>>

(* Mutants: the verdict of one of the two validators is dropped. *)
MismatchOfUsers(p) ==
    proc[p].ent = "user" /\ (proc[p].bad \/ proc[p].found # proc[p].expected)
MismatchOfSales(p) ==
    proc[p].ent = "sale" /\ (proc[p].bad \/ proc[p].found # proc[p].expected)

Mismatch(p) == proc[p].bad \/ proc[p].found # proc[p].expected

(* Divergent users are persisted as FAILED before the run is finalized. *)
CheckEnd(p) ==
    LET me == proc[p] IN
    /\ At(p, "check_next")
    /\ Pending(p) = {}
    /\ status' = IF ~ Imports(p) THEN status
                 ELSE IF ~ Mismatch(p)
                 THEN [status EXCEPT ![me.run] = IF me.ent = "user" THEN "USERS_VALIDATED"
                                                 ELSE "SALES_VALIDATED"]
                 ELSE IF me.ent = "user" THEN [status EXCEPT ![me.run] = "FAILED"]
                 ELSE status
    /\ Step(p, [me EXCEPT
                  !.bad = Mismatch(p), !.expected = 0, !.found = 0,
                  !.ent = "sale",
                  !.pc = IF Imports(p) /\ Mismatch(p) THEN "fail"
                         ELSE IF me.ent = "sale" THEN "refs_open"
                         ELSE IF Imports(p) THEN "import_open"
                         ELSE "count"])
    /\ UNCHANGED <<world, items, budget, history>>

(***************************************************************************)
(* Phase 5: check_referential_integrity.                                   *)
(***************************************************************************)
LegacyRefs == {UserOf[s] : s \in {t \in Sales : legacy[t] # Absent}}

RefsOpen(p) ==
    /\ At(p, "refs_open")
    /\ Step(p, [proc[p] EXCEPT !.refs = LegacyRefs, !.missing = {}, !.pc = "refs_next"])
    /\ UNCHANGED <<world, store, budget, history>>

IsNextRef(p, u) == u \in proc[p].refs /\ \A w \in proc[p].refs : u <= w

RefsAfter(p, u) == proc[p].refs \ {u}

RefsGet(p) ==
    /\ At(p, "refs_next")
    /\ \E u \in Users :
         /\ IsNextRef(p, u)
         /\ Step(p, [proc[p] EXCEPT !.refs = RefsAfter(p, u),
                                    !.missing = IF svc[u] = Absent THEN @ \union {u} ELSE @])
    /\ UNCHANGED <<world, store, budget, history>>

RefsGetLost(p) ==
    /\ At(p, "refs_next")
    /\ Fault
    /\ \E u \in Users :
         /\ IsNextRef(p, u)
         /\ Step(p, [proc[p] EXCEPT !.refs = RefsAfter(p, u), !.missing = @ \union {u},
                                    !.bad = TRUE])
    /\ UNCHANGED <<world, store, churn, drift, history>>

(* The second query of the check: the sales whose user was not found. *)
Orphans(p) == {s \in Sales : legacy[s] # Absent /\ UserOf[s] \in proc[p].missing}

(* The scan, and for snapshot and resume the persist that follows it. *)
RefsEnd(p) ==
    LET failed == proc[p].bad \/ Orphans(p) # {} IN
    /\ At(p, "refs_next")
    /\ proc[p].refs = {}
    /\ status' = IF Imports(p) /\ ~ failed
                 THEN [status EXCEPT ![proc[p].run] = "VALIDATED"]
                 ELSE status
    /\ Step(p, [proc[p] EXCEPT !.bad = failed, !.missing = {},
                               !.pc = IF ~ Imports(p) THEN "report"
                                      ELSE IF failed THEN "fail"
                                      ELSE "complete"])
    /\ UNCHANGED <<world, items, budget, history>>

(***************************************************************************)
(* _finalize, and the two exception handlers of run_snapshot.              *)
(***************************************************************************)
Finalize(p) ==
    /\ proc[p].pc \in {"fail", "complete"}
    /\ status' = [status EXCEPT ![proc[p].run] =
                    IF At(p, "fail") THEN "FAILED" ELSE "COMPLETED"]
    /\ Exit(p)
    /\ UNCHANGED <<world, items, budget, history>>

(* cli validate: the verdict is printed and becomes the exit code. *)
Report(p) ==
    /\ At(p, "report")
    /\ Exit(p)
    /\ UNCHANGED <<world, store, budget, history>>

(* The legacy database or the state store raised, or an answer did not parse. *)
Abort(p) ==
    /\ Imports(p)
    /\ Fault
    /\ status' = [status EXCEPT ![proc[p].run] = "FAILED"]
    /\ Exit(p)
    /\ UNCHANGED <<world, items, churn, drift, history>>

SnapshotStart(p) ==
    \/ \E r \in Runs : StartSnapshot(p, r) \/ StartResume(p, r)
    \/ \E r \in Runs \union {NoRun} : StartValidate(p, r)

SnapshotStep(p) ==
    \/ ImportOpen(p) \/ ImportSkip(p) \/ ImportBegin(p) \/ PostAnswered(p)
    \/ ImportUpsert(p) \/ ImportEnd(p)
    \/ CountLegacy(p) \/ CheckOpen(p) \/ CheckRow(p) \/ CheckItem(p) \/ CheckMark(p)
    \/ CheckEnd(p)
    \/ RefsOpen(p) \/ RefsGet(p) \/ RefsEnd(p) \/ Finalize(p) \/ Report(p)

SnapshotTrouble(p) ==
    PostLost(p) \/ PostRefused(p) \/ CheckRowLost(p) \/ RefsGetLost(p) \/ Abort(p)
=============================================================================
