------------------------------ MODULE Rollback ------------------------------
(***************************************************************************)
(* rollback.py: the command rollback, with and without --dry-run. Sales    *)
(* are processed before users; every item of the run with action created   *)
(* is re-read, compared with the payload the run sent, deleted by id and   *)
(* re-read once more.                                                      *)
(***************************************************************************)
EXTENDS Services

Dry(p) == proc[p].cmd = "dry"

(* Mutant: a rollback that failed once may not be tried again. *)
RollbackAllowedOnce(r, confirm, dry) ==
    /\ status[r] \notin {"none", "ROLLED_BACK", "ROLLBACK_FAILED"}
    /\ dry \/ (AllowDestructive /\ confirm)

(* The gates of run_rollback. A refused command changes nothing. *)
RollbackAllowed(r, confirm, dry) ==
    /\ status[r] \notin {"none", "ROLLED_BACK"}
    /\ dry \/ (AllowDestructive /\ confirm)

StartRollback(p, r, confirm, dry) ==
    /\ (IF dry THEN "dry" ELSE "rollback") \in Commands
    /\ RollbackAllowed(r, confirm, dry)
    /\ Begin(p, IF dry THEN "dry" ELSE "rollback", r, "sale", "rb_open")
    /\ UNCHANGED <<world, store, budget, pre, origin>>

(* Mutants: rows found unchanged are included; rows a rollback gave up on are not. *)
ImportedItems(r) ==
    [k \in Keys |-> IF items[r][k].action \in {"created", "unchanged"}
                    THEN items[r][k].payload ELSE Absent]
UntriedItems(r) ==
    [k \in Keys |-> IF /\ items[r][k].action = "created"
                       /\ items[r][k].status \in {"imported", "validated"}
                    THEN items[r][k].payload ELSE Absent]

(* items_for_run(run_id, entity, action=created) *)
CreatedItems(r) ==
    [k \in Keys |-> IF items[r][k].action = "created" THEN items[r][k].payload ELSE Absent]

RollbackOpen(p) ==
    /\ At(p, "rb_open")
    /\ Step(p, [proc[p] EXCEPT !.cursor = Select(proc[p].ent, CreatedItems(proc[p].run)),
                               !.pc = "rb_next"])
    /\ UNCHANGED <<world, store, budget, history>>

(* Mutant: rows are deleted by id alone. *)
MatchesById(row, payload) == row # Absent

(* _matches_snapshot: the row is as the run sent it. *)
Matches(row, payload) == row = payload

(* What the first read of a row leads to: a status to record, or a DELETE. *)
Decision(p, k) ==
    IF svc[k] = Absent THEN "rolled_back"
    ELSE IF ~ Matches(svc[k], proc[p].cursor[k]) THEN "rollback_conflict"
    ELSE "none"

RollbackRead(p) ==
    /\ At(p, "rb_next")
    /\ \E k \in Keys :
         /\ IsNext(p, k)
         /\ LET me == proc[p]
                outcome == Decision(p, k) IN
            Step(p, [me EXCEPT !.cur = k, !.cursor = Drop(p, k), !.ans = outcome,
                               !.bad = @ \/ outcome = "rollback_conflict",
                               !.pc = IF outcome # "none" \/ Dry(p) THEN "rb_mark"
                                      ELSE "delete"])
    /\ UNCHANGED <<world, store, budget, history>>

RollbackReadLost(p) ==
    /\ At(p, "rb_next")
    /\ Fault
    /\ \E k \in Keys :
         /\ IsNext(p, k)
         /\ Step(p, [proc[p] EXCEPT !.cur = k, !.cursor = Drop(p, k), !.bad = TRUE,
                                    !.ans = "rollback_failed", !.pc = "rb_mark"])
    /\ UNCHANGED <<world, store, churn, drift, history>>

DeleteRequest(p) ==
    [op |-> "delete", run |-> proc[p].run, key |-> proc[p].cur, val |-> Absent]

(* 204, or 404 when the row is already gone: both go on to the second read. *)
DeleteAnswered(p) ==
    /\ At(p, "delete")
    /\ Answer(p, DeleteRequest(p))
    /\ Step(p, [proc[p] EXCEPT !.tries = 0, !.pc = "confirm"])
    /\ UNCHANGED <<legacy, store, churn, drift, pre>>

(* Mutant: the failure is recorded but not counted. *)
UncountedFailure(p) ==
    Step(p, [proc[p] EXCEPT !.ans = "rollback_failed", !.tries = 0, !.pc = "rb_mark"])

Unresolved(p) ==
    Step(p, [proc[p] EXCEPT !.ans = "rollback_failed", !.bad = TRUE, !.tries = 0,
                            !.pc = "rb_mark"])

DeleteLost(p) ==
    /\ At(p, "delete")
    /\ Lose(p, DeleteRequest(p))
    /\ IF Exhausted(p) THEN Unresolved(p)
       ELSE Step(p, [proc[p] EXCEPT !.tries = @ + 1])
    /\ UNCHANGED <<legacy, store, churn, drift, pre>>

(* The second read: the removal is validated. *)
RollbackConfirm(p) ==
    /\ At(p, "confirm")
    /\ IF svc[proc[p].cur] = Absent
       THEN Step(p, [proc[p] EXCEPT !.ans = "rolled_back", !.pc = "rb_mark"])
       ELSE Unresolved(p)
    /\ UNCHANGED <<world, store, budget, history>>

(* HttpError from delete_remote at once, or from the second read. *)
RemovalFailed(p) ==
    /\ proc[p].pc \in {"delete", "confirm"}
    /\ Fault
    /\ Unresolved(p)
    /\ UNCHANGED <<world, store, churn, drift, history>>

(* Mutant: a dry run records what it finds. *)
MarksAlways(p) == proc[p].ans # "none"

(* _set_status: nothing is written in a dry run. *)
Marks(p) == ~ Dry(p)

RollbackMark(p) ==
    LET me == proc[p] IN
    /\ At(p, "rb_mark")
    /\ items' = IF Marks(p)
                THEN [items EXCEPT ![me.run][me.cur].status = me.ans]
                ELSE items
    /\ Step(p, [me EXCEPT !.cur = NoKey, !.ans = "none", !.pc = "rb_next"])
    /\ UNCHANGED <<world, status, budget, history>>

(* Mutant: users follow whatever became of the sales. *)
UsersAnyway(p) == proc[p].ent = "sale"

(* The user phase is entered only when every sale is resolved. *)
UsersNext(p) == proc[p].ent = "sale" /\ ~ proc[p].bad

SalesDone(p) ==
    /\ At(p, "rb_next")
    /\ Pending(p) = {}
    /\ UsersNext(p)
    /\ Step(p, [proc[p] EXCEPT !.ent = "user", !.pc = "rb_open"])
    /\ UNCHANGED <<world, store, budget, history>>

RollbackEnd(p) ==
    /\ At(p, "rb_next")
    /\ Pending(p) = {}
    /\ ~ UsersNext(p)
    /\ status' = IF Dry(p) THEN status
                 ELSE [status EXCEPT ![proc[p].run] =
                         IF proc[p].bad THEN "ROLLBACK_FAILED" ELSE "ROLLED_BACK"]
    /\ Exit(p)
    /\ UNCHANGED <<world, items, budget, history>>

RollbackStart(p) ==
    \E r \in Runs, confirm \in BOOLEAN, dry \in BOOLEAN :
        StartRollback(p, r, confirm, dry)

RollbackStep(p) ==
    \/ RollbackOpen(p) \/ RollbackRead(p) \/ DeleteAnswered(p) \/ RollbackConfirm(p)
    \/ RollbackMark(p) \/ SalesDone(p) \/ RollbackEnd(p)

RollbackTrouble(p) == RollbackReadLost(p) \/ DeleteLost(p) \/ RemovalFailed(p)
=============================================================================
