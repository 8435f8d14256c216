---------------------------- MODULE RunLifecycle ----------------------------
(***************************************************************************)
(* What migration_runs.status promises to whoever reads it, with one       *)
(* command at a time: every attempt at a run (snapshot, or a later resume) *)
(* records the milestones in order and from the first one, COMPLETED       *)
(* follows VALIDATED in the same attempt, a run that is COMPLETED or whose *)
(* rollback was begun and reported is never driven again, and a rollback   *)
(* touches a run only while nothing drives it.                             *)
(***************************************************************************)
EXTENDS Naturals

CONSTANTS Runs, NoRun

VARIABLES
    status,     \* the status each run shows
    driven,     \* the run an attempt is driving
    reached     \* the milestones this attempt has recorded

vars == <<status, driven, reached>>

(* models.py RunStatus, README.md "Run state machine". *)
Milestone ==
    [i \in 1..5 |-> CASE i = 1 -> "USERS_MIGRATED"
                      [] i = 2 -> "USERS_VALIDATED"
                      [] i = 3 -> "SALES_MIGRATED"
                      [] i = 4 -> "SALES_VALIDATED"
                      [] i = 5 -> "VALIDATED"]

Final == {"COMPLETED", "ROLLED_BACK", "ROLLBACK_FAILED"}

Init == status = [r \in Runs |-> "none"] /\ driven = NoRun /\ reached = 0

Create(r) ==
    /\ driven = NoRun /\ status[r] = "none"
    /\ status' = [status EXCEPT ![r] = "STARTED"]
    /\ driven' = r /\ reached' = 0

Resume(r) ==
    /\ driven = NoRun /\ status[r] \notin Final \union {"none"}
    /\ driven' = r /\ reached' = 0
    /\ UNCHANGED status

Reach ==
    /\ driven # NoRun /\ reached < 5
    /\ reached' = reached + 1
    /\ status' = [status EXCEPT ![driven] = Milestone[reached + 1]]
    /\ UNCHANGED driven

Finish(outcome) ==
    /\ driven # NoRun
    /\ outcome = "COMPLETED" => reached = 5
    /\ status' = [status EXCEPT ![driven] = outcome]
    /\ driven' = NoRun /\ reached' = 0

(* The process dies: the status keeps its last milestone. *)
Interrupt ==
    /\ driven # NoRun
    /\ driven' = NoRun /\ reached' = 0
    /\ UNCHANGED status

Undo(r, outcome) ==
    /\ driven = NoRun /\ status[r] \notin {"none", "ROLLED_BACK"}
    /\ status' = [status EXCEPT ![r] = outcome]
    /\ UNCHANGED <<driven, reached>>

Next ==
    \/ \E r \in Runs : Create(r) \/ Resume(r)
    \/ Reach \/ Interrupt
    \/ \E outcome \in {"COMPLETED", "FAILED"} : Finish(outcome)
    \/ \E r \in Runs, outcome \in {"ROLLED_BACK", "ROLLBACK_FAILED"} : Undo(r, outcome)

Spec == Init /\ [][Next]_vars
=============================================================================
