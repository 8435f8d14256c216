------------------------------ MODULE Services ------------------------------
(***************************************************************************)
(* The User Service and the Sales Service as their clients in src/ see     *)
(* them, one HTTP attempt at a time, and everybody else who writes a row.  *)
(* http.py retries a request whose answer never came: the service may have *)
(* run it, may still run it later, or may never run it.                    *)
(***************************************************************************)
EXTENDS MigrationState

(* POST /internal/.../import: what the service answers, and keeps. *)
Reply(row, v) ==
    IF v \in Rejected THEN "failed"
    ELSE IF row = Absent THEN "created"
    ELSE IF row = v THEN "unchanged"
    ELSE "conflict"

Stored(row, v) == IF Reply(row, v) = "created" THEN v ELSE row

(* The client gives up after 1 + max_retries attempts without an answer. *)
Exhausted(p) == proc[p].tries >= MaxRetries

(* The service runs request q now. *)
Run(q) ==
    /\ svc' = [svc EXCEPT ![q.key] =
                 IF q.op = "post" THEN Stored(@, q.val) ELSE Absent]
    /\ origin' = [origin EXCEPT ![q.key] =
                    IF svc'[q.key] = svc[q.key] THEN @
                    ELSE IF q.op = "post" THEN q.run ELSE NoRun]

(* Rows were written: to every process but these, by somebody else. *)
Noticed(rows, by) ==
    touched' = [q \in Procs |-> IF q \in by THEN touched[q] ELSE touched[q] \union rows]
Written == {k \in Keys : svc'[k] # svc[k]}

(* An attempt that brings no answer: it never reached the service, the     *)
(* service ran it, or it is still on its way.                              *)
Lose(p, q) ==
    /\ Fault
    /\ \/ UNCHANGED <<svc, wire, origin, touched>>
       \/ Run(q) /\ Noticed(Written, {p}) /\ UNCHANGED wire
       \/ wire' = wire \union {q} /\ UNCHANGED <<svc, origin, touched>>

(* An attempt the service runs and answers. *)
Answer(p, q) == Run(q) /\ Noticed(Written, {p}) /\ UNCHANGED <<wire, faults>>

(***************************************************************************)
(* Everybody else.                                                         *)
(***************************************************************************)

(* A request the client gave up on is run after all. *)
Arrive(q) ==
    /\ q \in wire
    /\ wire' = wire \ {q}
    /\ Run(q) /\ Noticed(Written, {})
    /\ UNCHANGED <<legacy, store, proc, budget, pre>>

(* The monolith is live: it inserts, changes or deletes a row. *)
LegacyWrite(k, v) ==
    /\ churn < MaxChurn /\ churn' = churn + 1
    /\ v # legacy[k]
    /\ legacy' = [legacy EXCEPT ![k] = v]
    /\ Noticed({k}, {})
    /\ UNCHANGED <<svc, wire, store, proc, faults, drift, pre, origin>>

(* Another client of a service inserts, changes or deletes a row. *)
ServiceWrite(k, v) ==
    /\ drift < MaxDrift /\ drift' = drift + 1
    /\ v # svc[k]
    /\ svc' = [svc EXCEPT ![k] = v]
    /\ origin' = [origin EXCEPT ![k] = NoRun]
    /\ Noticed({k}, {})
    /\ UNCHANGED <<legacy, wire, store, proc, faults, churn, pre>>

(* The process is killed, or the machine goes down. *)
Crash(p) ==
    /\ ~ At(p, "idle")
    /\ Fault /\ Exit(p)
    /\ UNCHANGED <<world, store, churn, drift, history>>

Elsewhere ==
    \/ \E q \in wire : Arrive(q)
    \/ \E k \in Keys, v \in Contents : LegacyWrite(k, v) \/ ServiceWrite(k, v)
=============================================================================
