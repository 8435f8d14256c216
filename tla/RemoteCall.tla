----------------------------- MODULE RemoteCall -----------------------------
(***************************************************************************)
(* What one call of a service promises to the commands that make it, and   *)
(* what Services.tla and the steps Post*, Delete* and *Lost of Snapshot    *)
(* and Rollback take for granted: attempts without an answer may or may    *)
(* not have been run by the service, at most 1 + MaxRetries are made, and  *)
(* an answer, when there is one, is true.                                  *)
(***************************************************************************)
EXTENDS Naturals

CONSTANT MaxRetries

VARIABLES
    request,    \* what is asked: the method, and whether the payload is valid
    row,        \* the row in the service, compared with the payload
    late,       \* attempts the service may still run
    tries,      \* attempts that brought no answer
    answer      \* what the caller is told

vars == <<request, row, late, tries, answer>>

Row == {"absent", "same", "other"}
Request == [method : {"post", "get", "delete"}, valid : BOOLEAN]
Answer ==
    {"created", "unchanged", "conflict", "failed", "present", "absent", "deleted", "error"}

(* What running the request does to the row, and what the service then says. *)
Effect(q, r) ==
    CASE q.method = "post" /\ q.valid /\ r = "absent" -> "same"
      [] q.method = "delete" -> "absent"
      [] OTHER -> r

Truth(q, r) ==
    CASE q.method = "post" /\ ~ q.valid -> "failed"
      [] q.method = "post" /\ q.valid ->
             (CASE r = "absent" -> "created" [] r = "same" -> "unchanged"
                [] r = "other" -> "conflict")
      [] q.method = "get" -> IF r = "absent" THEN "absent" ELSE "present"
      [] q.method = "delete" -> IF r = "absent" THEN "absent" ELSE "deleted"

Init ==
    /\ request \in Request /\ row \in Row
    /\ late = 0 /\ tries = 0 /\ answer = "none"

Answered ==
    /\ answer = "none"
    /\ answer' = Truth(request, row) /\ row' = Effect(request, row)
    /\ UNCHANGED <<request, late, tries>>

(* It never arrived, or was run, or is still on its way. *)
Unanswered ==
    \/ UNCHANGED <<row, late>>
    \/ row' = Effect(request, row) /\ UNCHANGED late
    \/ late' = late + 1 /\ UNCHANGED row

Lost ==
    /\ answer = "none" /\ tries < MaxRetries
    /\ Unanswered
    /\ tries' = tries + 1
    /\ UNCHANGED <<request, answer>>

GivenUp ==
    /\ answer = "none" /\ tries = MaxRetries
    /\ Unanswered
    /\ answer' = "error"
    /\ UNCHANGED <<request, tries>>

(* The service will not run it, and says so in a way nobody retries. *)
Refused ==
    /\ answer = "none"
    /\ answer' = "error"
    /\ UNCHANGED <<request, row, late, tries>>

Arrive ==
    /\ late > 0 /\ late' = late - 1
    /\ row' = Effect(request, row)
    /\ UNCHANGED <<request, tries, answer>>

Next == Answered \/ Lost \/ GivenUp \/ Refused \/ Arrive

Spec == Init /\ [][Next]_vars
=============================================================================
