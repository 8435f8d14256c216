------------------------------ MODULE HttpRetry ------------------------------
(***************************************************************************)
(* http.py RetryingClient.request, the loop every call of the services     *)
(* goes through, with the status codes the clients make of the response.   *)
(* The service and the network answer as they like: a code of the          *)
(* protocol, a code nobody planned, or nothing in time.                    *)
(***************************************************************************)
EXTENDS Naturals, Sequences

CONSTANTS
    MaxRetries,     \* settings.http_max_retries
    BackoffBase,    \* settings.http_backoff_base_seconds, in tenths of a second
    Transport,      \* a timeout or a transport error: no response
    Codes           \* status codes met outside the protocol of the endpoints

ASSUME RetriesAssumption == MaxRetries \in Nat /\ BackoffBase \in Nat
ASSUME CodesAssumption == Codes \subseteq 100..599 /\ Transport \notin Nat

(* Mutant: a conflict is taken for a passing one. *)
RetryableConflicts == {409, 429, 500, 502, 503, 504}

RetryableStatus == {429, 500, 502, 503, 504}
Protocol == {200, 201, 204, 404, 409, 422}
Outcome == {Transport} \union Protocol \union Codes

(* The two outcomes the loop takes for passing. *)
Transient == {Transport} \union RetryableStatus

VARIABLES
    request, row, late,     \* as in RemoteCall
    pc,                     \* "attempt", "backoff" or "done"
    attempt,                \* the loop variable of request
    heard,                  \* the outcome of each attempt
    slept                   \* the pauses taken, in tenths of a second

vars == <<request, row, late, pc, attempt, heard, slept>>

(***************************************************************************)
(* The service: the import, read and delete endpoints.                     *)
(***************************************************************************)
Row == {"absent", "same", "other"}
Request == [method : {"post", "get", "delete"}, valid : BOOLEAN]

Effect(q, r) ==
    IF q.method = "delete" THEN "absent"
    ELSE IF q.method = "post" /\ q.valid /\ r = "absent" THEN "same"
    ELSE r

Code(q, r) ==
    IF q.method = "post"
    THEN IF ~ q.valid THEN 422
         ELSE IF r = "absent" THEN 201
         ELSE IF r = "same" THEN 200
         ELSE 409
    ELSE IF r = "absent" THEN 404
    ELSE IF q.method = "get" THEN 200
    ELSE 204

(***************************************************************************)
(* The loop.                                                               *)
(***************************************************************************)
Init ==
    /\ request \in Request /\ row \in Row /\ late = 0
    /\ pc = "attempt" /\ attempt = 0
    /\ heard = <<>> /\ slept = <<>>

(* Mutants: one retry too few; no bound. *)
RetriedTooFew(outcome, n) == outcome \in Transient /\ n < MaxRetries
RetriedUnbounded(outcome, n) == outcome \in Transient

(* Attempt n ended with this outcome: is there another? *)
Retried(outcome, n) == outcome \in Transient /\ n <= MaxRetries

(* Mutant: the loop variable does not move. *)
HearUncounted(outcome) ==
    /\ pc = "attempt" /\ attempt <= MaxRetries
    /\ heard' = Append(heard, outcome)
    /\ pc' = IF Retried(outcome, attempt) THEN "backoff" ELSE "done"
    /\ UNCHANGED <<request, attempt, slept>>

Hear(outcome) ==
    /\ pc = "attempt"
    /\ attempt <= MaxRetries
    /\ attempt' = attempt + 1
    /\ heard' = Append(heard, outcome)
    /\ pc' = IF Retried(outcome, attempt') THEN "backoff" ELSE "done"
    /\ UNCHANGED <<request, slept>>

(* The service runs the request and its response arrives. *)
Responded ==
    /\ Hear(Code(request, row))
    /\ row' = Effect(request, row)
    /\ UNCHANGED late

(* No response, or one that says nothing about the request. *)
Unresolved ==
    /\ \E outcome \in {Transport} \union (Codes \intersect RetryableStatus) : Hear(outcome)
    /\ \/ UNCHANGED <<row, late>>
       \/ row' = Effect(request, row) /\ UNCHANGED late
       \/ late' = late + 1 /\ UNCHANGED row

(* Turned down by somebody on the way, with a code that is not retried. *)
TurnedDown ==
    /\ \E outcome \in Codes \ (RetryableStatus \union Protocol) : Hear(outcome)
    /\ UNCHANGED <<row, late>>

(* Mutant: the pauses are not capped. *)
DelayUncapped(n) == BackoffBase * 2 ^ (n - 1)

(* min(backoff_base * 2 ** (attempt - 1), 2.0) *)
Delay(n) ==
    LET exponential == BackoffBase * 2 ^ (n - 1) IN
    IF exponential <= 20 THEN exponential ELSE 20

Backoff ==
    /\ pc = "backoff"
    /\ slept' = Append(slept, Delay(attempt))
    /\ pc' = "attempt"
    /\ UNCHANGED <<request, row, late, attempt, heard>>

(* An attempt that timed out is run after all. *)
Arrive ==
    /\ late > 0 /\ late' = late - 1
    /\ row' = Effect(request, row)
    /\ UNCHANGED <<request, pc, attempt, heard, slept>>

Next == Responded \/ Unresolved \/ TurnedDown \/ Backoff \/ Arrive

Spec == Init /\ [][Next]_vars

(* The loop runs on its own: an attempt ends, with a response or a timeout. *)
Loop == Responded \/ Unresolved \/ TurnedDown \/ Backoff
FairSpec == Spec /\ WF_vars(Loop)

(***************************************************************************)
(* The clients: what a response, or the HttpError, is to the caller.       *)
(***************************************************************************)
Last == heard[Len(heard)]

(* Mutants: a conflict is taken for an identical row; a row that cannot be read
   is taken for an absent one. *)
ImportedNoConflict(status) ==
    IF status = 201 THEN "created" ELSE IF status = 422 THEN "failed" ELSE "unchanged"
ReadOrAbsent(status) == IF status = 200 THEN "present" ELSE "absent"

(* import_user and import_sale, get_user and get_sale, delete_user and delete_sale *)
Imported(status) ==
    CASE status = 201 -> "created"
      [] status = 200 -> "unchanged"
      [] status = 409 -> "conflict"
      [] status = 422 -> "failed"
      [] OTHER -> "error"

Read(status) ==
    IF status = 200 THEN "present" ELSE IF status = 404 THEN "absent" ELSE "error"

Deleted(status) ==
    IF status \in {200, 204} THEN "deleted" ELSE IF status = 404 THEN "absent" ELSE "error"

Interpret(method, outcome) ==
    IF outcome = Transport THEN "error"
    ELSE IF method = "post" THEN Imported(outcome)
    ELSE IF method = "get" THEN Read(outcome)
    ELSE Deleted(outcome)

Told == IF pc = "done" THEN Interpret(request.method, Last) ELSE "none"

(***************************************************************************)
(* Properties.                                                             *)
(***************************************************************************)

(* What http.py:5 and README.md:324 say is retried. *)
DocumentedRetries == {Transport, 429} \union 500..599

(* Every variable has its type; the loop variable counts the attempts made.
   PausesBetween says what slept holds. *)
TypeOK ==
    /\ request \in Request /\ row \in Row /\ late \in Nat
    /\ pc \in {"attempt", "backoff", "done"}
    /\ heard \in Seq(Outcome) /\ attempt = Len(heard)

(* http.py:5-8 and README.md:326, "Not retried (deterministic): every other 4xx - notably
   409 and 422": an attempt that is followed by another, or by the pause before it, got
   no response, a 429 or a 5xx, whatever the loop takes for retryable. *)
FinalNotRetried ==
    \A i \in 1..Len(heard) :
        i < Len(heard) \/ pc = "backoff" => heard[i] \in DocumentedRetries

(* README.md:328, "Retries are bounded": never more than 1 + MaxRetries attempts,
   and a call that ends on a transient outcome, raised or returned, has made every
   one of them. *)
GivesUpLast ==
    /\ Len(heard) <= MaxRetries + 1
    /\ pc = "done" /\ Last \in Transient => Len(heard) = MaxRetries + 1

(* http.py:1, "small backoff" between attempts: one pause before every attempt but the
   first, none after the last, none shorter than the one before or above two seconds. *)
PausesBetween ==
    /\ Len(slept) = IF pc = "attempt" /\ heard # <<>> THEN Len(heard)
                    ELSE IF heard = <<>> THEN 0 ELSE Len(heard) - 1
    /\ \A i \in 1..Len(slept) : slept[i] <= 20 /\ (i > 1 => slept[i - 1] <= slept[i])

(* README.md:325, "retrying a POST /import is safe": whatever earlier attempts did
   unheard, or do later, what the caller is told is what the service holds: created and
   unchanged leave the row as it was sent, conflict leaves the other one, a DELETE
   that ended leaves none. *)
AnswersHold ==
    LET q == request IN
    /\ q.method = "post" =>
           /\ Told \in {"created", "unchanged"} => row = "same"
           /\ Told = "conflict" => row = "other"
           /\ Told = "failed" => ~ q.valid
    /\ q.method = "delete" /\ Told \in {"deleted", "absent"} => row = "absent"

(* The loop is an implementation of the one call the commands are modelled with. *)
Call ==
    INSTANCE RemoteCall
        WITH tries <- IF pc = "done" THEN Len(heard) - 1 ELSE Len(heard), answer <- Told
CallSpec == Call!Spec

(* Every call of a service ends, whatever the network does. *)
CallEnds == <>(pc = "done")
=============================================================================
