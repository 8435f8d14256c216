----------------------------- MODULE Preflight -----------------------------
(***************************************************************************)
(* snapshot --dry-run next to the commands it is meant to precede:         *)
(* run_dry pings and counts the legacy database, asks both services for    *)
(* their health and looks for sales without a user, in that order, one     *)
(* query or call at a time. It has no run and keeps nothing but its own    *)
(* report, so it is laid over MigrationTool as two variables more. What    *)
(* fails here changes nothing, so it takes nothing from MaxFaults.         *)
(***************************************************************************)
EXTENDS MigrationTool, Integers

VARIABLES
    flight,     \* per process: where its preflight stands and what it has noted
    cleared     \* history: the value of churn when a preflight last found no reason
                \* against the migration; NotCleared before

pvars == <<vars, flight, cleared>>

FlightStage ==
    {"grounded", "ping", "count_users", "count_sales", "user_health", "sales_health",
     "orphans"}
NextStage ==
    [ping |-> "count_users", count_users |-> "count_sales", count_sales |-> "user_health",
     user_health |-> "sales_health", sales_health |-> "orphans"]

Grounded == [stage |-> "grounded", users |-> 0, sales |-> 0, reasons |-> {}]
NotCleared == MaxChurn + 1

InFlight(p, stage) == flight[p].stage = stage
Flies(p, f) == flight' = [flight EXCEPT ![p] = f]
Onward(p) == [flight[p] EXCEPT !.stage = NextStage[@]]

(***************************************************************************)
(* run_dry.                                                                *)
(***************************************************************************)
StartPreflight(p) ==
    /\ "snapshot" \in Commands
    /\ At(p, "idle") /\ InFlight(p, "grounded")
    /\ Flies(p, [Grounded EXCEPT !.stage = "ping"])
    /\ UNCHANGED <<vars, cleared>>

Ping(p) ==
    /\ InFlight(p, "ping")
    /\ Flies(p, Onward(p))
    /\ UNCHANGED <<vars, cleared>>

(* Mutant: the rowcount of the cursor is taken for the answer of the query; it is -1
   for a SELECT. *)
CursorRowcount(ent) == -1

RowsOf(ent) == Cardinality({k \in Rows(ent) : legacy[k] # Absent})

CountRows(p) ==
    /\ \/ InFlight(p, "count_users") /\ Flies(p, [Onward(p) EXCEPT !.users = RowsOf("user")])
       \/ InFlight(p, "count_sales") /\ Flies(p, [Onward(p) EXCEPT !.sales = RowsOf("sale")])
    /\ UNCHANGED <<vars, cleared>>

(* health(): 200, or anything else - another status, or no response at all. *)
Healthy(p) ==
    /\ flight[p].stage \in {"user_health", "sales_health"}
    /\ Flies(p, Onward(p))
    /\ UNCHANGED <<vars, cleared>>

Unhealthy(p) ==
    /\ flight[p].stage \in {"user_health", "sales_health"}
    /\ Flies(p, [Onward(p) EXCEPT !.reasons = @ \union {"unreachable"}])
    /\ UNCHANGED <<vars, cleared>>

(* Mutant: the join looks at the rows of the User Service. *)
SalesWithoutCopy == {s \in Sales : legacy[s] # Absent /\ svc[UserOf[s]] = Absent}

(* legacy_orphan_sales: one join, at one moment. *)
LegacyOrphanSales == {s \in Sales : legacy[s] # Absent /\ legacy[UserOf[s]] = Absent}

(* The last query; COMPLETED and exit code 0 without reasons, FAILED and 1 with. *)
Verdict(p) ==
    LET reasons == flight[p].reasons
                     \union (IF LegacyOrphanSales # {} THEN {"orphans"} ELSE {}) IN
    /\ InFlight(p, "orphans")
    /\ Flies(p, Grounded)
    /\ cleared' = IF reasons = {} THEN churn ELSE cleared
    /\ UNCHANGED vars

(* An exception of the legacy database, or a kill. *)
FlightLost(p) ==
    /\ ~ InFlight(p, "grounded")
    /\ Flies(p, Grounded)
    /\ UNCHANGED <<vars, cleared>>

(***************************************************************************)
(* The layered system.                                                     *)
(***************************************************************************)
PInit ==
    /\ Init
    /\ flight = [p \in Procs |-> Grounded]
    /\ cleared = NotCleared

Fly(p) ==
    \/ StartPreflight(p) \/ Ping(p) \/ CountRows(p) \/ Healthy(p) \/ Unhealthy(p)
    \/ Verdict(p) \/ FlightLost(p)

Commanded(p) ==
    /\ InFlight(p, "grounded")
    /\ Start(p) \/ Advance(p) \/ Trouble(p)
    /\ UNCHANGED <<flight, cleared>>

PNext ==
    \/ \E p \in Procs : Fly(p) \/ Commanded(p)
    \/ Elsewhere /\ UNCHANGED <<flight, cleared>>

PSpec == PInit /\ [][PNext]_pvars

(* A preflight is at one of its steps, with the numbers and reasons of a report. *)
PreflightTypeOK ==
    /\ flight \in [Procs -> [stage : FlightStage, users : Nat, sales : Nat,
                             reasons : SUBSET {"unreachable", "orphans"}]]
    /\ cleared \in Nat

(* README.md:214-216, the preflight "flags basic problems": if a preflight found
   nothing and the monolith has written nothing since, a snapshot or resume that
   gets as far as the referential check, and whose requests there are answered,
   finds no orphan sale, but for users others wrote in the service since it began. *)
PreflightForetells ==
    cleared = churn =>
        \A p \in Procs :
            /\ Imports(p) /\ At(p, "refs_next") /\ proc[p].refs = {}
            /\ ~ proc[p].bad
            => \A s \in Orphans(p) : UserOf[s] \notin Settled(p)
=============================================================================
