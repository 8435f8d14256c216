---------------------------- MODULE LayersProofs ----------------------------
(***************************************************************************)
(* Reporting and Preflight observe the tool and never steer it: without    *)
(* what they add, their behaviours are behaviours of MigrationTool, so     *)
(* that what holds of the tool holds under both.                           *)
(*                                                                         *)
(* Then what they say: the types of both, what the preflight foretells,    *)
(* that the outcomes of an import and those of a rollback account for      *)
(* every row, that an exit with 0 is true, and that the report kept with a *)
(* COMPLETED run is.                                                       *)
(***************************************************************************)
EXTENDS OneCommandProofs, Reporting, Preflight, FiniteSetTheorems

(***************************************************************************)
(* Each step of a layer is a step of the tool, or leaves it alone.         *)
(***************************************************************************)
LEMMA RAdvanceIsNext ==
    ASSUME NEW p \in Procs, RAdvance(p)
    PROVE  Next
<1>1. CASE Quiet(p)
  BY <1>1 DEF Quiet, Next, Advance, Trouble, SnapshotStep, SnapshotTrouble, RollbackStep
<1>2. CASE SkipCounted(p) \/ AnswerCounted(p) \/ ImportPersisted(p) \/ RowCompared(p)
           \/ CheckCounted(p) \/ RefsCounted(p) \/ Finalized(p) \/ ValidateEnded(p)
  BY <1>2 DEF SkipCounted, AnswerCounted, ImportPersisted, RowCompared, CheckCounted,
              RefsCounted, Finalized, ValidateEnded, Next, Advance, SnapshotStep
<1>3. CASE FailureCounted(p)
  BY <1>3 DEF FailureCounted, Next, Trouble, SnapshotTrouble
<1>4. CASE RollbackReadRecorded(p) \/ RemovalRecorded(p) \/ RollbackEnded(p)
  BY <1>4 DEF RollbackReadRecorded, RemovalRecorded, RollbackEnded, Next, Advance,
              Trouble, RollbackStep, RollbackTrouble
<1>5. QED
  BY <1>1, <1>2, <1>3, <1>4 DEF RAdvance

LEMMA RNextIsNext == RNext => [Next]_vars
<1>1. SUFFICES ASSUME RNext PROVE [Next]_vars
  OBVIOUS
<1>2. ASSUME NEW p \in Procs,
             Started(p) \/ TurnedAway(p) \/ CountFound(p) \/ Aborted(p) \/ Killed(p)
      PROVE  [Next]_vars
  BY <1>2 DEF Started, TurnedAway, CountFound, Aborted, Killed, Next, Trouble,
              SnapshotTrouble
<1>3. CASE Elsewhere /\ UNCHANGED <<report, record, exit>>
  BY <1>3 DEF Next
<1>4. QED
  BY <1>1, <1>2, <1>3, RAdvanceIsNext DEF RNext

(* migration.py and rollback.py: what is counted, stored and returned decides
   nothing of what is done to the rows. *)
THEOREM ReportingObserves == RSpec => Spec
<1>1. RInit => Init
  BY DEF RInit
<1>2. [RNext]_rvars => [Next]_vars
  BY RNextIsNext DEF rvars
<1>3. QED
  BY <1>1, <1>2, PTL DEF RSpec, Spec

LEMMA PNextIsNext == PNext => [Next]_vars
<1>1. SUFFICES ASSUME PNext PROVE [Next]_vars
  OBVIOUS
<1>2. ASSUME NEW p \in Procs, Commanded(p) PROVE [Next]_vars
  BY <1>2 DEF Commanded, Next
<1>3. ASSUME NEW p \in Procs, Fly(p) PROVE UNCHANGED vars
  BY <1>3 DEF Fly, StartPreflight, Ping, CountRows, Healthy, Unhealthy, Verdict,
              FlightLost
<1>4. QED
  BY <1>1, <1>2, <1>3 DEF PNext, Next

(* migration.py:66-103: a preflight touches neither the rows, nor the runs, nor
   another command. *)
THEOREM PreflightObserves == PSpec => Spec
<1>1. PInit => Init
  BY DEF PInit
<1>2. [PNext]_pvars => [Next]_vars
  BY PNextIsNext DEF pvars
<1>3. QED
  BY <1>1, <1>2, PTL DEF PSpec, Spec

(***************************************************************************)
(* The types of a preflight.                                               *)
(***************************************************************************)
Flight ==
    [stage : FlightStage, users : Nat, sales : Nat,
     reasons : SUBSET {"unreachable", "orphans"}]

LEMMA RowsOfIsNat == ASSUME NEW ent \in EntityType PROVE RowsOf(ent) \in Nat
<1>1. IsFiniteSet(Rows(ent))
  BY FiniteAssumption DEF Rows, EntityType
<1>2. IsFiniteSet({k \in Rows(ent) : legacy[k] # Absent})
  BY <1>1, FS_Subset
<1>3. QED
  BY <1>2, FS_CardinalityType DEF RowsOf

LEMMA PreflightInit == PInit => PreflightTypeOK
<1>1. SUFFICES ASSUME PInit PROVE PreflightTypeOK
  OBVIOUS
<1>2. Grounded \in Flight
  BY DEF Grounded, Flight, FlightStage
<1>3. flight \in [Procs -> Flight] /\ cleared \in Nat
  BY <1>1, <1>2, BoundsAssumption DEF PInit, NotCleared
<1>4. QED
  BY <1>3 DEF PreflightTypeOK, Flight

(* What a step of one preflight does to all of them. *)
LEMMA FliesLemma ==
    ASSUME flight \in [Procs -> Flight], NEW p \in Procs, NEW f \in Flight, Flies(p, f)
    PROVE  /\ flight' \in [Procs -> Flight]
           /\ flight'[p] = f
           /\ \A q \in Procs : q # p => flight'[q] = flight[q]
BY DEF Flies

LEMMA OnwardLemma ==
    ASSUME NEW p \in Procs, flight[p] \in Flight, flight[p].stage \in DOMAIN NextStage
    PROVE  Onward(p) \in Flight
<1>1. NextStage[flight[p].stage] \in FlightStage
  BY DEF NextStage, FlightStage
<1>2. QED
  BY <1>1 DEF Onward, Flight

LEMMA CountRowsFlies ==
    ASSUME NEW p \in Procs, CountRows(p), flight \in [Procs -> Flight]
    PROVE  \E f \in Flight : Flies(p, f)
<1>1. flight[p] \in Flight
  OBVIOUS
<1>2. CASE InFlight(p, "count_users") /\ Flies(p, [Onward(p) EXCEPT !.users = RowsOf("user")])
  <2>1. Onward(p) \in Flight
    BY <1>1, <1>2, OnwardLemma DEF InFlight, NextStage
  <2>2. RowsOf("user") \in Nat
    BY RowsOfIsNat DEF EntityType
  <2>3. [Onward(p) EXCEPT !.users = RowsOf("user")] \in Flight
    BY <2>1, <2>2 DEF Flight
  <2>4. QED
    BY <1>2, <2>3
<1>3. CASE InFlight(p, "count_sales") /\ Flies(p, [Onward(p) EXCEPT !.sales = RowsOf("sale")])
  <2>1. Onward(p) \in Flight
    BY <1>1, <1>3, OnwardLemma DEF InFlight, NextStage
  <2>2. RowsOf("sale") \in Nat
    BY RowsOfIsNat DEF EntityType
  <2>3. [Onward(p) EXCEPT !.sales = RowsOf("sale")] \in Flight
    BY <2>1, <2>2 DEF Flight
  <2>4. QED
    BY <1>3, <2>3
<1>4. QED
  BY <1>2, <1>3 DEF CountRows

LEMMA HealthFlies ==
    ASSUME NEW p \in Procs, Healthy(p) \/ Unhealthy(p), flight \in [Procs -> Flight]
    PROVE  \E f \in Flight : Flies(p, f)
<1>1. flight[p] \in Flight /\ flight[p].stage \in DOMAIN NextStage
  BY DEF Healthy, Unhealthy, NextStage
<1>2. Onward(p) \in Flight
  BY <1>1, OnwardLemma
<1>3. [Onward(p) EXCEPT !.reasons = @ \union {"unreachable"}] \in Flight
  BY <1>2 DEF Flight
<1>4. QED
  BY <1>2, <1>3 DEF Healthy, Unhealthy

LEMMA FlyTypes ==
    ASSUME TypeOK, PreflightTypeOK, NEW p \in Procs, Fly(p)
    PROVE  PreflightTypeOK'
<1>1. flight \in [Procs -> Flight] /\ flight[p] \in Flight
  BY DEF PreflightTypeOK, Flight
<1>2. Grounded \in Flight /\ [Grounded EXCEPT !.stage = "ping"] \in Flight
  BY DEF Grounded, Flight, FlightStage
<1>3. \E f \in Flight : Flies(p, f)
  <2>1. CASE StartPreflight(p) \/ Verdict(p) \/ FlightLost(p)
    BY <1>2, <2>1 DEF StartPreflight, Verdict, FlightLost
  <2>2. CASE Ping(p)
    BY <1>1, <2>2, OnwardLemma DEF Ping, InFlight, NextStage
  <2>3. CASE CountRows(p) \/ Healthy(p) \/ Unhealthy(p)
    BY <1>1, <2>3, CountRowsFlies, HealthFlies
  <2>4. QED
    BY <2>1, <2>2, <2>3 DEF Fly
<1>4. cleared' \in Nat
  <2>1. churn \in Nat /\ cleared \in Nat
    BY DEF TypeOK, PreflightTypeOK
  <2>2. QED
    BY <2>1 DEF Fly, StartPreflight, Ping, CountRows, Healthy, Unhealthy, Verdict,
                FlightLost
<1>5. flight' \in [Procs -> Flight]
  BY <1>1, <1>3, FliesLemma
<1>6. QED
  BY <1>4, <1>5 DEF PreflightTypeOK, Flight

LEMMA PreflightStep == TypeOK /\ PreflightTypeOK /\ [PNext]_pvars => PreflightTypeOK'
<1>1. SUFFICES ASSUME TypeOK, PreflightTypeOK, [PNext]_pvars PROVE PreflightTypeOK'
  OBVIOUS
<1>2. ASSUME NEW p \in Procs, Fly(p) PROVE PreflightTypeOK'
  BY <1>1, <1>2, FlyTypes
<1>3. CASE UNCHANGED <<flight, cleared>>
  BY <1>1, <1>3 DEF PreflightTypeOK
<1>4. QED
  BY <1>1, <1>2, <1>3 DEF PNext, Commanded, pvars

(* migration.py:66-103: a preflight is at one of its steps, and what it reports are two
   numbers of rows and the reasons it knows, whatever it meets and whoever runs besides. *)
THEOREM PreflightTypes == PSpec => []PreflightTypeOK
<1>1. PSpec => []TypeOK
  BY PreflightObserves, TypeCorrect
<1>2. QED
  BY <1>1, PreflightInit, PreflightStep, PTL DEF PSpec

(***************************************************************************)
(* What a preflight foretells.                                             *)
(***************************************************************************)

(* The steps after which a process looks up users. *)
LEMMA WhoResolves ==
    ASSUME TypeOK, NEW p \in Procs, Start(p) \/ Advance(p) \/ Trouble(p),
           proc'[p].pc = "refs_next"
    PROVE  RefsOpen(p) \/ RefsGet(p) \/ RefsGetLost(p)
<1>1. ~ Start(p)
  BY StartDoes, BeginDoes
<1>2. ~ (\/ ImportOpen(p) \/ ImportSkip(p) \/ ImportBegin(p) \/ PostAnswered(p) \/ PostLost(p)
         \/ PostRefused(p) \/ ImportUpsert(p) \/ ImportEnd(p))
  BY ImportStepDoes, ImportEndDoes
<1>3. ~ (\/ CountLegacy(p) \/ CheckOpen(p) \/ CheckRow(p) \/ CheckRowLost(p)
         \/ CheckItem(p) \/ CheckMark(p)
         \/ CheckEnd(p) \/ RefsEnd(p))
  BY CountLegacyDoes, CheckOpenDoes, CheckRowDoes, CheckRowLostDoes, CheckItemDoes, CheckMarkDoes,
     CheckEndDoes, RefsEndDoes
<1>4. ~ Stops(p)
  BY EndDoes DEF Stops, IdleProcess
<1>5. ~ (RollbackOpen(p) \/ RollbackRead(p) \/ RollbackReadLost(p) \/ RollbackMark(p))
  BY RollbackOpenDoes, RollbackReadDoes, RollbackReadLostDoes, RollbackMarkDoes
<1>6. ~ (\/ SalesDone(p) \/ DeleteAnswered(p) \/ DeleteLost(p) \/ RollbackConfirm(p)
         \/ RemovalFailed(p))
  BY SalesDoneDoes, DeleteAnsweredDoes, DeleteLostDoes, RollbackConfirmDoes, RemovalFailedDoes
<1> QED
  BY <1>1, <1>2, <1>3, <1>4, <1>5, <1>6
     DEF Stops, Advance, Trouble, SnapshotStep, SnapshotTrouble, RollbackStep, RollbackTrouble

(* A user the check did not find, and nobody else wrote, is not there. *)
MissingAbsent(p) ==
    At(p, "refs_next") /\ ~ proc[p].bad =>
        \A u \in proc[p].missing \intersect Settled(p) : svc[u] = Absent
MissingInv == \A p \in Procs : MissingAbsent(p)

LEMMA MissingOwn ==
    ASSUME TypeOK, NEW p \in Procs, MissingAbsent(p), Start(p) \/ Advance(p) \/ Trouble(p)
    PROVE  MissingAbsent(p)'
<1>1. CASE RefsOpen(p)
  BY <1>1, RefsOpenDoes DEF MissingAbsent
<1>2. CASE RefsGet(p)
  <2>1. UNCHANGED svc /\ Settled(p)' = Settled(p)
    BY <1>2, RefsGetDoes DEF Silent, SameRows, Settled
  <2>2. proc'[p].bad = proc[p].bad /\ At(p, "refs_next")
    BY <1>2, RefsGetDoes
  <2>3. \A u \in proc'[p].missing : u \in proc[p].missing \/ svc[u] = Absent
    BY <1>2, RefsGetDoes
  <2> QED
    BY <2>1, <2>2, <2>3 DEF MissingAbsent
<1>3. CASE RefsGetLost(p)
  BY <1>3, RefsGetLostDoes DEF MissingAbsent
<1>4. CASE ~ (RefsOpen(p) \/ RefsGet(p) \/ RefsGetLost(p))
  BY <1>4, WhoResolves DEF MissingAbsent, At
<1> QED
  BY <1>1, <1>2, <1>3, <1>4

LEMMA MissingKept ==
    ASSUME NEW p \in Procs, MissingAbsent(p), proc'[p] = proc[p], Undisturbed(p)
    PROVE  MissingAbsent(p)'
BY DEF MissingAbsent, Undisturbed, At

LEMMA MissingStep == ASSUME TypeOK, MissingInv, [Next]_vars PROVE MissingInv'
<1>1. CASE \E q \in Procs : Start(q) \/ Advance(q) \/ Trouble(q)
  BY <1>1, OthersKeep, MissingOwn, MissingKept DEF MissingInv
<1>2. CASE Elsewhere
  BY <1>2, ElsewhereKeeps, MissingKept DEF MissingInv
<1>3. CASE UNCHANGED vars
  BY <1>3, QuietDisturbs, MissingKept DEF MissingInv, vars, world, history
<1> QED
  BY <1>1, <1>2, <1>3 DEF Next

LEMMA MissingAlways == Spec => []MissingInv
<1>1. Init => MissingInv
  BY DEF Init, IdleProcess, MissingInv, MissingAbsent, At
<1> QED
  BY <1>1, MissingStep, TypeCorrect, PTL DEF Spec

(* As long as churn has its value, a preflight that found nothing was right. *)
Clearance ==
    /\ churn <= MaxChurn
    /\ cleared = NotCleared \/ cleared <= churn
    /\ cleared = churn => LegacyOrphanSales = {}

LEMMA WhoChurns ==
    ASSUME TypeOK, [Next]_vars
    PROVE  \/ UNCHANGED <<churn, legacy>>
           \/ churn < MaxChurn /\ churn' = churn + 1
<1>1. ASSUME NEW p \in Procs, Start(p) PROVE UNCHANGED <<churn, legacy>>
  BY <1>1, StartDoes DEF SameRows
<1>2. ASSUME NEW p \in Procs, Advance(p) \/ Trouble(p) PROVE UNCHANGED <<churn, legacy>>
  <2>1. CASE SnapshotStep(p)
    BY <2>1 DEF SnapshotStep, ImportOpen, ImportSkip, ImportBegin, PostAnswered, ImportUpsert,
       ImportEnd, CountLegacy, CheckOpen, CheckRow, CheckItem, CheckMark, CheckEnd, RefsOpen,
       RefsGet,
       RefsEnd, Finalize, Report, world, budget
  <2>2. CASE SnapshotTrouble(p)
    BY <2>2 DEF SnapshotTrouble, PostLost, PostRefused, CheckRowLost, RefsGetLost, Abort, world
  <2>3. CASE RollbackStep(p) \/ RollbackTrouble(p) \/ Crash(p)
    BY <2>3 DEF RollbackStep, RollbackTrouble, RollbackOpen, RollbackRead, DeleteAnswered,
       RollbackConfirm, RollbackMark, SalesDone, RollbackEnd, RollbackReadLost, DeleteLost,
       RemovalFailed, Crash, world, budget
  <2> QED
    BY <1>2, <2>1, <2>2, <2>3 DEF Advance, Trouble
<1>3. CASE Elsewhere
  BY <1>3 DEF Elsewhere, Arrive, LegacyWrite, ServiceWrite, budget
<1>4. CASE UNCHANGED vars
  BY <1>4 DEF vars, world, budget
<1> QED
  BY <1>1, <1>2, <1>3, <1>4 DEF Next

LEMMA ClearanceStep ==
    ASSUME TypeOK, PreflightTypeOK, Clearance, [PNext]_pvars
    PROVE  Clearance'
<1>1. churn \in Nat /\ MaxChurn \in Nat /\ cleared \in Nat
  BY BoundsAssumption DEF TypeOK, PreflightTypeOK
<1>2. UNCHANGED <<churn, legacy>> \/ (churn < MaxChurn /\ churn' = churn + 1)
  BY WhoChurns, PNextIsNext DEF pvars
<1>3. CASE cleared' = cleared
  BY <1>1, <1>2, <1>3 DEF Clearance, NotCleared, LegacyOrphanSales
<1>4. CASE \E p \in Procs : Verdict(p)
  <2>1. UNCHANGED <<churn, legacy>>
    BY <1>4 DEF Verdict, vars, world, budget
  <2>2. cleared' = cleared \/ (cleared' = churn /\ LegacyOrphanSales = {})
    BY <1>4 DEF Verdict
  <2> QED
    BY <1>1, <1>3, <2>1, <2>2 DEF Clearance, LegacyOrphanSales
<1>5. cleared' = cleared \/ \E p \in Procs : Verdict(p)
  BY DEF PNext, Fly, StartPreflight, Ping, CountRows, Healthy, Unhealthy, FlightLost,
         Commanded, pvars
<1> QED
  BY <1>3, <1>4, <1>5

LEMMA ClearanceForetells ==
    ASSUME TypeOK, VerdictInv, MissingInv, Clearance
    PROVE  PreflightForetells
<1>1. SUFFICES ASSUME cleared = churn, NEW p \in Procs, At(p, "refs_next"), ~ proc[p].bad,
                      NEW s \in Orphans(p), UserOf[s] \in Settled(p)
               PROVE  FALSE
  BY DEF PreflightForetells
<1>2. s \in Sales /\ legacy[s] # Absent /\ UserOf[s] \in proc[p].missing
  BY <1>1 DEF Orphans
<1>3. legacy[UserOf[s]] # Absent
  BY <1>1, <1>2 DEF Clearance, LegacyOrphanSales
<1>4. svc[UserOf[s]] = Absent
  BY <1>1, <1>2 DEF MissingInv, MissingAbsent
<1>5. Checked(p) = Keys
  BY <1>1 DEF At, Checked, Early, Comparing, Compared
<1>6. Copied(UserOf[s])
  BY <1>1, <1>5 DEF VerdictInv, VerdictOK, CheckedAgree, Settled
<1> QED
  BY <1>3, <1>4, <1>6 DEF Copied

(* migration.py:66-103: if a preflight found nothing and the monolith wrote nothing since,
   no snapshot or resume finds a sale without its user, but for users others wrote in the
   service: for any rows, runs, processes and bounds. *)
THEOREM PreflightForetellsHolds == PSpec => []PreflightForetells
<1>1. PInit => Clearance
  BY BoundsAssumption DEF PInit, Init, Clearance, NotCleared
<1>2. PSpec => [](TypeOK /\ VerdictInv /\ MissingInv)
  BY PreflightObserves, VerdictAlways, MissingAlways, PTL
<1> QED
  BY <1>1, <1>2, PreflightTypes, ClearanceStep, ClearanceForetells, PTL DEF PSpec

(***************************************************************************)
(* The types of reports.                                                   *)
(***************************************************************************)
ProcessReport ==
    [stats : MigrationStats, divergences : SUBSET Keys, differing : SUBSET Keys,
     undone : [RollbackOutcome -> Nat],
     resumed : BOOLEAN, counted : SUBSET EntityType]
RunRecord ==
    [stats : MigrationStats, divergences : SUBSET Keys, error : BOOLEAN, finished : BOOLEAN]

LEMMA NewReportTypes ==
    /\ NoStats \in MigrationStats /\ NoRecord \in RunRecord
    /\ \A b \in BOOLEAN : NewReport(b) \in ProcessReport
<1>1. NoTally \in Tally
  BY DEF NoTally, Tally
<1>2. NoStats \in MigrationStats
  BY <1>1 DEF NoStats, MigrationStats
<1> QED
  BY <1>2 DEF NoRecord, RunRecord, NewReport, ProcessReport, RollbackOutcome

(* One more row with this action. *)
OneMore(tally, action) == [tally EXCEPT ![action] = @ + 1]

LEMMA OneMoreTypes ==
    ASSUME NEW tally \in Tally, NEW action \in ImportAction
    PROVE  OneMore(tally, action) \in Tally
<1>1. CASE action = "created"
  BY <1>1 DEF OneMore, Tally
<1>2. CASE action = "unchanged"
  BY <1>2 DEF OneMore, Tally
<1>3. CASE action = "conflict"
  BY <1>3 DEF OneMore, Tally
<1>4. CASE action = "failed"
  BY <1>4 DEF OneMore, Tally
<1> QED
  BY <1>1, <1>2, <1>3, <1>4 DEF ImportAction

LEMMA TalliedDoes ==
    ASSUME NEW rep \in ProcessReport, NEW ent \in EntityType, NEW action \in ImportAction
    PROVE  LET new == Tallied(rep, ent, action) IN
           /\ new \in ProcessReport
           /\ new.stats.tally[ent] = OneMore(rep.stats.tally[ent], action)
           /\ \A e \in EntityType : e # ent => new.stats.tally[e] = rep.stats.tally[e]
           /\ new.stats.http_failures = rep.stats.http_failures
           /\ new.divergences = rep.divergences /\ new.differing = rep.differing
           /\ new.undone = rep.undone
           /\ new.resumed = rep.resumed /\ new.counted = rep.counted
<1>1. rep.stats \in MigrationStats /\ rep.stats.tally \in [EntityType -> Tally]
  BY DEF ProcessReport, MigrationStats
<1> DEFINE more == OneMore(rep.stats.tally[ent], action)
           t == [rep.stats.tally EXCEPT ![ent] = more]
<1>2. more \in Tally
  BY <1>1, OneMoreTypes
<1>3. /\ t \in [EntityType -> Tally] /\ t[ent] = more
      /\ \A e \in EntityType : e # ent => t[e] = rep.stats.tally[e]
  BY <1>1, <1>2
<1>4. Tallied(rep, ent, action) = [rep EXCEPT !.stats = [rep.stats EXCEPT !.tally = t]]
  BY <1>1 DEF Tallied, OneMore, ProcessReport, MigrationStats
<1> HIDE DEF more, t
<1> QED
  BY <1>1, <1>3, <1>4 DEF ProcessReport, MigrationStats, more

LEMMA RecordedDoes ==
    ASSUME NEW rep \in ProcessReport, NEW outcome \in RollbackOutcome
    PROVE  LET new == Recorded(rep, outcome) IN
           /\ new \in ProcessReport
           /\ new.undone = [rep.undone EXCEPT ![outcome] = @ + 1]
           /\ new.stats = rep.stats
           /\ new.divergences = rep.divergences /\ new.differing = rep.differing
           /\ new.resumed = rep.resumed /\ new.counted = rep.counted
<1>1. rep.undone \in [RollbackOutcome -> Nat]
  BY DEF ProcessReport
<1> DEFINE u == [rep.undone EXCEPT ![outcome] = @ + 1]
<1>2. u \in [RollbackOutcome -> Nat]
  BY <1>1
<1>3. Recorded(rep, outcome) = [rep EXCEPT !.undone = u]
  BY <1>1 DEF Recorded, ProcessReport
<1> HIDE DEF u
<1> QED
  BY <1>2, <1>3 DEF ProcessReport, u

(* A tally and the set of tables counted are replaced. *)
WithTally(rep, ent, tally, counted) ==
    [rep EXCEPT
        !.stats = [rep.stats EXCEPT !.tally = [rep.stats.tally EXCEPT ![ent] = tally]],
        !.counted = counted]

LEMMA WithTallyDoes ==
    ASSUME NEW rep \in ProcessReport, NEW ent \in EntityType, NEW tally \in Tally,
           NEW counted \in SUBSET EntityType
    PROVE  LET new == WithTally(rep, ent, tally, counted) IN
           /\ new \in ProcessReport
           /\ new.stats.tally[ent] = tally
           /\ \A e \in EntityType : e # ent => new.stats.tally[e] = rep.stats.tally[e]
           /\ new.stats.http_failures = rep.stats.http_failures
           /\ new.stats.orphan_sales = rep.stats.orphan_sales
           /\ new.stats.checked_sales_refs = rep.stats.checked_sales_refs
           /\ new.divergences = rep.divergences /\ new.differing = rep.differing
           /\ new.undone = rep.undone
           /\ new.resumed = rep.resumed /\ new.counted = counted
<1>1. rep.stats \in MigrationStats /\ rep.stats.tally \in [EntityType -> Tally]
  BY DEF ProcessReport, MigrationStats
<1> DEFINE t == [rep.stats.tally EXCEPT ![ent] = tally]
<1>2. /\ t \in [EntityType -> Tally] /\ t[ent] = tally
      /\ \A e \in EntityType : e # ent => t[e] = rep.stats.tally[e]
  BY <1>1
<1>3. WithTally(rep, ent, tally, counted)
          = [rep EXCEPT !.stats = [rep.stats EXCEPT !.tally = t], !.counted = counted]
  BY DEF WithTally
<1> HIDE DEF t
<1>4. [rep.stats EXCEPT !.tally = t] \in MigrationStats
  BY <1>1, <1>2 DEF MigrationStats
<1> QED
  BY <1>1, <1>2, <1>3, <1>4 DEF ProcessReport, MigrationStats

LEMMA FoundTypes ==
    ASSUME NEW rep \in ProcessReport, NEW ent \in EntityType, NEW n \in Nat
    PROVE  LET tally == [rep.stats.tally[ent] EXCEPT !.found = n] IN
           /\ tally \in Tally
           /\ [rep EXCEPT !.stats.tally[ent].found = n, !.counted = @ \union {ent}]
                  = WithTally(rep, ent, tally, rep.counted \union {ent})
<1>1. rep.stats \in MigrationStats /\ rep.stats.tally \in [EntityType -> Tally]
  BY DEF ProcessReport, MigrationStats
<1>2. [rep.stats.tally[ent] EXCEPT !.found = n] \in Tally
  BY <1>1 DEF Tally
<1> QED
  BY <1>1, <1>2 DEF WithTally, ProcessReport, MigrationStats, Tally

(* The rows of a phase become divergences of the report. *)
Published(rep) ==
    [rep EXCEPT !.divergences = rep.divergences \union rep.differing, !.differing = {}]

LEMMA PublishedDoes ==
    ASSUME NEW rep \in ProcessReport
    PROVE  LET new == Published(rep) IN
           /\ new \in ProcessReport /\ new.stats = rep.stats /\ new.counted = rep.counted
           /\ new.divergences = rep.divergences \union rep.differing /\ new.differing = {}
<1>1. rep.divergences \union rep.differing \in SUBSET Keys
  BY DEF ProcessReport
<1> QED
  BY <1>1 DEF Published, ProcessReport

LEMMA ValidatedTypes ==
    ASSUME NEW rep \in ProcessReport, NEW ent \in EntityType, NEW n \in Int
    PROVE  LET tally == [rep.stats.tally[ent] EXCEPT !.validated = n] IN
           /\ tally \in Tally
           /\ [rep EXCEPT !.stats.tally[ent].validated = n,
                          !.divergences = @ \union rep.differing, !.differing = {}]
                  = Published(WithTally(rep, ent, tally, rep.counted))
<1>1. rep.stats \in MigrationStats /\ rep.stats.tally \in [EntityType -> Tally]
  BY DEF ProcessReport, MigrationStats
<1>2. [rep.stats.tally[ent] EXCEPT !.validated = n] \in Tally
  BY <1>1 DEF Tally
<1> QED
  BY <1>1, <1>2 DEF Published, WithTally, ProcessReport, MigrationStats, Tally

(* One field of the statistics is replaced. *)
LEMMA StatsTypes ==
    ASSUME NEW rep \in ProcessReport, NEW n \in Nat, NEW m \in Nat
    PROVE  /\ [rep EXCEPT !.stats.http_failures = n] \in ProcessReport
           /\ [rep EXCEPT !.stats.checked_sales_refs = n, !.stats.orphan_sales = m]
                  \in ProcessReport
BY DEF ProcessReport, MigrationStats

(* Sets of rows are counted. *)
LEMMA CountsAreNat ==
    /\ IsFiniteSet(Keys)
    /\ \A S \in SUBSET Keys : IsFiniteSet(S) /\ Cardinality(S) \in Nat
<1>1. IsFiniteSet(Keys)
  BY FiniteAssumption, FS_Union DEF Keys
<1> QED
  BY <1>1, FS_Subset, FS_CardinalityType

(* What of a tally only the import phases change. *)
SameCounts(new, old) ==
    /\ new.counted = old.counted
    /\ \A e \in EntityType : /\ Outcomes(new.stats.tally[e]) = Outcomes(old.stats.tally[e])
                             /\ new.stats.tally[e].found = old.stats.tally[e].found
(* One more row of ent has its outcome. *)
OneMoreRow(new, old, ent) ==
    /\ new.counted = old.counted
    /\ \A e \in EntityType :
         /\ Outcomes(new.stats.tally[e])
                = Outcomes(old.stats.tally[e]) + (IF e = ent THEN 1 ELSE 0)
         /\ new.stats.tally[e].found = old.stats.tally[e].found

LEMMA ReportFields ==
    ASSUME NEW rep \in ProcessReport
    PROVE  /\ rep.stats \in MigrationStats /\ rep.stats.tally \in [EntityType -> Tally]
           /\ \A e \in EntityType : rep.stats.tally[e] \in Tally
           /\ rep.stats.http_failures \in Nat
           /\ rep.divergences \in SUBSET Keys /\ rep.differing \in SUBSET Keys
           /\ rep.undone \in [RollbackOutcome -> Nat]
           /\ rep.resumed \in BOOLEAN /\ rep.counted \in SUBSET EntityType
BY DEF ProcessReport, MigrationStats

LEMMA OneMoreOutcome ==
    ASSUME NEW tally \in Tally, NEW action \in ImportAction
    PROVE  /\ Outcomes(tally) \in Nat
           /\ Outcomes(OneMore(tally, action)) = Outcomes(tally) + 1
           /\ OneMore(tally, action).found = tally.found
           /\ OneMore(tally, action).validated = tally.validated
<1>1. CASE action = "created"
  BY <1>1 DEF OneMore, Tally, Outcomes
<1>2. CASE action = "unchanged"
  BY <1>2 DEF OneMore, Tally, Outcomes
<1>3. CASE action = "conflict"
  BY <1>3 DEF OneMore, Tally, Outcomes
<1>4. CASE action = "failed"
  BY <1>4 DEF OneMore, Tally, Outcomes
<1> QED
  BY <1>1, <1>2, <1>3, <1>4 DEF ImportAction

LEMMA TalliedCounts ==
    ASSUME NEW rep \in ProcessReport, NEW ent \in EntityType, NEW action \in ImportAction
    PROVE  /\ Tallied(rep, ent, action) \in ProcessReport
           /\ OneMoreRow(Tallied(rep, ent, action), rep, ent)
<1> DEFINE new == Tallied(rep, ent, action)
<1>1. /\ new \in ProcessReport /\ new.counted = rep.counted
      /\ new.stats.tally[ent] = OneMore(rep.stats.tally[ent], action)
      /\ \A e \in EntityType : e # ent => new.stats.tally[e] = rep.stats.tally[e]
  BY TalliedDoes
<1>2. /\ Outcomes(new.stats.tally[ent]) = Outcomes(rep.stats.tally[ent]) + 1
      /\ new.stats.tally[ent].found = rep.stats.tally[ent].found
  BY <1>1, ReportFields, OneMoreOutcome
<1>3. \A e \in EntityType : Outcomes(rep.stats.tally[e]) \in Nat
  BY ReportFields, OneMoreOutcome DEF ImportAction
<1> HIDE DEF new
<1>4. OneMoreRow(new, rep, ent)
  BY <1>1, <1>2, <1>3 DEF OneMoreRow
<1> QED
  BY <1>1, <1>4 DEF new

LEMMA SameCountsSelf == \A rep : SameCounts(rep, rep)
BY DEF SameCounts

(* A failed call is counted besides. *)
LEMMA FailedCallCounts ==
    ASSUME NEW rep \in ProcessReport
    PROVE  LET new == [rep EXCEPT !.stats.http_failures = @ + 1] IN
           new \in ProcessReport /\ SameCounts(new, rep)
<1> DEFINE stats == [rep.stats EXCEPT !.http_failures = @ + 1]
           new == [rep EXCEPT !.stats = stats]
<1>1. stats \in MigrationStats /\ stats.tally = rep.stats.tally
  BY ReportFields DEF MigrationStats
<1>2. [rep EXCEPT !.stats.http_failures = @ + 1] = new
  BY DEF ProcessReport
<1> HIDE DEF stats
<1>3. new \in ProcessReport /\ new.counted = rep.counted /\ new.stats.tally = rep.stats.tally
  BY <1>1 DEF ProcessReport
<1> QED
  BY <1>2, <1>3 DEF SameCounts

LEMMA ReferencesCounts ==
    ASSUME NEW rep \in ProcessReport, NEW n \in Nat, NEW m \in Nat
    PROVE  LET new == [rep EXCEPT !.stats.checked_sales_refs = n, !.stats.orphan_sales = m] IN
           new \in ProcessReport /\ SameCounts(new, rep)
<1> DEFINE stats == [rep.stats EXCEPT !.checked_sales_refs = n, !.orphan_sales = m]
           new == [rep EXCEPT !.stats = stats]
<1>1. stats \in MigrationStats /\ stats.tally = rep.stats.tally
  BY ReportFields DEF MigrationStats
<1>2. [rep EXCEPT !.stats.checked_sales_refs = n, !.stats.orphan_sales = m] = new
  BY ReportFields DEF ProcessReport, MigrationStats
<1> HIDE DEF stats
<1>3. new \in ProcessReport /\ new.counted = rep.counted /\ new.stats.tally = rep.stats.tally
  BY <1>1 DEF ProcessReport
<1> QED
  BY <1>2, <1>3 DEF SameCounts

LEMMA DifferingCounts ==
    ASSUME NEW rep \in ProcessReport, NEW k \in Keys
    PROVE  LET new == [rep EXCEPT !.differing = @ \union {k}] IN
           new \in ProcessReport /\ SameCounts(new, rep)
<1> DEFINE new == [rep EXCEPT !.differing = @ \union {k}]
<1>1. new \in ProcessReport /\ new.counted = rep.counted /\ new.stats = rep.stats
  BY DEF ProcessReport
<1> QED
  BY <1>1 DEF SameCounts

LEMMA ValidatedCounts ==
    ASSUME NEW rep \in ProcessReport, NEW ent \in EntityType, NEW n \in Int
    PROVE  LET new == [rep EXCEPT !.stats.tally[ent].validated = n,
                                  !.divergences = @ \union rep.differing, !.differing = {}] IN
           new \in ProcessReport /\ SameCounts(new, rep)
<1> DEFINE tally == [rep.stats.tally[ent] EXCEPT !.validated = n]
           one == WithTally(rep, ent, tally, rep.counted)
           new == Published(one)
<1>1. /\ tally \in Tally
      /\ [rep EXCEPT !.stats.tally[ent].validated = n,
                     !.divergences = @ \union rep.differing, !.differing = {}] = new
  BY ValidatedTypes
<1>2. Outcomes(tally) = Outcomes(rep.stats.tally[ent]) /\ tally.found = rep.stats.tally[ent].found
  BY ReportFields DEF Outcomes, Tally
<1>3. rep.counted \in SUBSET EntityType
  BY ReportFields
<1> HIDE DEF tally
<1>6. /\ one \in ProcessReport /\ one.counted = rep.counted /\ one.stats.tally[ent] = tally
      /\ \A e \in EntityType : e # ent => one.stats.tally[e] = rep.stats.tally[e]
  BY <1>1, <1>3, WithTallyDoes
<1> HIDE DEF one
<1>4. /\ new \in ProcessReport /\ new.counted = rep.counted /\ new.stats.tally[ent] = tally
      /\ \A e \in EntityType : e # ent => new.stats.tally[e] = rep.stats.tally[e]
  BY <1>6, PublishedDoes
<1> HIDE DEF new
<1>5. SameCounts(new, rep)
  BY <1>2, <1>4 DEF SameCounts
<1> QED
  BY <1>1, <1>4, <1>5

(***************************************************************************)
(* What each step of the layer does to the report of its process.          *)
(***************************************************************************)
LEMMA ReportTyped ==
    ASSUME ReportingTypeOK
    PROVE  /\ report \in [Procs -> ProcessReport] /\ record \in [Runs -> RunRecord]
           /\ exit \in [Procs -> ExitCode]
           /\ \A p \in Procs : report[p] \in ProcessReport
BY DEF ReportingTypeOK, ProcessReport, RunRecord

LEMMA NoteDoes ==
    ASSUME ReportingTypeOK, NEW p \in Procs, NEW rep \in ProcessReport, Note(p, rep)
    PROVE  /\ report' \in [Procs -> ProcessReport] /\ report'[p] = rep
           /\ \A q \in Procs : q # p => report'[q] = report[q]
BY ReportTyped DEF Note

(* The step counts nothing of the import phases. *)
CountsKept(p) ==
    /\ report' \in [Procs -> ProcessReport]
    /\ SameCounts(report'[p], report[p])
    /\ \A q \in Procs : q # p => report'[q] = report[q]

LEMMA KeptCounts ==
    ASSUME ReportingTypeOK, NEW p \in Procs, NEW rep \in ProcessReport,
           SameCounts(rep, report[p]), Note(p, rep)
    PROVE  CountsKept(p)
BY NoteDoes DEF CountsKept

LEMMA UnchangedCounts ==
    ASSUME ReportingTypeOK, NEW p \in Procs, report' = report
    PROVE  CountsKept(p)
BY ReportTyped, SameCountsSelf DEF CountsKept

(* The step counts one more row of the table in hand. *)
RowCounted(p) ==
    /\ report' \in [Procs -> ProcessReport]
    /\ OneMoreRow(report'[p], report[p], proc[p].ent)
    /\ \A q \in Procs : q # p => report'[q] = report[q]

LEMMA SkipCounts ==
    ASSUME TypeOK, ReportingTypeOK, NEW p \in Procs, SkipCounted(p)
    PROVE  RowCounted(p) /\ UNCHANGED <<record, exit>>
<1>1. PICK k \in Keys :
         /\ IsNext(p, k)
         /\ Note(p, Skipped(report[p], proc[p].ent, items[proc[p].run][k].action))
  BY DEF SkipCounted
<1>2. PICK j \in Keys : IsNext(p, j) /\ AlreadyDone(items[proc[p].run][j])
  BY DEF SkipCounted, ImportSkip
<1>3. j \in Nat /\ k \in Nat /\ k <= j /\ j <= k
  BY <1>1, <1>2, KeysAssumption DEF IsNext, Keys
<1>4. items[proc[p].run][k].action \in ImportAction
  BY <1>2, <1>3 DEF AlreadyDone, ImportAction
<1>5. proc[p].ent \in EntityType /\ report[p] \in ProcessReport
  BY Typed, ReportTyped DEF Process
<1> DEFINE rep == Skipped(report[p], proc[p].ent, items[proc[p].run][k].action)
<1>6. rep \in ProcessReport /\ OneMoreRow(rep, report[p], proc[p].ent)
  BY <1>4, <1>5, TalliedCounts DEF Skipped
<1> HIDE DEF rep
<1>7. Note(p, rep)
  BY <1>1 DEF rep
<1> QED
  BY <1>6, <1>7, NoteDoes DEF RowCounted, SkipCounted

LEMMA AnswerCounts ==
    ASSUME TypeOK, TypeOK', ReportingTypeOK, NEW p \in Procs, AnswerCounted(p)
    PROVE  RowCounted(p) /\ UNCHANGED <<record, exit>>
<1>1. proc'[p].ans \in ImportAction
  BY PostAnsweredDoes DEF AnswerCounted, TypeOK, StageOK
<1>2. proc[p].ent \in EntityType /\ report[p] \in ProcessReport
  BY Typed, ReportTyped DEF Process
<1> DEFINE rep == Tallied(report[p], proc[p].ent, proc'[p].ans)
<1>3. rep \in ProcessReport /\ OneMoreRow(rep, report[p], proc[p].ent)
  BY <1>1, <1>2, TalliedCounts
<1>4. Note(p, rep)
  BY DEF AnswerCounted
<1> HIDE DEF rep
<1> QED
  BY <1>3, <1>4, NoteDoes DEF RowCounted, AnswerCounted

LEMMA FailureCounts ==
    ASSUME TypeOK, ReportingTypeOK, NEW p \in Procs, FailureCounted(p)
    PROVE  /\ IF proc'[p].pc = "upsert" THEN RowCounted(p) ELSE CountsKept(p)
           /\ UNCHANGED <<record, exit>>
<1>1. proc[p].ent \in EntityType /\ report[p] \in ProcessReport
  BY Typed, ReportTyped DEF Process
<1>2. CASE proc'[p].pc = "upsert"
  <2> DEFINE one == Tallied(report[p], proc[p].ent, "failed")
             rep == [one EXCEPT !.stats.http_failures = @ + 1]
  <2>1. one \in ProcessReport /\ OneMoreRow(one, report[p], proc[p].ent)
    BY <1>1, TalliedCounts DEF ImportAction
  <2>2. Note(p, rep)
    BY <1>2 DEF FailureCounted
  <2> HIDE DEF one
  <2>3. rep \in ProcessReport /\ SameCounts(rep, one)
    BY <2>1, FailedCallCounts
  <2> HIDE DEF rep
  <2>4. OneMoreRow(rep, report[p], proc[p].ent)
    BY <2>1, <2>3 DEF OneMoreRow, SameCounts
  <2> QED
    BY <1>2, <2>2, <2>3, <2>4, NoteDoes DEF RowCounted, FailureCounted
<1>3. CASE proc'[p].pc # "upsert"
  <2>1. Note(p, report[p])
    BY <1>3 DEF FailureCounted
  <2> QED
    BY <1>1, <1>3, <2>1, SameCountsSelf, KeptCounts DEF FailureCounted
<1> QED
  BY <1>2, <1>3

(* What is stored of a report. *)
LEMMA EnvelopeTypes ==
    ASSUME NEW row \in RunRecord, NEW rep \in ProcessReport, NEW aborted \in BOOLEAN
    PROVE  /\ Envelope(row, rep) \in RunRecord
           /\ Closed(row, aborted) \in RunRecord
           /\ Closed(Envelope(row, rep), aborted) \in RunRecord
<1>1. ASSUME NEW any \in RunRecord PROVE Closed(any, aborted) \in RunRecord
  BY DEF Closed, RunRecord
<1>2. Envelope(row, rep) \in RunRecord
  BY ReportFields DEF Envelope, RunRecord
<1> QED
  BY <1>1, <1>2

LEMMA RecordSet ==
    ASSUME ReportingTypeOK, NEW r, NEW row \in RunRecord
    PROVE  [record EXCEPT ![r] = row] \in [Runs -> RunRecord]
BY ReportTyped

LEMMA PersistTypes ==
    ASSUME ReportingTypeOK, NEW p \in Procs, proc[p].run \in Runs, NEW rep \in ProcessReport,
           Persist(p, rep)
    PROVE  record' \in [Runs -> RunRecord]
<1>1. record[proc[p].run] \in RunRecord
  BY ReportTyped
<1> DEFINE row == Envelope(record[proc[p].run], rep)
<1>2. row \in RunRecord
  BY <1>1, EnvelopeTypes
<1>3. record' = [record EXCEPT ![proc[p].run] = row]
  BY DEF Persist
<1> HIDE DEF row
<1> QED
  BY <1>2, <1>3, RecordSet

LEMMA RowComparedCounts ==
    ASSUME TypeOK, ReportingTypeOK, NEW p \in Procs, RowCompared(p)
    PROVE  CountsKept(p) /\ UNCHANGED <<record, exit>>
<1>1. PICK k \in Keys :
         Note(p, IF Agrees(svc[k], proc[p].cursor[k]) THEN report[p]
                 ELSE [report[p] EXCEPT !.differing = @ \union {k}])
  BY DEF RowCompared
<1>2. report[p] \in ProcessReport
  BY ReportTyped
<1>3. CASE Agrees(svc[k], proc[p].cursor[k])
  BY <1>1, <1>2, <1>3, SameCountsSelf, KeptCounts DEF RowCompared
<1>4. CASE ~ Agrees(svc[k], proc[p].cursor[k])
  <2> DEFINE rep == [report[p] EXCEPT !.differing = @ \union {k}]
  <2>1. rep \in ProcessReport /\ SameCounts(rep, report[p])
    BY <1>2, DifferingCounts
  <2>2. Note(p, rep)
    BY <1>1, <1>4
  <2> HIDE DEF rep
  <2> QED
    BY <2>1, <2>2, KeptCounts DEF RowCompared
<1> QED
  BY <1>3, <1>4

LEMMA CheckCounts ==
    ASSUME TypeOK, ReportingTypeOK, NEW p \in Procs, CheckCounted(p)
    PROVE  CountsKept(p) /\ record' \in [Runs -> RunRecord] /\ exit' = exit
<1>1. /\ report[p] \in ProcessReport /\ proc[p].ent \in EntityType /\ proc[p].found \in Nat
      /\ Imports(p) => proc[p].run \in Runs
  BY Typed, ReportTyped DEF Process, StageOK, Imports
<1>2. Validated(p) \in Int
  <2>1. (report[p].differing) \in SUBSET Keys
    BY <1>1, ReportFields
  <2>2. Cardinality(report[p].differing) \in Nat
    BY <2>1, CountsAreNat
  <2> QED
    BY <1>1, <2>2 DEF Validated
<1> DEFINE rep == [report[p] EXCEPT !.stats.tally[proc[p].ent].validated = Validated(p),
                                    !.divergences = @ \union report[p].differing,
                                    !.differing = {}]
<1>3. rep \in ProcessReport /\ SameCounts(rep, report[p])
  BY <1>1, <1>2, ValidatedCounts
<1>4. Note(p, rep) /\ ((Imports(p) /\ Persist(p, rep)) \/ record' = record) /\ exit' = exit
  BY DEF CheckCounted
<1> HIDE DEF rep
<1>5. CountsKept(p)
  BY <1>3, <1>4, KeptCounts
<1>6. record' \in [Runs -> RunRecord]
  BY <1>1, <1>3, <1>4, PersistTypes, ReportTyped
<1> QED
  BY <1>4, <1>5, <1>6

LEMMA RefsCounts ==
    ASSUME TypeOK, ReportingTypeOK, NEW p \in Procs, RefsCounted(p)
    PROVE  CountsKept(p) /\ record' \in [Runs -> RunRecord] /\ exit' = exit
<1> DEFINE n == Cardinality({s \in Sales : legacy[s] # Absent})
           m == Cardinality(Orphans(p))
           rep == [report[p] EXCEPT !.stats.checked_sales_refs = n, !.stats.orphan_sales = m]
<1>1. report[p] \in ProcessReport /\ (Imports(p) => proc[p].run \in Runs)
  BY Typed, ReportTyped DEF StageOK, Imports
<1>2. n \in Nat /\ m \in Nat
  <2>1. {s \in Sales : legacy[s] # Absent} \in SUBSET Keys /\ Orphans(p) \in SUBSET Keys
    BY DEF Orphans, Keys
  <2> QED
    BY <2>1, CountsAreNat
<1>3. Note(p, rep) /\ (IF proc'[p].pc = "complete" THEN Persist(p, rep) ELSE UNCHANGED record)
      /\ exit' = exit
  BY DEF RefsCounted
<1> HIDE DEF n, m
<1>4. rep \in ProcessReport /\ SameCounts(rep, report[p])
  BY <1>1, <1>2, ReferencesCounts
<1> HIDE DEF rep
<1>5. CountsKept(p)
  BY <1>3, <1>4, KeptCounts
<1>6. proc'[p].pc = "complete" => Imports(p)
  BY RefsEndDoes DEF RefsCounted
<1>7. record' \in [Runs -> RunRecord]
  BY <1>1, <1>3, <1>4, <1>6, PersistTypes, ReportTyped
<1> QED
  BY <1>3, <1>5, <1>7

LEMMA RecordedCounts ==
    ASSUME ReportingTypeOK, NEW p \in Procs, NEW outcome \in RollbackOutcome,
           Note(p, Recorded(report[p], outcome))
    PROVE  CountsKept(p) /\ report'[p].undone = [report[p].undone EXCEPT ![outcome] = @ + 1]
<1> DEFINE rep == Recorded(report[p], outcome)
<1>1. /\ rep \in ProcessReport /\ rep.stats = report[p].stats
      /\ rep.counted = report[p].counted
      /\ rep.undone = [report[p].undone EXCEPT ![outcome] = @ + 1]
  BY ReportTyped, RecordedDoes
<1>2. Note(p, rep)
  OBVIOUS
<1> HIDE DEF rep
<1>3. SameCounts(rep, report[p])
  BY <1>1 DEF SameCounts
<1>4. report'[p] = rep
  BY <1>1, <1>2, NoteDoes
<1> QED
  BY <1>1, <1>2, <1>3, <1>4, KeptCounts

(* What a rollback records, if anything. *)
Notes(p, outcome) ==
    /\ UNCHANGED <<record, exit>> /\ CountsKept(p)
    /\ report'[p].undone = IF outcome = "none" THEN report[p].undone
                           ELSE [report[p].undone EXCEPT ![outcome] = @ + 1]

LEMMA ReadRecords ==
    ASSUME TypeOK, ReportingTypeOK, NEW p \in Procs, RollbackReadRecorded(p)
    PROVE  \E k \in Keys : IsNext(p, k) /\ Notes(p, ReadOutcome(p, k))
<1>1. PICK k \in Keys :
         /\ IsNext(p, k)
         /\ Note(p, IF ReadOutcome(p, k) = "none" THEN report[p]
                    ELSE Recorded(report[p], ReadOutcome(p, k)))
  BY DEF RollbackReadRecorded
<1>2. ReadOutcome(p, k) \in RollbackOutcome \union {"none"}
  BY DEF ReadOutcome, Decision, RollbackOutcome
<1>3. CASE ReadOutcome(p, k) = "none"
  <2>1. Note(p, report[p])
    BY <1>1, <1>3
  <2>2. report'[p] = report[p] /\ CountsKept(p)
    BY <2>1, NoteDoes, KeptCounts, SameCountsSelf, ReportTyped
  <2> QED
    BY <1>1, <1>3, <2>2 DEF Notes, RollbackReadRecorded
<1>4. CASE ReadOutcome(p, k) # "none"
  <2> DEFINE outcome == ReadOutcome(p, k)
  <2>1. outcome \in RollbackOutcome /\ Note(p, Recorded(report[p], outcome))
    BY <1>1, <1>2, <1>4
  <2>2. outcome # "none"
    BY <1>4
  <2> HIDE DEF outcome
  <2>3. Notes(p, outcome)
    BY <2>1, <2>2, RecordedCounts DEF Notes, RollbackReadRecorded
  <2> QED
    BY <1>1, <2>3 DEF outcome
<1> QED
  BY <1>3, <1>4

LEMMA RemovalRecords ==
    ASSUME TypeOK, ReportingTypeOK, NEW p \in Procs, RemovalRecorded(p)
    PROVE  Notes(p, IF proc'[p].pc # "rb_mark" THEN "none"
                       ELSE IF proc'[p].ans = "rolled_back" THEN "deleted" ELSE "failed")
<1>1. CASE proc'[p].pc # "rb_mark"
  <2>1. Note(p, report[p])
    BY <1>1 DEF RemovalRecorded
  <2>2. report'[p] = report[p] /\ CountsKept(p)
    BY <2>1, NoteDoes, KeptCounts, SameCountsSelf, ReportTyped
  <2> QED
    BY <1>1, <2>2 DEF Notes, RemovalRecorded
<1>2. CASE proc'[p].pc = "rb_mark"
  <2> DEFINE outcome == IF proc'[p].ans = "rolled_back" THEN "deleted" ELSE "failed"
  <2>1. outcome \in RollbackOutcome /\ outcome # "none"
    BY DEF RollbackOutcome
  <2>2. Note(p, Recorded(report[p], outcome))
    BY <1>2 DEF RemovalRecorded
  <2>3. UNCHANGED <<record, exit>>
    BY DEF RemovalRecorded
  <2> HIDE DEF outcome
  <2>4. Notes(p, outcome)
    BY <2>1, <2>2, <2>3, RecordedCounts DEF Notes
  <2> QED
    BY <1>2, <2>4 DEF outcome
<1> QED
  BY <1>1, <1>2

(* A new command, or a command that has ended, has counted nothing. *)
Afresh(p) ==
    /\ report' \in [Procs -> ProcessReport]
    /\ \E b \in BOOLEAN : report'[p] = NewReport(b)
    /\ \A q \in Procs : q # p => report'[q] = report[q]

LEMMA NewCounts ==
    ASSUME ReportingTypeOK, NEW p \in Procs, NEW b \in BOOLEAN, Note(p, NewReport(b))
    PROVE  Afresh(p)
<1> DEFINE rep == NewReport(b)
<1>1. rep \in ProcessReport /\ Note(p, rep)
  BY NewReportTypes
<1> HIDE DEF rep
<1>2. /\ report' \in [Procs -> ProcessReport] /\ report'[p] = rep
      /\ \A q \in Procs : q # p => report'[q] = report[q]
  BY <1>1, NoteDoes
<1> QED
  BY <1>2 DEF rep, Afresh

LEMMA EndCounts ==
    ASSUME ReportingTypeOK, NEW p \in Procs, NEW code \in ExitCode, Ends(p, code)
    PROVE  Afresh(p) /\ exit' \in [Procs -> ExitCode]
<1>1. Note(p, NewReport(FALSE)) /\ exit' = [exit EXCEPT ![p] = code]
  BY DEF Ends
<1> QED
  BY <1>1, NewCounts, ReportTyped

LEMMA StartedCounts ==
    ASSUME ReportingTypeOK, NEW p \in Procs, Started(p)
    PROVE  Afresh(p) /\ record' = record /\ exit' \in [Procs -> ExitCode]
<1> DEFINE b == proc'[p].cmd = "snapshot" /\ status[proc'[p].run] # "none"
<1>1. Note(p, NewReport(b)) /\ exit' = [exit EXCEPT ![p] = "none"] /\ record' = record
  BY DEF Started
<1>2. b \in BOOLEAN
  OBVIOUS
<1> HIDE DEF b
<1> QED
  BY <1>1, <1>2, NewCounts, ReportTyped DEF ExitCode

LEMMA TurnedAwayCounts ==
    ASSUME ReportingTypeOK, NEW p \in Procs, TurnedAway(p)
    PROVE  UNCHANGED <<vars, report, record>> /\ exit' \in [Procs -> ExitCode]
<1>1. \E code \in ExitCode : exit' = [exit EXCEPT ![p] = code]
  BY DEF TurnedAway, ExitCode
<1> QED
  BY <1>1, ReportTyped DEF TurnedAway

(* Every way a command ends leaves an exit code and, for some, the record. *)
LEMMA StopsCounts ==
    ASSUME TypeOK, ReportingTypeOK, NEW p \in Procs,
           Finalized(p) \/ ValidateEnded(p) \/ Aborted(p) \/ Killed(p) \/ RollbackEnded(p),
           proc[p].cmd = "snapshot" => proc[p].run \in Runs,
           Finalized(p) => Imports(p)
    PROVE  /\ Afresh(p) /\ exit' \in [Procs -> ExitCode] /\ record' \in [Runs -> RunRecord]
<1>1. \E code \in ExitCode : Ends(p, code)
  BY DEF Finalized, ValidateEnded, Aborted, Killed, RollbackEnded, ExitCode
<1>2. Afresh(p) /\ exit' \in [Procs -> ExitCode]
  BY <1>1, EndCounts
<1> SUFFICES record' \in [Runs -> RunRecord]
  BY <1>2
<1>3. report[p] \in ProcessReport /\ record \in [Runs -> RunRecord]
  BY ReportTyped
<1>4. CASE ValidateEnded(p) \/ Killed(p)
  BY <1>3, <1>4 DEF ValidateEnded, Killed
<1>5. ASSUME NEW b \in BOOLEAN, proc[p].run \in Runs,
             record' = [record EXCEPT ![proc[p].run] = Closed(Envelope(@, report[p]), b)]
      PROVE  record' \in [Runs -> RunRecord]
  <2> DEFINE row == Closed(Envelope(record[proc[p].run], report[p]), b)
  <2>1. row \in RunRecord
    BY <1>3, <1>5, EnvelopeTypes
  <2>2. record' = [record EXCEPT ![proc[p].run] = row]
    BY <1>5
  <2> HIDE DEF row
  <2> QED
    BY <2>1, <2>2, RecordSet
<1>6. CASE Finalized(p) \/ Aborted(p)
  <2>1. proc[p].run \in Runs
    BY <1>6 DEF Aborted, Abort, Imports
  <2> QED
    BY <1>5, <1>6, <2>1 DEF Finalized, Aborted
<1>7. CASE RollbackEnded(p)
  <2>1. proc[p].run \in Runs
    BY <1>7, Typed DEF StageOK, RollbackEnded, RollbackEnd, At
  <2> DEFINE row == Closed(record[proc[p].run], FALSE)
  <2>2. row \in RunRecord
    BY <1>3, <2>1, ReportFields, NewReportTypes, EnvelopeTypes
  <2>3. record' = record \/ record' = [record EXCEPT ![proc[p].run] = row]
    BY <1>7 DEF RollbackEnded
  <2> HIDE DEF row
  <2> QED
    BY <1>3, <2>2, <2>3, RecordSet
<1> QED
  BY <1>2, <1>4, <1>6, <1>7

(* The rows of a table of the legacy database. *)
InLegacy(ent) == Cardinality({k \in Rows(ent) : legacy[k] # Absent})

LEMMA FoundCounts ==
    ASSUME TypeOK, ReportingTypeOK, NEW p \in Procs, CountFound(p)
    PROVE  /\ UNCHANGED <<vars, record, exit>>
           /\ report' \in [Procs -> ProcessReport]
           /\ \A q \in Procs : q # p => report'[q] = report[q]
           /\ \E ent \in Due(p) :
                /\ ent \in EntityType
                /\ report'[p].counted = report[p].counted \union {ent}
                /\ report'[p].stats.tally[ent].found = InLegacy(ent)
                /\ \A e \in EntityType :
                     /\ Outcomes(report'[p].stats.tally[e]) = Outcomes(report[p].stats.tally[e])
                     /\ e # ent => report'[p].stats.tally[e] = report[p].stats.tally[e]
<1>1. PICK ent \in Due(p) :
         Note(p, [report[p] EXCEPT !.stats.tally[ent].found = InLegacy(ent),
                                   !.counted = @ \union {ent}])
  BY DEF CountFound, InLegacy
<1>2. report[p] \in ProcessReport /\ ent \in EntityType
  BY Typed, ReportTyped DEF Process, Due, ImportDue, ValidateDue
<1>3. InLegacy(ent) \in Nat
  <2>1. {k \in Rows(ent) : legacy[k] # Absent} \in SUBSET Keys
    BY <1>2 DEF Rows, Keys
  <2> QED
    BY <2>1, CountsAreNat DEF InLegacy
<1> DEFINE n == InLegacy(ent)
           tally == [report[p].stats.tally[ent] EXCEPT !.found = n]
           rep == WithTally(report[p], ent, tally, report[p].counted \union {ent})
<1>4. /\ tally \in Tally
      /\ [report[p] EXCEPT !.stats.tally[ent].found = n, !.counted = @ \union {ent}] = rep
  BY <1>2, <1>3, FoundTypes
<1>5. tally.found = n /\ Outcomes(tally) = Outcomes(report[p].stats.tally[ent])
  BY <1>2, ReportFields DEF Tally, Outcomes
<1>6. report[p].counted \union {ent} \in SUBSET EntityType
  BY <1>2, ReportFields
<1> HIDE DEF tally, n
<1>7. /\ rep \in ProcessReport
      /\ rep.stats.tally[ent] = tally /\ rep.counted = report[p].counted \union {ent}
      /\ \A e \in EntityType : e # ent => rep.stats.tally[e] = report[p].stats.tally[e]
  BY <1>2, <1>4, <1>6, WithTallyDoes
<1>8. Note(p, rep)
  BY <1>1, <1>4 DEF n
<1> HIDE DEF rep
<1>9. /\ report' \in [Procs -> ProcessReport] /\ report'[p] = rep
      /\ \A q \in Procs : q # p => report'[q] = report[q]
  BY <1>7, <1>8, NoteDoes
<1>10. \A e \in EntityType : Outcomes(rep.stats.tally[e]) = Outcomes(report[p].stats.tally[e])
  BY <1>5, <1>7
<1> QED
  BY <1>2, <1>5, <1>7, <1>9, <1>10 DEF n, CountFound

(* Every other step counts nothing of the import phases. *)
LEMMA AdvanceCounts ==
    ASSUME TypeOK, TypeOK', Control, ReportingTypeOK, NEW p \in Procs, RAdvance(p)
    PROVE  /\ \/ CountsKept(p)
              \/ RowCounted(p) /\ (\/ SkipCounted(p) \/ AnswerCounted(p)
                                   \/ FailureCounted(p) /\ proc'[p].pc = "upsert")
              \/ Afresh(p) /\ (Finalized(p) \/ ValidateEnded(p) \/ RollbackEnded(p))
           /\ exit' \in [Procs -> ExitCode] /\ record' \in [Runs -> RunRecord]
<1>1. record \in [Runs -> RunRecord] /\ exit \in [Procs -> ExitCode]
  BY ReportTyped
<1>2. CASE Quiet(p)
  BY <1>1, <1>2, UnchangedCounts DEF Quiet
<1>3. CASE SkipCounted(p) \/ AnswerCounted(p)
  BY <1>1, <1>3, SkipCounts, AnswerCounts
<1>4. CASE FailureCounted(p)
  BY <1>1, <1>4, FailureCounts
<1>5. CASE ImportPersisted(p)
  <2>1. proc[p].run \in Runs
    BY <1>5, Typed DEF ImportPersisted, ImportEnd, At, StageOK
  <2>2. report[p] \in ProcessReport
    BY ReportTyped
  <2> QED
    BY <1>1, <1>5, <2>1, <2>2, PersistTypes, UnchangedCounts DEF ImportPersisted
<1>6. CASE RowCompared(p)
  BY <1>1, <1>6, RowComparedCounts
<1>7. CASE CheckCounted(p) \/ RefsCounted(p)
  BY <1>1, <1>7, CheckCounts, RefsCounts
<1>8. CASE Finalized(p) \/ ValidateEnded(p) \/ RollbackEnded(p)
  <2>1. proc[p].cmd = "snapshot" => proc[p].run \in Runs
    BY Typed DEF StageOK
  <2>2. Finalized(p) => Imports(p)
    BY CommandOf DEF Finalized, Finalize, Imports, Control
  <2> QED
    BY <1>8, <2>1, <2>2, StopsCounts
<1>9. CASE RollbackReadRecorded(p) \/ RemovalRecorded(p)
  BY <1>1, <1>9, ReadRecords, RemovalRecords DEF Notes
<1> QED
  BY <1>2, <1>3, <1>4, <1>5, <1>6, <1>7, <1>8, <1>9 DEF RAdvance

LEMMA ReportingTypeStep ==
    ASSUME TypeOK, TypeOK', Control, ReportingTypeOK, [RNext]_rvars
    PROVE  ReportingTypeOK'
<1> SUFFICES /\ report' \in [Procs -> ProcessReport] /\ record' \in [Runs -> RunRecord]
             /\ exit' \in [Procs -> ExitCode]
  BY DEF ReportingTypeOK, ProcessReport, RunRecord
<1>1. CASE UNCHANGED <<report, record, exit>>
  BY <1>1, ReportTyped
<1>2. ASSUME NEW p \in Procs, Started(p)
      PROVE  /\ report' \in [Procs -> ProcessReport] /\ record' \in [Runs -> RunRecord]
             /\ exit' \in [Procs -> ExitCode]
  BY <1>2, StartedCounts, ReportTyped DEF Afresh
<1>3. ASSUME NEW p \in Procs, TurnedAway(p) \/ CountFound(p)
      PROVE  /\ report' \in [Procs -> ProcessReport] /\ record' \in [Runs -> RunRecord]
             /\ exit' \in [Procs -> ExitCode]
  BY <1>3, TurnedAwayCounts, FoundCounts, ReportTyped
<1>4. ASSUME NEW p \in Procs, RAdvance(p)
      PROVE  /\ report' \in [Procs -> ProcessReport] /\ record' \in [Runs -> RunRecord]
             /\ exit' \in [Procs -> ExitCode]
  BY <1>4, AdvanceCounts DEF CountsKept, RowCounted, Afresh
<1>5. ASSUME NEW p \in Procs, Aborted(p) \/ Killed(p)
      PROVE  /\ report' \in [Procs -> ProcessReport] /\ record' \in [Runs -> RunRecord]
             /\ exit' \in [Procs -> ExitCode]
  <2>1. ~ Finalized(p) \/ Imports(p)
    BY CommandOf DEF Finalized, Finalize, Imports, Control
  <2>2. proc[p].cmd = "snapshot" => proc[p].run \in Runs
    BY Typed DEF StageOK
  <2> QED
    BY <1>5, <2>1, <2>2, StopsCounts DEF Afresh
<1> QED
  BY <1>1, <1>2, <1>3, <1>4, <1>5 DEF RNext, rvars

LEMMA ReportingTypeInit == RInit => ReportingTypeOK
<1> SUFFICES ASSUME RInit
             PROVE  /\ report \in [Procs -> ProcessReport] /\ record \in [Runs -> RunRecord]
                    /\ exit \in [Procs -> ExitCode]
  BY DEF ReportingTypeOK, ProcessReport, RunRecord
<1> QED
  BY NewReportTypes DEF RInit, ExitCode

(* models.py: MigrationStats and RollbackReport, state.py: stats_json, error and
   finished_at of migration_runs, README.md:95: the exit codes. The counters are
   numbers, whatever was counted, stored or returned in whatever order. *)
THEOREM ReportingTypes == RSpec => []ReportingTypeOK
<1>1. Spec => [](TypeOK /\ Control)
  BY ControlAlways
<1>2. TypeOK /\ Control /\ TypeOK' /\ ReportingTypeOK /\ [RNext]_rvars => ReportingTypeOK'
  BY ReportingTypeStep
<1> QED
  BY <1>1, <1>2, ReportingTypeInit, ReportingObserves, PTL DEF RSpec

(***************************************************************************)
(* The outcomes of a phase add up to the rows found in it.                 *)
(***************************************************************************)
Counted(p, ent) == Outcomes(report[p].stats.tally[ent])
Found(p, ent) == report[p].stats.tally[ent].found

(* A count still holds while nobody wrote in the legacy database. *)
FoundCurrent(p) ==
    touched[p] = {} => \A ent \in report[p].counted : Found(p, ent) = InLegacy(ent)
(* No row of a table has an outcome before its phase. *)
NotYet(p) ==
    /\ At(p, "import_open") => Counted(p, proc[p].ent) = 0
    /\ Imports(p) /\ proc[p].ent = "user" => Counted(p, "sale") = 0
(* The rows of the cursor that have no outcome yet. *)
ToCount(p) == IF At(p, "upsert") THEN Pending(p) \ {proc[p].cur} ELSE Pending(p)
AddingUp(p) ==
    proc[p].pc \in {"import_next", "post", "upsert"} =>
        /\ proc[p].ent \in report[p].counted
        /\ touched[p] = {} =>
               Counted(p, proc[p].ent) + Cardinality(ToCount(p)) = Found(p, proc[p].ent)
CountOK(p) == FoundCurrent(p) /\ NotYet(p) /\ AddingUp(p)
CountInv == \A p \in Procs : CountOK(p)

LEMMA CountImplies == TypeOK /\ ReportingTypeOK /\ CountInv => OutcomesAddUp
<1> SUFFICES ASSUME TypeOK, ReportingTypeOK, CountInv, NEW p \in Procs,
                    At(p, "import_next"), Pending(p) = {}, touched[p] = {}
             PROVE  Counted(p, proc[p].ent) = Found(p, proc[p].ent)
  BY DEF OutcomesAddUp, Counted, Found
<1>1. Counted(p, proc[p].ent) \in Nat
  BY Typed, ReportTyped, ReportFields, OneMoreOutcome DEF Counted, ImportAction, Process
<1>2. Cardinality(ToCount(p)) = 0
  BY FS_EmptySet DEF ToCount, At
<1> QED
  BY <1>1, <1>2 DEF CountInv, CountOK, AddingUp, At

(* The legacy rows are the same while nobody else wrote. *)
LEMMA LegacyKept ==
    ASSUME TypeOK, TypeOK', NEW p \in Procs, Undisturbed(p), touched'[p] = {}
    PROVE  touched[p] = {} /\ \A ent : InLegacy(ent)' = InLegacy(ent)
<1>1. \A k \in Keys : touched'[p] = {} => k \in Settled(p)'
  BY DEF Settled
<1>2. \A k \in Keys : k \in Settled(p) /\ legacy'[k] = legacy[k]
  BY <1>1 DEF Undisturbed
<1>3. touched[p] = {}
  BY <1>2, Typed DEF Settled
<1>4. legacy' = legacy
  BY <1>2 DEF TypeOK, Tables
<1> QED
  BY <1>3, <1>4 DEF InLegacy

LEMMA CountOther ==
    ASSUME TypeOK, TypeOK', NEW p \in Procs, CountOK(p), Undisturbed(p),
           proc'[p] = proc[p], report'[p] = report[p]
    PROVE  CountOK(p)'
<1>1. FoundCurrent(p)'
  BY LegacyKept DEF CountOK, FoundCurrent, Found
<1>2. NotYet(p)'
  BY DEF CountOK, NotYet, Counted, At, Imports
<1>3. ToCount(p)' = ToCount(p)
  BY DEF ToCount, Pending, At
<1>4. AddingUp(p)'
  BY <1>3, LegacyKept DEF CountOK, AddingUp, Counted, Found
<1> QED
  BY <1>1, <1>2, <1>4 DEF CountOK

LEMMA CountAfresh ==
    ASSUME NEW p \in Procs, Afresh(p), proc'[p].pc \notin {"import_next", "post", "upsert"},
           proc'[p].ent \in EntityType
    PROVE  CountOK(p)'
<1>1. PICK b \in BOOLEAN : report'[p] = NewReport(b)
  BY DEF Afresh
<1>2. /\ report'[p].counted = {}
      /\ \A ent \in EntityType : report'[p].stats.tally[ent] = NoTally
  BY <1>1 DEF NewReport, NoStats
<1>3. Outcomes(NoTally) = 0
  BY DEF Outcomes, NoTally
<1>4. \A ent \in EntityType : Counted(p, ent)' = 0
  BY <1>2, <1>3 DEF Counted
<1> QED
  BY <1>2, <1>4 DEF CountOK, FoundCurrent, NotYet, AddingUp, EntityType

(* A step that counts no row, and after which the command imports nothing. *)
LEMMA CountOnward ==
    ASSUME TypeOK, NEW p \in Procs, CountOK(p), CountsKept(p), ReportingTypeOK,
           legacy' = legacy, touched'[p] = touched[p],
           proc'[p].pc \notin {"import_open", "import_next", "post", "upsert"},
           Imports(p)' /\ proc'[p].ent = "user" => Imports(p) /\ proc[p].ent = "user"
    PROVE  CountOK(p)'
<1>1. /\ report'[p].counted = report[p].counted /\ report[p].counted \subseteq EntityType
      /\ \A ent \in EntityType : /\ Counted(p, ent)' = Counted(p, ent)
                                 /\ Found(p, ent)' = Found(p, ent)
  BY ReportTyped, ReportFields DEF CountsKept, SameCounts, Counted, Found
<1>2. FoundCurrent(p)'
  BY <1>1 DEF CountOK, FoundCurrent, InLegacy
<1>3. NotYet(p)' /\ AddingUp(p)'
  BY <1>1 DEF CountOK, NotYet, AddingUp, At, EntityType
<1> QED
  BY <1>2, <1>3 DEF CountOK

LEMMA CountFoundStep ==
    ASSUME TypeOK, NEW p \in Procs, CountOK(p), ReportingTypeOK, CountFound(p)
    PROVE  CountOK(p)'
<1>1. UNCHANGED <<legacy, touched, proc>>
  BY FoundCounts DEF vars, world, history
<1>2. PICK ent \in Due(p) :
         /\ ent \in EntityType
         /\ report'[p].counted = report[p].counted \union {ent}
         /\ report'[p].stats.tally[ent].found = InLegacy(ent)
         /\ \A e \in EntityType :
              /\ Outcomes(report'[p].stats.tally[e]) = Outcomes(report[p].stats.tally[e])
              /\ e # ent => report'[p].stats.tally[e] = report[p].stats.tally[e]
  BY FoundCounts
<1>3. report[p].counted \subseteq EntityType
  BY ReportTyped, ReportFields
<1>4. proc[p].pc \in {"import_open", "count"}
  BY <1>2 DEF Due, ImportDue, ValidateDue, At
<1>5. FoundCurrent(p)'
  BY <1>1, <1>2, <1>3 DEF CountOK, FoundCurrent, Found, InLegacy
<1>6. NotYet(p)' /\ AddingUp(p)'
  BY <1>1, <1>2, <1>4, Typed DEF CountOK, NotYet, AddingUp, Counted, At, Imports, Process,
     EntityType
<1> QED
  BY <1>5, <1>6 DEF CountOK

LEMMA OneLess ==
    ASSUME TypeOK, NEW p \in Procs, NEW k \in Pending(p)
    PROVE  /\ Cardinality(Pending(p)) \in Nat /\ Cardinality(Pending(p) \ {k}) \in Nat
           /\ Cardinality(Pending(p) \ {k}) + 1 = Cardinality(Pending(p))
<1>1. Pending(p) \in SUBSET Keys /\ IsFiniteSet(Pending(p))
  BY CountsAreNat DEF Pending
<1> DEFINE S == Pending(p)
<1>2. Cardinality(S \ {k}) = Cardinality(S) - 1 /\ Cardinality(S) \in Nat
  BY <1>1, FS_RemoveElement, FS_CardinalityType
<1>3. Cardinality(S \ {k}) \in Nat
  BY <1>1, FS_RemoveElement, FS_CardinalityType
<1> QED
  BY <1>2, <1>3

LEMMA CountsTyped ==
    ASSUME TypeOK, ReportingTypeOK, NEW p \in Procs
    PROVE  /\ proc[p].ent \in EntityType /\ report[p].counted \subseteq EntityType
           /\ \A ent \in EntityType : Counted(p, ent) \in Nat /\ Found(p, ent) \in Nat
BY Typed, ReportTyped, ReportFields, OneMoreOutcome DEF Counted, Found, ImportAction, Process, Tally

(* A step of an import phase that counts no row. *)
LEMMA CountInPhase ==
    ASSUME TypeOK, ReportingTypeOK, NEW p \in Procs, CountOK(p), CountsKept(p), SameCommand(p),
           proc[p].pc \in {"import_open", "import_next", "post", "upsert"},
           proc'[p].pc \in {"import_next", "post", "upsert"},
           legacy' = legacy, touched'[p] = touched[p],
           proc[p].pc = "import_open" =>
               /\ proc[p].ent \in report[p].counted
               /\ Cardinality(ToCount(p)') = InLegacy(proc[p].ent)
               /\ InLegacy(proc[p].ent) \in Nat,
           proc[p].pc # "import_open" => ToCount(p)' = ToCount(p)
    PROVE  CountOK(p)'
<1>1. /\ report'[p].counted = report[p].counted
      /\ \A ent \in EntityType : /\ Counted(p, ent)' = Counted(p, ent)
                                 /\ Found(p, ent)' = Found(p, ent)
  BY DEF CountsKept, SameCounts, Counted, Found
<1>2. FoundCurrent(p)'
  BY <1>1, CountsTyped DEF CountOK, FoundCurrent, InLegacy
<1>3. NotYet(p)'
  BY <1>1 DEF CountOK, NotYet, At, EntityType, SameCommand, Imports
<1>4. CASE proc[p].pc # "import_open"
  BY <1>1, <1>2, <1>3, <1>4, CountsTyped DEF CountOK, AddingUp, SameCommand
<1>5. CASE proc[p].pc = "import_open"
  <2>1. Counted(p, proc[p].ent) = 0
    BY <1>5 DEF CountOK, NotYet, At
  <2>2. touched[p] = {} => Found(p, proc[p].ent) = InLegacy(proc[p].ent)
    BY <1>5 DEF CountOK, FoundCurrent
  <2>3. AddingUp(p)'
    BY <1>1, <1>5, <2>1, <2>2, CountsTyped DEF AddingUp, SameCommand
  <2> QED
    BY <1>2, <1>3, <2>3 DEF CountOK
<1> QED
  BY <1>4, <1>5

(* A step of an import phase that counts the row in hand. *)
LEMMA CountARow ==
    ASSUME TypeOK, ReportingTypeOK, NEW p \in Procs, CountOK(p), RowCounted(p), SameCommand(p),
           proc[p].pc \in {"import_next", "post"},
           proc'[p].pc \in {"import_next", "post", "upsert"},
           legacy' = legacy, touched'[p] = touched[p], Imports(p),
           NEW k \in Pending(p), ToCount(p)' = Pending(p) \ {k}
    PROVE  CountOK(p)'
<1>1. /\ report'[p].counted = report[p].counted
      /\ \A ent \in EntityType :
            /\ Counted(p, ent)' = Counted(p, ent) + (IF ent = proc[p].ent THEN 1 ELSE 0)
            /\ Found(p, ent)' = Found(p, ent)
  BY DEF RowCounted, OneMoreRow, Counted, Found
<1>2. FoundCurrent(p)'
  BY <1>1, CountsTyped DEF CountOK, FoundCurrent, InLegacy
<1>3. NotYet(p)'
  BY <1>1, CountsTyped DEF CountOK, NotYet, At, EntityType, SameCommand, Imports
<1>4. ToCount(p) = Pending(p)
  BY DEF ToCount, At
<1>5. Cardinality(ToCount(p)') + 1 = Cardinality(ToCount(p)) /\ Cardinality(ToCount(p)') \in Nat
  BY <1>4, OneLess
<1>6. AddingUp(p)'
  BY <1>1, <1>5, CountsTyped DEF CountOK, AddingUp, SameCommand
<1> QED
  BY <1>2, <1>3, <1>6 DEF CountOK

LEMMA CountImport ==
    ASSUME TypeOK, ReportingTypeOK, NEW p \in Procs, CountOK(p), CountsKept(p), Due(p) = {},
           ImportOpen(p) \/ ImportBegin(p) \/ ImportUpsert(p)
    PROVE  CountOK(p)'
<1>1. /\ SameCommand(p) /\ legacy' = legacy /\ touched'[p] = touched[p]
      /\ proc[p].pc \in {"import_open", "import_next", "upsert"}
      /\ proc'[p].pc \in {"import_next", "post"}
  BY ImportOpenDoes, ImportBeginDoes, ImportUpsertDoes DEF Silent, SameRows, At
<1>2. CASE ImportOpen(p)
  <2>1. /\ At(p, "import_open")
        /\ Pending(p)' = {k \in Keys : k \in Rows(proc[p].ent) /\ legacy[k] # Absent}
    BY <1>2, ImportOpenDoes, Selects, Typed
  <2>2. ToCount(p)' = {k \in Rows(proc[p].ent) : legacy[k] # Absent}
    BY <1>1, <2>1, CountsTyped, RowsSplit DEF ToCount, At, EntityType
  <2>3. proc[p].ent \in report[p].counted
    BY <2>1 DEF Due, ImportDue, ValidateDue
  <2>4. InLegacy(proc[p].ent) \in Nat
    <3>1. {k \in Rows(proc[p].ent) : legacy[k] # Absent} \in SUBSET Keys
      BY CountsTyped, RowsSplit DEF EntityType
    <3> QED
      BY <3>1, CountsAreNat DEF InLegacy
  <2> QED
    BY <1>1, <2>1, <2>2, <2>3, <2>4, CountInPhase DEF At, InLegacy
<1>3. CASE ImportBegin(p)
  <2>1. Pending(p)' = Pending(p) /\ At(p, "import_next") /\ proc'[p].pc = "post"
    BY <1>3, ImportBeginDoes, SameCursor
  <2>2. ToCount(p)' = ToCount(p)
    BY <2>1 DEF ToCount, At
  <2> QED
    BY <1>1, <2>1, <2>2, CountInPhase DEF At
<1>4. CASE ImportUpsert(p)
  <2>1. /\ Pending(p)' = Pending(p) \ {proc[p].cur}
        /\ At(p, "upsert") /\ proc'[p].pc = "import_next"
    BY <1>4, ImportUpsertDoes, DropsOne
  <2>2. ToCount(p)' = ToCount(p)
    BY <2>1 DEF ToCount, At
  <2> QED
    BY <1>1, <2>1, <2>2, CountInPhase DEF At
<1> QED
  BY <1>2, <1>3, <1>4

LEMMA CountSkipStep ==
    ASSUME TypeOK, Control, ReportingTypeOK, NEW p \in Procs, CountOK(p), RowCounted(p),
           ImportSkip(p)
    PROVE  CountOK(p)'
<1>1. /\ SameCommand(p) /\ legacy' = legacy /\ touched'[p] = touched[p]
      /\ proc[p].pc = "import_next" /\ proc'[p].pc = "import_next"
  BY ImportSkipDoes DEF Silent, SameRows, At
<1>2. PICK k \in Pending(p) : proc'[p].cursor = Drop(p, k)
  BY ImportSkipDoes
<1>3. ToCount(p)' = Pending(p) \ {k}
  BY <1>1, <1>2, DropsOne DEF ToCount, At
<1>4. Imports(p)
  BY <1>1, CommandOf DEF Control, Imports
<1> QED
  BY <1>1, <1>2, <1>3, <1>4, CountARow

LEMMA CountAnswer ==
    ASSUME TypeOK, Control, ReportingTypeOK, NEW p \in Procs, CountOK(p),
           PostAnswered(p) \/ PostLost(p) \/ PostRefused(p),
           IF proc'[p].pc = "upsert" THEN RowCounted(p) ELSE CountsKept(p)
    PROVE  CountOK(p)'
<1>1. /\ SameCommand(p) /\ legacy' = legacy /\ touched'[p] = touched[p]
      /\ proc[p].pc = "post" /\ proc'[p].pc \in {"post", "upsert"}
      /\ proc'[p].cursor = proc[p].cursor /\ proc'[p].cur = proc[p].cur
  BY PostAnsweredDoes, PostLostDoes, PostRefusedDoes DEF Silent, SameRows, Attempted, At
<1>2. Pending(p)' = Pending(p)
  BY <1>1, SameCursor
<1>3. Imports(p)
  BY <1>1, CommandOf DEF Control, Imports
<1>4. proc[p].cur \in Pending(p)
  BY <1>1, Typed, ValuesAssumption DEF StageOK, Pending
<1>5. CASE proc'[p].pc = "upsert"
  <2>1. ToCount(p)' = Pending(p) \ {proc[p].cur}
    BY <1>1, <1>2, <1>5 DEF ToCount, At
  <2> QED
    BY <1>1, <1>3, <1>4, <1>5, <2>1, CountARow
<1>6. CASE proc'[p].pc = "post"
  <2>1. ToCount(p)' = ToCount(p)
    BY <1>1, <1>2, <1>6 DEF ToCount, At
  <2> QED
    BY <1>1, <1>6, <2>1, CountInPhase
<1> QED
  BY <1>1, <1>5, <1>6

LEMMA CountCheckEnd ==
    ASSUME TypeOK, ReportingTypeOK, NEW p \in Procs, CountOK(p), CountsKept(p), CheckEnd(p)
    PROVE  CountOK(p)'
<1>1. /\ proc'[p].cmd = proc[p].cmd /\ proc'[p].ent = "sale"
      /\ legacy' = legacy /\ touched'[p] = touched[p]
      /\ proc'[p].pc \in {"fail", "refs_open", "import_open", "count"}
      /\ proc'[p].pc = "import_open" => Imports(p) /\ proc[p].ent # "sale"
  BY CheckEndDoes DEF Silent, SameRows
<1>2. /\ report'[p].counted = report[p].counted
      /\ \A ent \in EntityType : /\ Counted(p, ent)' = Counted(p, ent)
                                 /\ Found(p, ent)' = Found(p, ent)
  BY DEF CountsKept, SameCounts, Counted, Found
<1>3. FoundCurrent(p)'
  BY <1>1, <1>2, CountsTyped DEF CountOK, FoundCurrent, InLegacy
<1>4. NotYet(p)'
  BY <1>1, <1>2, CountsTyped DEF CountOK, NotYet, At, EntityType
<1>5. AddingUp(p)'
  BY <1>1 DEF AddingUp
<1> QED
  BY <1>3, <1>4, <1>5 DEF CountOK

(* The steps of the other phases. *)
CountsNoRow(p) ==
    \/ ImportEnd(p) \/ CountLegacy(p) \/ CheckOpen(p) \/ CheckRow(p) \/ CheckRowLost(p)
    \/ CheckItem(p) \/ CheckMark(p) \/ RefsOpen(p) \/ RefsGet(p) \/ RefsGetLost(p) \/ RefsEnd(p)
    \/ RollbackOpen(p) \/ RollbackRead(p) \/ RollbackReadLost(p) \/ DeleteAnswered(p)
    \/ DeleteLost(p) \/ RollbackConfirm(p) \/ RemovalFailed(p) \/ RollbackMark(p)
    \/ SalesDone(p)

LEMMA NoRowDoes ==
    ASSUME TypeOK, Control, NEW p \in Procs, CountsNoRow(p)
    PROVE  /\ legacy' = legacy /\ touched'[p] = touched[p]
           /\ proc'[p].pc \notin {"import_open", "import_next", "post", "upsert"}
           /\ Imports(p)' /\ proc'[p].ent = "user" => Imports(p) /\ proc[p].ent = "user"
<1> USE DEF SameCommand, Silent, SameRows, Imports
<1>1. CASE \/ ImportEnd(p) \/ CountLegacy(p) \/ CheckOpen(p) \/ CheckRowLost(p)
           \/ CheckItem(p) \/ CheckMark(p)
  BY <1>1, ImportEndDoes, CountLegacyDoes, CheckOpenDoes, CheckRowLostDoes, CheckItemDoes,
     CheckMarkDoes
<1>2. CASE CheckRow(p) \/ RefsOpen(p) \/ RefsGet(p) \/ RefsGetLost(p) \/ RefsEnd(p)
  BY <1>2, CheckRowDoes, RefsOpenDoes, RefsGetDoes, RefsGetLostDoes, RefsEndDoes
<1>3. CASE RollbackOpen(p) \/ RollbackRead(p) \/ RollbackReadLost(p) \/ RollbackMark(p)
  BY <1>3, RollbackOpenDoes, RollbackReadDoes, RollbackReadLostDoes, RollbackMarkDoes
<1>4. CASE DeleteAnswered(p) \/ DeleteLost(p) \/ RollbackConfirm(p) \/ RemovalFailed(p)
  BY <1>4, DeleteAnsweredDoes, DeleteLostDoes, RollbackConfirmDoes, RemovalFailedDoes
     DEF Attempted
<1>5. CASE SalesDone(p)
  BY <1>5, SalesDoneDoes, CommandOf DEF Control, At
<1> QED
  BY <1>1, <1>2, <1>3, <1>4, <1>5 DEF CountsNoRow

LEMMA CountAdvance ==
    ASSUME TypeOK, TypeOK', Control, Control', ReportingTypeOK, NEW p \in Procs, CountOK(p),
           Due(p) = {}, RAdvance(p)
    PROVE  CountOK(p)'
<1>1. CASE CountsNoRow(p) /\ CountsKept(p)
  BY <1>1, NoRowDoes, CountOnward
<1>2. CASE Quiet(p)
  <2>1. CountsKept(p)
    BY <1>2, UnchangedCounts DEF Quiet
  <2>2. CASE ImportOpen(p) \/ ImportBegin(p) \/ ImportUpsert(p)
    BY <2>1, <2>2, CountImport
  <2>3. CASE CountsNoRow(p)
    BY <1>1, <2>1, <2>3
  <2> QED
    BY <1>2, <2>2, <2>3 DEF Quiet, CountsNoRow
<1>3. CASE SkipCounted(p)
  BY <1>3, SkipCounts, CountSkipStep DEF SkipCounted
<1>4. CASE AnswerCounted(p)
  <2>1. PostAnswered(p) /\ RowCounted(p) /\ proc'[p].pc = "upsert"
    BY <1>4, AnswerCounts, PostAnsweredDoes DEF AnswerCounted
  <2> QED
    BY <2>1, CountAnswer
<1>5. CASE FailureCounted(p)
  BY <1>5, FailureCounts, CountAnswer DEF FailureCounted
<1>6. CASE ImportPersisted(p)
  BY <1>1, <1>6, UnchangedCounts DEF ImportPersisted, CountsNoRow
<1>7. CASE RowCompared(p)
  BY <1>1, <1>7, RowComparedCounts DEF RowCompared, CountsNoRow
<1>8. CASE CheckCounted(p)
  BY <1>8, CheckCounts, CountCheckEnd DEF CheckCounted
<1>9. CASE RefsCounted(p)
  BY <1>1, <1>9, RefsCounts DEF RefsCounted, CountsNoRow
<1>10. CASE Finalized(p) \/ ValidateEnded(p) \/ RollbackEnded(p)
  <2>1. Afresh(p)
    <3>1. proc[p].cmd = "snapshot" => proc[p].run \in Runs
      BY Typed DEF StageOK
    <3>2. Finalized(p) => Imports(p)
      BY CommandOf DEF Finalized, Finalize, Imports, Control
    <3> QED
      BY <1>10, <3>1, <3>2, StopsCounts
  <2>2. proc'[p] = IdleProcess
    BY <1>10, EndDoes DEF Finalized, ValidateEnded, RollbackEnded
  <2> QED
    BY <2>1, <2>2, CountAfresh DEF IdleProcess, EntityType
<1>11. CASE RollbackReadRecorded(p) \/ RemovalRecorded(p)
  <2>1. CountsKept(p)
    BY <1>11, ReadRecords, RemovalRecords DEF Notes
  <2> QED
    BY <1>1, <1>11, <2>1 DEF RollbackReadRecorded, RemovalRecorded, CountsNoRow
<1> QED
  BY <1>2, <1>3, <1>4, <1>5, <1>6, <1>7, <1>8, <1>9, <1>10, <1>11 DEF RAdvance

LEMMA RAdvanceIsAdvance ==
    ASSUME NEW p \in Procs, RAdvance(p)
    PROVE  Advance(p) \/ Trouble(p)
<1>1. CASE Quiet(p)
  BY <1>1 DEF Quiet, Advance, Trouble, SnapshotStep, SnapshotTrouble, RollbackStep
<1>2. CASE SkipCounted(p) \/ AnswerCounted(p) \/ ImportPersisted(p) \/ RowCompared(p)
           \/ CheckCounted(p) \/ RefsCounted(p) \/ Finalized(p) \/ ValidateEnded(p)
  BY <1>2 DEF SkipCounted, AnswerCounted, ImportPersisted, RowCompared, CheckCounted,
              RefsCounted, Finalized, ValidateEnded, Advance, SnapshotStep
<1>3. CASE FailureCounted(p)
  BY <1>3 DEF FailureCounted, Trouble, SnapshotTrouble
<1>4. CASE RollbackReadRecorded(p) \/ RemovalRecorded(p) \/ RollbackEnded(p)
  BY <1>4 DEF RollbackReadRecorded, RemovalRecorded, RollbackEnded, Advance, Trouble,
              RollbackStep, RollbackTrouble
<1> QED
  BY <1>1, <1>2, <1>3, <1>4 DEF RAdvance

(* A step of p says nothing in the name of another process. *)
LEMMA OthersReport ==
    ASSUME TypeOK, TypeOK', Control, ReportingTypeOK, NEW p \in Procs,
           Started(p) \/ RAdvance(p) \/ Aborted(p) \/ Killed(p), NEW q \in Procs, q # p
    PROVE  report'[q] = report[q] /\ proc'[q] = proc[q] /\ Undisturbed(q)
<1>1. report'[q] = report[q]
  <2>1. CASE Started(p)
    BY <2>1, StartedCounts DEF Afresh
  <2>2. CASE RAdvance(p)
    BY <2>2, AdvanceCounts DEF Afresh, CountsKept, RowCounted
  <2>3. CASE Aborted(p) \/ Killed(p)
    <3>1. proc[p].cmd = "snapshot" => proc[p].run \in Runs
      BY Typed DEF StageOK
    <3>2. Finalized(p) => Imports(p)
      BY CommandOf DEF Finalized, Finalize, Imports, Control
    <3> QED
      BY <2>3, <3>1, <3>2, StopsCounts DEF Afresh
  <2> QED
    BY <2>1, <2>2, <2>3
<1>2. Start(p) \/ Advance(p) \/ Trouble(p)
  <2>1. CASE Started(p) \/ Aborted(p) \/ Killed(p)
    BY <2>1 DEF Started, Aborted, Killed, Trouble, SnapshotTrouble
  <2>2. CASE RAdvance(p)
    BY <2>2, RAdvanceIsAdvance
  <2> QED
    BY <2>1, <2>2
<1> QED
  BY <1>1, <1>2, OthersKeep

LEMMA CountStep ==
    ASSUME TypeOK, TypeOK', Control, Control', ReportingTypeOK, CountInv, [RNext]_rvars
    PROVE  CountInv'
<1> SUFFICES ASSUME NEW q \in Procs PROVE CountOK(q)'
  BY DEF CountInv
<1>1. CountOK(q)
  BY DEF CountInv
<1>2. CASE UNCHANGED <<vars, report>>
  <2>1. Undisturbed(q)
    BY <1>2, QuietDisturbs DEF vars, world, history
  <2> QED
    BY <1>1, <1>2, <2>1, CountOther DEF vars
<1>3. CASE Elsewhere /\ UNCHANGED <<report, record, exit>>
  BY <1>1, <1>3, ElsewhereKeeps, CountOther
<1>4. ASSUME NEW p \in Procs, CountFound(p)
      PROVE  CountOK(q)'
  <2>1. CASE p = q
    BY <1>1, <1>4, <2>1, CountFoundStep
  <2>2. CASE p # q
    <3>1. UNCHANGED vars /\ report'[q] = report[q]
      BY <1>4, <2>2, FoundCounts
    <3>2. Undisturbed(q)
      BY <3>1, QuietDisturbs DEF vars, world, history
    <3> QED
      BY <1>1, <3>1, <3>2, CountOther DEF vars
  <2> QED
    BY <2>1, <2>2
<1>5. ASSUME NEW p \in Procs, Started(p) \/ RAdvance(p) \/ Aborted(p) \/ Killed(p), p # q
      PROVE  CountOK(q)'
  BY <1>1, <1>5, OthersReport, CountOther
<1>6. CASE Started(q)
  <2>1. Afresh(q) /\ Start(q)
    BY <1>6, StartedCounts DEF Started
  <2>2. PICK cmd, r, ent, stage :
          /\ Begin(q, cmd, r, ent, stage)
          /\ stage \in {"import_open", "count", "rb_open"} /\ ent \in EntityType
    BY <2>1, StartDoes DEF EntityType
  <2> QED
    BY <2>1, <2>2, BeginDoes, CountAfresh
<1>7. CASE Aborted(q) \/ Killed(q)
  <2>1. Afresh(q)
    <3>1. proc[q].cmd = "snapshot" => proc[q].run \in Runs
      BY Typed DEF StageOK
    <3>2. Finalized(q) => Imports(q)
      BY CommandOf DEF Finalized, Finalize, Imports, Control
    <3> QED
      BY <1>7, <3>1, <3>2, StopsCounts
  <2>2. proc'[q] = IdleProcess
    BY <1>7, EndDoes DEF Aborted, Killed
  <2> QED
    BY <2>1, <2>2, CountAfresh DEF IdleProcess, EntityType
<1>8. CASE Due(q) = {} /\ RAdvance(q)
  BY <1>1, <1>8, CountAdvance
<1>9. ASSUME NEW p \in Procs, TurnedAway(p)
      PROVE  CountOK(q)'
  BY <1>2, <1>9 DEF TurnedAway
<1> QED
  BY <1>2, <1>3, <1>4, <1>5, <1>6, <1>7, <1>8, <1>9 DEF RNext, rvars

LEMMA CountInit == RInit => CountInv
<1> SUFFICES ASSUME RInit, NEW p \in Procs PROVE CountOK(p)
  BY DEF CountInv
<1>1. report[p] = NewReport(FALSE) /\ proc[p] = IdleProcess
  BY DEF RInit, Init
<1>2. report[p].counted = {} /\ proc[p].pc = "idle" /\ proc[p].cmd = "idle"
  BY <1>1 DEF NewReport, IdleProcess
<1> QED
  BY <1>2 DEF CountOK, FoundCurrent, NotYet, AddingUp, At, Imports

(* migration.py:213-251: a row is counted once whether it is skipped, answered or
   given up on, by any number of commands at once: at the end of a phase the outcomes
   add up to the rows found in it, unless the monolith wrote in between. *)
THEOREM OutcomesAddUpHolds == RSpec => []OutcomesAddUp
<1> DEFINE Known == TypeOK /\ Control /\ ReportingTypeOK
<1>1. RSpec => []Known
  BY ControlAlways, ReportingTypes, ReportingObserves, PTL
<1>2. Known /\ Known' /\ CountInv /\ [RNext]_rvars => CountInv'
  BY CountStep
<1>3. Known /\ CountInv => OutcomesAddUp
  BY CountImplies
<1> HIDE DEF Known
<1> QED
  BY <1>1, <1>2, <1>3, CountInit, PTL DEF RSpec

(***************************************************************************)
(* Every item of a rollback has one outcome.                               *)
(***************************************************************************)
AllUndone(p) ==
    LET undone == report[p].undone IN
    undone["deleted"] + undone["already_absent"] + undone["conflict"] + undone["failed"]
        + undone["would_delete"]
OwnedRows(r, ent) == {k \in Rows(ent) : items[r][k].action = "created"}
(* The items of the sale phase, once it is done. *)
SalesOwned(p) == IF proc[p].ent = "user" THEN WithAction(proc[p].run, "sale", "created") ELSE 0
(* The row in hand has no outcome yet. *)
InHand(p) == IF proc[p].pc \in {"delete", "confirm"} THEN 1 ELSE 0

AccountOK(p) ==
    /\ At(p, "rb_open") => AllUndone(p) = SalesOwned(p)
    /\ proc[p].pc \in Undoing =>
           AllUndone(p) + Cardinality(Pending(p)) + InHand(p)
               = SalesOwned(p) + WithAction(proc[p].run, proc[p].ent, "created")
AccountInv == \A p \in Procs : AccountOK(p)

LEMMA OneMoreUndone ==
    ASSUME ReportingTypeOK, NEW p \in Procs
    PROVE  /\ AllUndone(p) \in Nat
           /\ \A outcome \in RollbackOutcome \union {"none"} :
                Notes(p, outcome) =>
                    AllUndone(p)' = AllUndone(p) + (IF outcome = "none" THEN 0 ELSE 1)
<1>1. report[p].undone \in [RollbackOutcome -> Nat]
  BY ReportTyped, ReportFields
<1>2. AllUndone(p) \in Nat
  BY <1>1 DEF AllUndone, RollbackOutcome
<1>3. ASSUME Notes(p, "none") PROVE AllUndone(p)' = AllUndone(p)
  BY <1>3 DEF Notes, AllUndone
<1>4. ASSUME NEW outcome \in RollbackOutcome, Notes(p, outcome)
      PROVE  AllUndone(p)' = AllUndone(p) + 1
  <2>1. report'[p].undone = [report[p].undone EXCEPT ![outcome] = @ + 1]
    BY <1>4 DEF Notes, RollbackOutcome
  <2>2. CASE outcome = "deleted"
    BY <1>1, <2>1, <2>2 DEF AllUndone, RollbackOutcome
  <2>3. CASE outcome = "already_absent"
    BY <1>1, <2>1, <2>3 DEF AllUndone, RollbackOutcome
  <2>4. CASE outcome = "conflict"
    BY <1>1, <2>1, <2>4 DEF AllUndone, RollbackOutcome
  <2>5. CASE outcome = "failed"
    BY <1>1, <2>1, <2>5 DEF AllUndone, RollbackOutcome
  <2>6. CASE outcome = "would_delete"
    BY <1>1, <2>1, <2>6 DEF AllUndone, RollbackOutcome
  <2> QED
    BY <2>2, <2>3, <2>4, <2>5, <2>6 DEF RollbackOutcome
<1>5. "none" \notin RollbackOutcome
  BY DEF RollbackOutcome
<1> QED
  BY <1>2, <1>3, <1>4, <1>5

LEMMA OwnedAreNat ==
    ASSUME TypeOK, NEW r \in Runs, NEW ent \in EntityType
    PROVE  WithAction(r, ent, "created") \in Nat /\ OwnedRows(r, ent) \in SUBSET Keys
<1>1. OwnedRows(r, ent) \in SUBSET Keys
  BY RowsSplit DEF OwnedRows, EntityType
<1> QED
  BY <1>1, CountsAreNat DEF WithAction, OwnedRows

(* The run owns the same items before and after a step that sends nothing. *)
LEMMA SameOwned ==
    ASSUME TypeOK, NEW p \in Procs, proc'[p].run = proc[p].run, proc[p].run \in Runs,
           \A k \in Keys : items'[proc[p].run][k].action = items[proc[p].run][k].action
    PROVE  \A ent \in EntityType :
             WithAction(proc[p].run, ent, "created")' = WithAction(proc[p].run, ent, "created")
<1>1. ASSUME NEW ent \in EntityType
      PROVE  WithAction(proc[p].run, ent, "created")' = WithAction(proc[p].run, ent, "created")
  <2>1. \A k \in Rows(ent) : k \in Keys
    BY RowsSplit DEF EntityType
  <2>2. {k \in Rows(ent) : items'[proc[p].run][k].action = "created"}
            = {k \in Rows(ent) : items[proc[p].run][k].action = "created"}
    BY <2>1
  <2> QED
    BY <2>2 DEF WithAction
<1> QED
  BY <1>1

LEMMA AccountIdle ==
    ASSUME NEW p \in Procs, proc'[p].pc \notin Undoing \union {"rb_open"}
    PROVE  AccountOK(p)'
BY DEF AccountOK, At

(* A step of a rollback inside a phase: what it notes, takes and keeps in hand. *)
LEMMA AccountInPhase ==
    ASSUME TypeOK, ReportingTypeOK, NEW p \in Procs, AccountOK(p), SameCommand(p),
           proc[p].run \in Runs,
           \A k \in Keys : items'[proc[p].run][k].action = items[proc[p].run][k].action,
           proc[p].pc \in Undoing, proc'[p].pc \in Undoing,
           NEW outcome \in RollbackOutcome \union {"none"}, Notes(p, outcome),
           Cardinality(Pending(p)') \in Nat, Cardinality(Pending(p)) \in Nat,
           (IF outcome = "none" THEN 0 ELSE 1) + Cardinality(Pending(p)') + InHand(p)'
               = Cardinality(Pending(p)) + InHand(p)
    PROVE  AccountOK(p)'
<1>1. AllUndone(p)' = AllUndone(p) + (IF outcome = "none" THEN 0 ELSE 1) /\ AllUndone(p) \in Nat
  BY OneMoreUndone
<1>2. proc[p].ent \in EntityType
  BY Typed DEF Process
<1>3. /\ WithAction(proc[p].run, proc[p].ent, "created")'
             = WithAction(proc[p].run, proc[p].ent, "created")
      /\ SalesOwned(p)' = SalesOwned(p)
      /\ SalesOwned(p) \in Nat /\ WithAction(proc[p].run, proc[p].ent, "created") \in Nat
  BY <1>2, SameOwned, OwnedAreNat DEF SameCommand, SalesOwned, EntityType
<1>4. InHand(p) \in Nat /\ InHand(p)' \in Nat
  BY DEF InHand
<1>5. AllUndone(p) + Cardinality(Pending(p)) + InHand(p)
          = SalesOwned(p) + WithAction(proc[p].run, proc[p].ent, "created")
  BY DEF AccountOK
<1>6. AllUndone(p)' + Cardinality(Pending(p)') + InHand(p)'
          = SalesOwned(p) + WithAction(proc[p].run, proc[p].ent, "created")
  BY <1>1, <1>3, <1>4, <1>5
<1>7. ~ At(p, "rb_open")'
  BY DEF At, Undoing
<1> QED
  BY <1>3, <1>6, <1>7 DEF AccountOK, SameCommand

LEMMA PendingIsNat ==
    ASSUME TypeOK, NEW p \in Procs
    PROVE  Cardinality(Pending(p)) \in Nat
BY CountsAreNat DEF Pending

LEMMA QuietNotes ==
    ASSUME ReportingTypeOK, NEW p \in Procs, Quiet(p)
    PROVE  Notes(p, "none")
BY UnchangedCounts DEF Quiet, Notes

(* The run of a rollback, and the actions of its items while it runs. *)
LEMMA RollbackKeepsActions ==
    ASSUME TypeOK, NEW p \in Procs, Advance(p) \/ Trouble(p), proc[p].cmd \in {"rollback", "dry"}
    PROVE  /\ proc[p].run \in Runs
           /\ \A k \in Keys : items'[proc[p].run][k].action = items[proc[p].run][k].action
<1>1. proc[p].run \in Runs /\ ~ ImportUpsert(p)
  BY Typed DEF StageOK, ImportUpsert, At
<1> QED
  BY <1>1, ActionsKept

LEMMA AccountOpen ==
    ASSUME TypeOK, Control, ReportingTypeOK, NEW p \in Procs, AccountOK(p), Quiet(p),
           RollbackOpen(p) \/ SalesDone(p)
    PROVE  AccountOK(p)'
<1>1. report' = report /\ items' = items
  BY RollbackOpenDoes, SalesDoneDoes DEF Quiet
<1>2. AllUndone(p)' = AllUndone(p) /\ AllUndone(p) \in Nat
  BY <1>1, OneMoreUndone DEF AllUndone
<1>3. proc[p].run \in Runs /\ proc'[p].run = proc[p].run /\ proc[p].ent \in EntityType
  BY CommandOf, Typed, RollbackOpenDoes, SalesDoneDoes
     DEF Control, StageOK, At, SameCommand, Process
<1>4. \A r, ent : WithAction(r, ent, "created")' = WithAction(r, ent, "created")
  BY <1>1 DEF WithAction
<1>5. \A ent \in EntityType : WithAction(proc[p].run, ent, "created") \in Nat
  BY <1>3, OwnedAreNat
<1>6. CASE RollbackOpen(p)
  <2>1. /\ At(p, "rb_open") /\ proc'[p].pc = "rb_next" /\ proc'[p].ent = proc[p].ent
        /\ proc'[p].cursor = Select(proc[p].ent, CreatedItems(proc[p].run))
    BY <1>6, RollbackOpenDoes DEF SameCommand
  <2>2. \A k \in Keys : items[proc[p].run][k] \in Item
    BY <1>3, Typed
  <2>3. \A k \in Keys : items[proc[p].run][k].action = "created"
                            => items[proc[p].run][k].payload \in Values
    BY <2>2 DEF Item, NoItem
  <2>4. Pending(p)' = {k \in Keys : k \in Rows(proc[p].ent)
                                   /\ items[proc[p].run][k].action = "created"}
    BY <2>1, <2>3, ValuesAssumption DEF Pending, Select, CreatedItems
  <2>5. Pending(p)' = {k \in Rows(proc[p].ent) : items[proc[p].run][k].action = "created"}
    BY <2>4, <1>3, RowsSplit DEF EntityType
  <2>6. Cardinality(Pending(p)') = WithAction(proc[p].run, proc[p].ent, "created")
    BY <2>5 DEF WithAction
  <2>7. InHand(p)' = 0 /\ SalesOwned(p)' = SalesOwned(p) /\ SalesOwned(p) \in Nat
    BY <1>3, <1>4, <1>5, <2>1 DEF InHand, SalesOwned, EntityType
  <2>8. AllUndone(p) = SalesOwned(p)
    BY <2>1 DEF AccountOK
  <2>9. AllUndone(p)' + Cardinality(Pending(p)') + InHand(p)'
            = SalesOwned(p)' + WithAction(proc[p].run, proc[p].ent, "created")
    BY <1>2, <1>3, <1>5, <2>6, <2>7, <2>8
  <2> QED
    BY <1>3, <1>4, <2>1, <2>9 DEF AccountOK, At
<1>7. CASE SalesDone(p)
  <2>1. /\ At(p, "rb_next") /\ proc'[p].pc = "rb_open" /\ proc[p].ent = "sale"
        /\ proc'[p].ent = "user" /\ Pending(p) = {}
    BY <1>7, SalesDoneDoes
  <2>2. Cardinality(Pending(p)) = 0
    BY <2>1, FS_EmptySet
  <2>3. InHand(p) = 0 /\ SalesOwned(p) = 0
    BY <2>1 DEF InHand, SalesOwned, At
  <2>4. AllUndone(p) = WithAction(proc[p].run, "sale", "created")
    BY <1>2, <1>5, <2>1, <2>2, <2>3 DEF AccountOK, At, Undoing, EntityType
  <2>5. AllUndone(p)' = SalesOwned(p)'
    BY <1>2, <1>3, <1>4, <2>1, <2>4 DEF SalesOwned
  <2> QED
    BY <2>1, <2>5 DEF AccountOK, Undoing
<1> QED
  BY <1>6, <1>7

LEMMA AccountRead ==
    ASSUME TypeOK, Control, ReportingTypeOK, NEW p \in Procs, AccountOK(p),
           RollbackReadRecorded(p)
    PROVE  AccountOK(p)'
<1>1. PICK k \in Keys : IsNext(p, k) /\ Notes(p, ReadOutcome(p, k))
  BY ReadRecords
<1>2. PICK j \in Pending(p) :
        /\ IsNext(p, j) /\ proc'[p].cursor = Drop(p, j)
        /\ proc'[p].pc = IF Decision(p, j) # "none" \/ Dry(p) THEN "rb_mark" ELSE "delete"
  BY RollbackReadDoes DEF RollbackReadRecorded
<1>3. k = j
  <2>1. k \in Nat /\ j \in Nat /\ k <= j /\ j <= k
    BY <1>1, <1>2, KeysAssumption DEF IsNext, Keys, Pending
  <2> QED
    BY <2>1
<1>4. SameCommand(p) /\ At(p, "rb_next") /\ Advance(p)
  BY RollbackReadDoes DEF RollbackReadRecorded, Advance, RollbackStep
<1>5. proc[p].cmd \in {"rollback", "dry"}
  BY <1>4, Typed DEF StageOK, At
<1> DEFINE outcome == ReadOutcome(p, j)
<1>6. /\ outcome \in RollbackOutcome \union {"none"}
      /\ outcome = "none" <=> Decision(p, j) = "none" /\ ~ Dry(p)
  BY DEF ReadOutcome, Decision, RollbackOutcome
<1>7. Notes(p, outcome)
  BY <1>1, <1>3
<1>8. (IF outcome = "none" THEN 0 ELSE 1) + InHand(p)' = 1 /\ InHand(p) = 0
      /\ InHand(p)' \in Nat
  BY <1>2, <1>4, <1>6 DEF InHand, At
<1> HIDE DEF outcome
<1>9. /\ Cardinality(Pending(p)') + 1 = Cardinality(Pending(p))
      /\ Cardinality(Pending(p)') \in Nat /\ Cardinality(Pending(p)) \in Nat
  BY <1>2, OneLess, DropsOne
<1>10. proc[p].pc \in Undoing /\ proc'[p].pc \in Undoing
  BY <1>2, <1>4 DEF At, Undoing
<1>11. (IF outcome = "none" THEN 0 ELSE 1) + Cardinality(Pending(p)') + InHand(p)'
           = Cardinality(Pending(p)) + InHand(p)
  BY <1>8, <1>9
<1> QED
  BY <1>4, <1>5, <1>6, <1>7, <1>9, <1>10, <1>11, AccountInPhase, RollbackKeepsActions

LEMMA AccountRemoval ==
    ASSUME TypeOK, Control, ReportingTypeOK, NEW p \in Procs, AccountOK(p), RemovalRecorded(p)
    PROVE  AccountOK(p)'
<1> DEFINE outcome == IF proc'[p].pc # "rb_mark" THEN "none"
                      ELSE IF proc'[p].ans = "rolled_back" THEN "deleted" ELSE "failed"
<1>1. Notes(p, outcome)
  BY RemovalRecords
<1>2. /\ outcome \in RollbackOutcome \union {"none"}
      /\ outcome = "none" <=> proc'[p].pc # "rb_mark"
  BY DEF RollbackOutcome
<1> HIDE DEF outcome
<1>3. Advance(p) \/ Trouble(p)
  BY DEF RemovalRecorded, Advance, Trouble, RollbackStep, RollbackTrouble
<1>4. /\ SameCommand(p) /\ proc[p].pc \in {"rb_next", "delete", "confirm"}
      /\ proc'[p].pc \in {"rb_mark", "delete"}
      /\ proc[p].pc = "rb_next" => RollbackReadLost(p)
      /\ proc[p].pc # "rb_next" => proc'[p].cursor = proc[p].cursor
      /\ proc'[p].pc = "delete" => proc[p].pc = "delete"
  BY RollbackConfirmDoes, DeleteLostDoes, RemovalFailedDoes, RollbackReadLostDoes
     DEF RemovalRecorded, At
<1>5. proc[p].cmd \in {"rollback", "dry"} /\ proc[p].pc \in Undoing /\ proc'[p].pc \in Undoing
  BY <1>4, Typed DEF StageOK, Undoing
<1>6. CASE proc[p].pc = "rb_next"
  <2>1. PICK k \in Pending(p) : proc'[p].cursor = Drop(p, k) /\ proc'[p].pc = "rb_mark"
    BY <1>4, <1>6, RollbackReadLostDoes
  <2>2. /\ Cardinality(Pending(p)') + 1 = Cardinality(Pending(p))
        /\ Cardinality(Pending(p)') \in Nat /\ Cardinality(Pending(p)) \in Nat
    BY <2>1, OneLess, DropsOne
  <2>3. InHand(p) = 0 /\ InHand(p)' = 0 /\ outcome # "none"
    BY <1>2, <1>6, <2>1 DEF InHand
  <2>4. (IF outcome = "none" THEN 0 ELSE 1) + Cardinality(Pending(p)') + InHand(p)'
            = Cardinality(Pending(p)) + InHand(p)
    BY <2>2, <2>3
  <2> QED
    BY <1>1, <1>2, <1>3, <1>4, <1>5, <2>2, <2>4, AccountInPhase, RollbackKeepsActions
<1>7. CASE proc[p].pc # "rb_next"
  <2>1. Pending(p)' = Pending(p) /\ Cardinality(Pending(p)) \in Nat
    BY <1>4, <1>7, SameCursor, PendingIsNat
  <2>2. (IF outcome = "none" THEN 0 ELSE 1) + InHand(p)' = InHand(p)
    BY <1>2, <1>4, <1>7 DEF InHand
  <2>3. (IF outcome = "none" THEN 0 ELSE 1) + Cardinality(Pending(p)') + InHand(p)'
            = Cardinality(Pending(p)) + InHand(p)
    BY <2>1, <2>2 DEF InHand
  <2> QED
    BY <1>1, <1>2, <1>3, <1>4, <1>5, <2>1, <2>3, AccountInPhase, RollbackKeepsActions
<1> QED
  BY <1>6, <1>7

LEMMA AccountQuiet ==
    ASSUME TypeOK, Control, ReportingTypeOK, NEW p \in Procs, AccountOK(p), Quiet(p),
           DeleteAnswered(p) \/ RollbackMark(p)
    PROVE  AccountOK(p)'
<1>1. Notes(p, "none") /\ Advance(p)
  BY QuietNotes DEF Advance, RollbackStep
<1>2. /\ SameCommand(p) /\ proc'[p].cursor = proc[p].cursor
      /\ \/ proc[p].pc = "delete" /\ proc'[p].pc = "confirm"
         \/ proc[p].pc = "rb_mark" /\ proc'[p].pc = "rb_next"
  BY DeleteAnsweredDoes, RollbackMarkDoes DEF At
<1>3. proc[p].cmd \in {"rollback", "dry"} /\ proc[p].pc \in Undoing /\ proc'[p].pc \in Undoing
  BY <1>2, Typed DEF StageOK, Undoing
<1>4. /\ Pending(p)' = Pending(p) /\ Cardinality(Pending(p)) \in Nat /\ InHand(p)' = InHand(p)
      /\ InHand(p) \in Nat
  BY <1>2, SameCursor, PendingIsNat DEF InHand
<1>5. (IF "none" = "none" THEN 0 ELSE 1) + Cardinality(Pending(p)') + InHand(p)'
          = Cardinality(Pending(p)) + InHand(p)
  BY <1>4
<1> QED
  BY <1>1, <1>2, <1>3, <1>4, <1>5, AccountInPhase, RollbackKeepsActions

LEMMA AccountAdvance ==
    ASSUME TypeOK, Control, ReportingTypeOK, NEW p \in Procs, AccountOK(p), RAdvance(p)
    PROVE  AccountOK(p)'
<1> DEFINE Idle == proc'[p].pc \notin Undoing \union {"rb_open"}
<1>1. CASE RollbackReadRecorded(p) \/ RemovalRecorded(p)
  BY <1>1, AccountRead, AccountRemoval
<1>2. CASE Quiet(p) /\ (RollbackOpen(p) \/ SalesDone(p) \/ DeleteAnswered(p) \/ RollbackMark(p))
  BY <1>2, AccountOpen, AccountQuiet
<1>3. ASSUME \/ ImportOpen(p) \/ ImportSkip(p) \/ ImportBegin(p) \/ PostAnswered(p) \/ PostLost(p)
             \/ PostRefused(p) \/ ImportUpsert(p) \/ ImportEnd(p)
      PROVE  Idle
  BY <1>3, ImportStepDoes, ImportEndDoes DEF Undoing
<1>4. ASSUME \/ CountLegacy(p) \/ CheckOpen(p) \/ CheckRow(p) \/ CheckRowLost(p)
             \/ CheckItem(p) \/ CheckMark(p) \/ CheckEnd(p)
      PROVE  Idle
  BY <1>4, CountLegacyDoes, CheckOpenDoes, CheckRowDoes, CheckRowLostDoes, CheckItemDoes,
     CheckMarkDoes,
     CheckEndDoes DEF Undoing
<1>5. ASSUME RefsOpen(p) \/ RefsGet(p) \/ RefsGetLost(p) \/ RefsEnd(p)
      PROVE  Idle
  BY <1>5, RefsOpenDoes, RefsGetDoes, RefsGetLostDoes, RefsEndDoes DEF Undoing
<1>6. ASSUME Finalize(p) \/ Report(p) \/ RollbackEnd(p)
      PROVE  Idle
  BY <1>6, EndDoes DEF IdleProcess, Undoing
<1>7. CASE Quiet(p)
  BY <1>2, <1>3, <1>4, <1>5, <1>7, AccountIdle DEF Quiet
<1>8. CASE SkipCounted(p) \/ AnswerCounted(p) \/ FailureCounted(p) \/ ImportPersisted(p)
  BY <1>3, <1>8, AccountIdle DEF SkipCounted, AnswerCounted, FailureCounted, ImportPersisted
<1>9. CASE RowCompared(p) \/ CheckCounted(p) \/ RefsCounted(p)
  BY <1>4, <1>5, <1>9, AccountIdle DEF RowCompared, CheckCounted, RefsCounted
<1>10. CASE Finalized(p) \/ ValidateEnded(p) \/ RollbackEnded(p)
  BY <1>6, <1>10, AccountIdle DEF Finalized, ValidateEnded, RollbackEnded
<1> QED
  BY <1>1, <1>7, <1>8, <1>9, <1>10 DEF RAdvance

LEMMA AccountStarted ==
    ASSUME TypeOK, ReportingTypeOK, NEW p \in Procs, Started(p)
    PROVE  AccountOK(p)'
<1>1. PICK cmd, r, ent, stage :
        /\ Begin(p, cmd, r, ent, stage)
        /\ \/ stage \in {"import_open", "count"}
           \/ stage = "rb_open" /\ ent = "sale"
  BY StartDoes DEF Started
<1>2. proc'[p].pc = stage /\ proc'[p].ent = ent
  BY <1>1, BeginDoes
<1>3. CASE stage = "rb_open" /\ ent = "sale"
  <2>1. PICK b \in BOOLEAN : report'[p] = NewReport(b)
    BY StartedCounts DEF Afresh
  <2>2. AllUndone(p)' = 0
    BY <2>1 DEF AllUndone, NewReport, RollbackOutcome
  <2> QED
    BY <1>2, <1>3, <2>2 DEF AccountOK, SalesOwned, Undoing
<1> QED
  BY <1>1, <1>2, <1>3, AccountIdle DEF Undoing

LEMMA AccountUnchanged ==
    ASSUME NEW p \in Procs, AccountOK(p), UNCHANGED <<proc, items, report>>
    PROVE  AccountOK(p)'
<1>1. /\ AllUndone(p)' = AllUndone(p) /\ SalesOwned(p)' = SalesOwned(p)
      /\ Pending(p)' = Pending(p) /\ InHand(p)' = InHand(p)
      /\ \A r, ent : WithAction(r, ent, "created")' = WithAction(r, ent, "created")
  BY DEF AllUndone, SalesOwned, Pending, InHand, WithAction
<1> QED
  BY <1>1 DEF AccountOK, At

LEMMA AccountStep ==
    ASSUME OneCommand, TypeOK, Control, ReportingTypeOK, AccountInv, [RNext]_rvars
    PROVE  AccountInv'
<1> SUFFICES ASSUME NEW p \in Procs PROVE AccountOK(p)'
  BY DEF AccountInv
<1>1. AccountOK(p) /\ \A q \in Procs : q = p
  BY DEF AccountInv, OneCommand
<1>2. CASE UNCHANGED <<vars, report>>
  BY <1>1, <1>2, AccountUnchanged DEF vars, store
<1>3. CASE Elsewhere /\ UNCHANGED <<report, record, exit>>
  BY <1>1, <1>3, ElsewhereKeeps, AccountUnchanged
<1>4. CASE CountFound(p)
  <2>1. UNCHANGED vars /\ Due(p) # {}
    BY <1>4, FoundCounts
  <2>2. proc'[p].pc \in {"import_open", "count"}
    BY <2>1 DEF Due, ImportDue, ValidateDue, At, vars
  <2> QED
    BY <2>2, AccountIdle DEF Undoing
<1>5. CASE Started(p)
  BY <1>5, AccountStarted
<1>6. CASE RAdvance(p)
  BY <1>1, <1>6, AccountAdvance
<1>7. CASE Aborted(p) \/ Killed(p)
  <2>1. proc'[p] = IdleProcess
    BY <1>7, EndDoes DEF Aborted, Killed
  <2>2. proc'[p].pc = "idle"
    BY <2>1 DEF IdleProcess
  <2> QED
    BY <2>2, AccountIdle DEF Undoing
<1>8. CASE TurnedAway(p)
  BY <1>2, <1>8 DEF TurnedAway
<1> QED
  BY <1>1, <1>2, <1>3, <1>4, <1>5, <1>6, <1>7, <1>8 DEF RNext, rvars

LEMMA AccountImplies ==
    ASSUME TypeOK, ReportingTypeOK, AccountInv
    PROVE  RollbackAccounts
<1> SUFFICES ASSUME NEW p \in Procs, At(p, "rb_next"), Pending(p) = {}
             PROVE  AllUndone(p) = WithAction(proc[p].run, "sale", "created")
                        + (IF proc[p].ent = "user"
                           THEN WithAction(proc[p].run, "user", "created") ELSE 0)
  BY DEF RollbackAccounts, AllUndone
<1>1. Cardinality(Pending(p)) = 0 /\ InHand(p) = 0 /\ AllUndone(p) \in Nat
  BY FS_EmptySet, OneMoreUndone DEF InHand, At
<1>2. proc[p].run \in Runs /\ proc[p].ent \in {"user", "sale"}
  BY Typed DEF StageOK, At, Process, EntityType
<1>3. \A ent \in EntityType : WithAction(proc[p].run, ent, "created") \in Nat
  BY <1>2, OwnedAreNat
<1>4. AllUndone(p) + Cardinality(Pending(p)) + InHand(p)
          = SalesOwned(p) + WithAction(proc[p].run, proc[p].ent, "created")
  BY DEF AccountInv, AccountOK, At, Undoing
<1>5. AllUndone(p) = SalesOwned(p) + WithAction(proc[p].run, proc[p].ent, "created")
  BY <1>1, <1>4
<1>6. CASE proc[p].ent = "user"
  BY <1>5, <1>6 DEF SalesOwned
<1>7. CASE proc[p].ent = "sale"
  <2>1. WithAction(proc[p].run, "sale", "created") \in Nat
    BY <1>3 DEF EntityType
  <2> QED
    BY <1>5, <1>7, <2>1 DEF SalesOwned
<1> QED
  BY <1>2, <1>6, <1>7

(* models.py:170: whatever became of the requests of a rollback, each item its run
   created has one outcome when a phase ends, those of the sales when users begin. *)
THEOREM RollbackAccountsHolds == OneCommand => (RSpec => []RollbackAccounts)
<1> SUFFICES ASSUME OneCommand PROVE RSpec => []RollbackAccounts
  OBVIOUS
<1> DEFINE Known == TypeOK /\ Control /\ ReportingTypeOK
<1>1. RSpec => []Known
  BY ControlAlways, ReportingTypes, ReportingObserves, PTL
<1>2. RInit => AccountInv
  <2>1. ASSUME RInit PROVE \A p \in Procs : proc[p].pc = "idle"
    BY <2>1 DEF RInit, Init, IdleProcess
  <2> QED
    BY <2>1 DEF AccountInv, AccountOK, At, Undoing
<1>3. Known /\ AccountInv /\ [RNext]_rvars => AccountInv'
  BY AccountStep
<1>4. Known /\ AccountInv => RollbackAccounts
  BY AccountImplies
<1> HIDE DEF Known
<1> QED
  BY <1>1, <1>2, <1>3, <1>4, PTL DEF RSpec

(***************************************************************************)
(* What an exit with 0 says.                                               *)
(***************************************************************************)

(* No running command has exited with 0 yet. *)
StillRunning(p) == ~ At(p, "idle") => exit[p] # "success"
(* A dry run that met something counted a conflict or a failure. *)
DryCounts(p) ==
    Dry(p) /\ proc[p].bad => report[p].undone["conflict"] + report[p].undone["failed"] > 0
ExitOK(p) == StillRunning(p) /\ DryCounts(p)
ExitInv == \A p \in Procs : ExitOK(p)

LEMMA ExitUnchanged ==
    ASSUME NEW p \in Procs, ExitOK(p), proc'[p] = proc[p], report'[p] = report[p],
           exit'[p] = exit[p]
    PROVE  ExitOK(p)'
BY DEF ExitOK, StillRunning, DryCounts, At, Dry

(* A step that is not one of a dry run, and returns nothing. *)
LEMMA ExitOnward ==
    ASSUME NEW p \in Procs, ExitOK(p), exit'[p] = exit[p], ~ At(p, "idle"),
           proc'[p].cmd # "dry"
    PROVE  ExitOK(p)'
BY DEF ExitOK, StillRunning, DryCounts, Dry

(* What a dry run counts grows. *)
LEMMA MoreUndone ==
    ASSUME ReportingTypeOK, NEW p \in Procs, NEW outcome \in RollbackOutcome \union {"none"},
           Notes(p, outcome)
    PROVE  LET met == report[p].undone["conflict"] + report[p].undone["failed"]
               now == report'[p].undone["conflict"] + report'[p].undone["failed"] IN
           /\ met \in Nat /\ now \in Nat /\ now >= met
           /\ outcome \in {"conflict", "failed"} => now > 0
<1>1. report[p].undone \in [RollbackOutcome -> Nat]
  BY ReportTyped, ReportFields
<1>2. "none" \notin RollbackOutcome
  BY DEF RollbackOutcome
<1>3. report[p].undone["conflict"] \in Nat /\ report[p].undone["failed"] \in Nat
  BY <1>1 DEF RollbackOutcome
<1>4. CASE outcome = "none"
  BY <1>3, <1>4 DEF Notes
<1>5. CASE outcome \in RollbackOutcome
  <2>1. report'[p].undone = [report[p].undone EXCEPT ![outcome] = @ + 1]
    BY <1>2, <1>5 DEF Notes
  <2>2. /\ report'[p].undone["conflict"]
               = report[p].undone["conflict"] + (IF outcome = "conflict" THEN 1 ELSE 0)
        /\ report'[p].undone["failed"]
               = report[p].undone["failed"] + (IF outcome = "failed" THEN 1 ELSE 0)
    BY <1>1, <2>1 DEF RollbackOutcome
  <2> QED
    BY <1>3, <2>2
<1> QED
  BY <1>4, <1>5

(* Only the end of a command returns an exit code. *)
LEMMA GoesOn ==
    ASSUME NEW p \in Procs, RAdvance(p),
           ~ (Finalized(p) \/ ValidateEnded(p) \/ RollbackEnded(p))
    PROVE  exit' = exit
BY DEF RAdvance, SkipCounted, AnswerCounted, FailureCounted, ImportPersisted, RowCompared,
       CheckCounted, RefsCounted, RollbackReadRecorded, RemovalRecorded, Quiet

LEMMA ExitRead ==
    ASSUME TypeOK, ReportingTypeOK, NEW p \in Procs, ExitOK(p), RollbackReadRecorded(p)
    PROVE  ExitOK(p)'
<1>1. PICK k \in Keys : IsNext(p, k) /\ Notes(p, ReadOutcome(p, k))
  BY ReadRecords
<1>2. PICK j \in Pending(p) :
        /\ IsNext(p, j)
        /\ proc'[p].bad = (proc[p].bad \/ Decision(p, j) = "rollback_conflict")
  BY RollbackReadDoes DEF RollbackReadRecorded
<1>3. k = j
  <2>1. k \in Nat /\ j \in Nat /\ k <= j /\ j <= k
    BY <1>1, <1>2, KeysAssumption DEF IsNext, Keys, Pending
  <2> QED
    BY <2>1
<1>4. SameCommand(p) /\ At(p, "rb_next") /\ exit'[p] = exit[p]
  BY RollbackReadDoes DEF RollbackReadRecorded
<1> DEFINE outcome == ReadOutcome(p, j)
<1>5. /\ outcome \in RollbackOutcome \union {"none"} /\ Notes(p, outcome)
      /\ Decision(p, j) = "rollback_conflict" => outcome = "conflict"
  BY <1>1, <1>3 DEF ReadOutcome, Decision, RollbackOutcome
<1> HIDE DEF outcome
<1> DEFINE met == report[p].undone["conflict"] + report[p].undone["failed"]
           now == report'[p].undone["conflict"] + report'[p].undone["failed"]
<1>6. met \in Nat /\ now \in Nat /\ now >= met /\ (outcome = "conflict" => now > 0)
  BY <1>5, MoreUndone
<1>7. proc'[p].cmd = "dry" /\ proc[p].bad => met > 0
  BY <1>4 DEF ExitOK, DryCounts, Dry, SameCommand
<1>8. proc'[p].cmd = "dry" /\ proc'[p].bad => now > 0
  <2>1. met > 0 \/ outcome = "conflict" => now > 0
    BY <1>6
  <2>2. proc'[p].bad => proc[p].bad \/ outcome = "conflict"
    BY <1>2, <1>5
  <2> QED
    BY <1>7, <2>1, <2>2
<1>9. exit'[p] # "success"
  BY <1>4 DEF ExitOK, StillRunning, At
<1> QED
  BY <1>8, <1>9 DEF ExitOK, StillRunning, DryCounts, Dry

LEMMA ExitRemoval ==
    ASSUME TypeOK, Control, ReportingTypeOK, NEW p \in Procs, ExitOK(p), RemovalRecorded(p)
    PROVE  ExitOK(p)'
<1>1. exit'[p] = exit[p] /\ SameCommand(p) /\ ~ At(p, "idle")
  BY RollbackConfirmDoes, DeleteLostDoes, RemovalFailedDoes, RollbackReadLostDoes
     DEF RemovalRecorded, At
<1>2. CASE proc'[p].cmd # "dry"
  BY <1>1, <1>2, ExitOnward
<1>3. CASE proc'[p].cmd = "dry"
  <2>1. proc[p].pc \notin {"delete", "confirm"}
    BY <1>1, <1>3, CommandOf DEF SameCommand, Control
  <2>2. proc'[p].pc = "rb_mark" /\ proc'[p].ans = "rollback_failed"
    BY <2>1, RollbackConfirmDoes, DeleteLostDoes, RemovalFailedDoes, RollbackReadLostDoes
       DEF RemovalRecorded, At
  <2>3. Notes(p, "failed")
    BY <2>2, RemovalRecords
  <2>4. report'[p].undone["conflict"] + report'[p].undone["failed"] > 0
    BY <2>3, MoreUndone DEF RollbackOutcome
  <2>5. exit'[p] # "success"
    BY <1>1 DEF ExitOK, StillRunning
  <2> QED
    BY <2>4, <2>5 DEF ExitOK, StillRunning, DryCounts
<1> QED
  BY <1>2, <1>3

LEMMA ExitQuiet ==
    ASSUME TypeOK, NEW p \in Procs, ExitOK(p), Quiet(p),
           RollbackOpen(p) \/ SalesDone(p) \/ DeleteAnswered(p) \/ RollbackMark(p)
    PROVE  ExitOK(p)'
<1>1. /\ proc'[p].cmd = proc[p].cmd /\ proc'[p].bad = proc[p].bad /\ ~ At(p, "idle")
      /\ report' = report /\ exit' = exit
  BY RollbackOpenDoes, SalesDoneDoes, DeleteAnsweredDoes, RollbackMarkDoes
     DEF Quiet, SameCommand, At
<1> QED
  BY <1>1 DEF ExitOK, StillRunning, DryCounts, Dry

(* A command that has ended, or has met nothing yet. *)
LEMMA ExitIdle ==
    ASSUME NEW p \in Procs, proc'[p].cmd # "dry" \/ ~ proc'[p].bad,
           proc'[p].pc = "idle" \/ exit'[p] # "success"
    PROVE  ExitOK(p)'
BY DEF ExitOK, StillRunning, DryCounts, At, Dry

LEMMA ExitStops ==
    ASSUME TypeOK, NEW p \in Procs, Stops(p)
    PROVE  ExitOK(p)'
<1>1. proc'[p] = IdleProcess
  BY EndDoes DEF Stops
<1>2. proc'[p].pc = "idle" /\ ~ proc'[p].bad
  BY <1>1 DEF IdleProcess
<1> QED
  BY <1>2, ExitIdle

(* Work of a snapshot or of validate, never of a rollback. *)
LEMMA NotOfRollback ==
    ASSUME TypeOK, Control, NEW p \in Procs,
           \/ ImportOpen(p) \/ ImportSkip(p) \/ ImportBegin(p) \/ PostAnswered(p) \/ PostLost(p)
           \/ PostRefused(p) \/ ImportUpsert(p) \/ ImportEnd(p)
           \/ CountLegacy(p) \/ CheckOpen(p) \/ CheckRow(p) \/ CheckRowLost(p)
           \/ CheckItem(p) \/ CheckMark(p) \/ CheckEnd(p)
           \/ RefsOpen(p) \/ RefsGet(p) \/ RefsGetLost(p) \/ RefsEnd(p)
    PROVE  proc'[p].cmd # "dry" /\ ~ At(p, "idle")
<1>1. /\ proc[p].pc \in {"import_open", "import_next", "post", "upsert"} \union Verifying
      /\ proc'[p].cmd = proc[p].cmd
  BY ImportStepDoes, ImportEndDoes, CountLegacyDoes, CheckOpenDoes, CheckRowDoes,
     CheckRowLostDoes, CheckItemDoes, CheckMarkDoes, CheckEndDoes, RefsOpenDoes, RefsGetDoes,
     RefsGetLostDoes, RefsEndDoes DEF At, Verifying, SameCommand
<1> QED
  BY <1>1, CommandOf DEF Control, At, Verifying

LEMMA ExitAdvance ==
    ASSUME TypeOK, Control, ReportingTypeOK, NEW p \in Procs, ExitOK(p), RAdvance(p)
    PROVE  ExitOK(p)'
<1>1. CASE RollbackReadRecorded(p) \/ RemovalRecorded(p)
  BY <1>1, ExitRead, ExitRemoval
<1>2. CASE Quiet(p) /\ (RollbackOpen(p) \/ SalesDone(p) \/ DeleteAnswered(p) \/ RollbackMark(p))
  BY <1>2, ExitQuiet
<1>3. CASE Finalized(p) \/ ValidateEnded(p) \/ RollbackEnded(p)
  BY <1>3, ExitStops DEF Finalized, ValidateEnded, RollbackEnded, Stops
<1>4. ASSUME \/ ImportOpen(p) \/ ImportSkip(p) \/ ImportBegin(p) \/ PostAnswered(p) \/ PostLost(p)
             \/ PostRefused(p) \/ ImportUpsert(p) \/ ImportEnd(p)
             \/ CountLegacy(p) \/ CheckOpen(p) \/ CheckRow(p) \/ CheckRowLost(p)
             \/ CheckItem(p) \/ CheckMark(p) \/ CheckEnd(p)
             \/ RefsOpen(p) \/ RefsGet(p) \/ RefsGetLost(p) \/ RefsEnd(p),
             exit' = exit
      PROVE  ExitOK(p)'
  BY <1>4, NotOfRollback, ExitOnward
<1>5. CASE Quiet(p)
  <2>1. exit' = exit
    BY <1>5 DEF Quiet
  <2> QED
    BY <1>2, <1>4, <1>5, <2>1 DEF Quiet
<1>6. CASE SkipCounted(p) \/ AnswerCounted(p) \/ FailureCounted(p) \/ ImportPersisted(p)
  BY <1>4, <1>6 DEF SkipCounted, AnswerCounted, FailureCounted, ImportPersisted
<1>7. CASE RowCompared(p) \/ CheckCounted(p) \/ RefsCounted(p)
  BY <1>4, <1>7 DEF RowCompared, CheckCounted, RefsCounted
<1> QED
  BY <1>1, <1>3, <1>5, <1>6, <1>7 DEF RAdvance

LEMMA ExitStep ==
    ASSUME OneCommand, TypeOK, Control, ReportingTypeOK, ExitInv, [RNext]_rvars
    PROVE  ExitInv'
<1> SUFFICES ASSUME NEW p \in Procs PROVE ExitOK(p)'
  BY DEF ExitInv
<1>1. ExitOK(p) /\ \A q \in Procs : q = p
  BY DEF ExitInv, OneCommand
<1>2. CASE UNCHANGED <<proc, report, exit>>
  BY <1>1, <1>2, ExitUnchanged
<1>3. CASE UNCHANGED rvars
  BY <1>2, <1>3 DEF rvars, vars, store
<1>4. CASE Elsewhere /\ UNCHANGED <<report, record, exit>>
  BY <1>2, <1>4, ElsewhereKeeps
<1>5. CASE CountFound(p)
  <2>1. UNCHANGED vars /\ exit' = exit /\ Due(p) # {}
    BY <1>5, FoundCounts
  <2>2. proc'[p] = proc[p] /\ proc[p].pc \in {"import_open", "count"}
    BY <2>1 DEF Due, ImportDue, ValidateDue, At, vars, store
  <2>3. ~ At(p, "idle") /\ proc'[p].cmd # "dry"
    BY <2>2, CommandOf DEF At, Control, Verifying
  <2> QED
    BY <1>1, <2>1, <2>3, ExitOnward
<1>6. CASE TurnedAway(p)
  <2>1. UNCHANGED vars /\ proc[p].pc = "idle"
    BY <1>6 DEF TurnedAway, At
  <2>2. proc'[p].pc = "idle" /\ proc'[p].cmd # "dry"
    BY <2>1, CommandOf DEF vars, store, Control
  <2> QED
    BY <2>2, ExitIdle
<1>7. CASE Started(p)
  <2>1. PICK cmd, r, ent, stage : Begin(p, cmd, r, ent, stage)
    BY <1>7, StartDoes DEF Started
  <2>2. ~ proc'[p].bad
    BY <2>1, BeginDoes
  <2>3. exit'[p] # "success"
    BY <1>7, ReportTyped DEF Started
  <2> QED
    BY <2>2, <2>3, ExitIdle
<1>8. CASE RAdvance(p)
  BY <1>1, <1>8, ExitAdvance
<1>9. CASE Aborted(p) \/ Killed(p)
  BY <1>9, ExitStops DEF Aborted, Killed, Stops
<1> QED
  BY <1>1, <1>3, <1>4, <1>5, <1>6, <1>7, <1>8, <1>9 DEF RNext

(* The exit code of a running command is that of its end. *)
LEMMA ExitOf ==
    ASSUME TypeOK, Control, ReportingTypeOK, ExitInv, OneCommand, [RNext]_rvars,
           NEW p \in Procs, ~ At(p, "idle"), exit'[p] = "success"
    PROVE  \/ Finalize(p) /\ At(p, "complete")
           \/ Report(p) /\ ~ proc[p].bad
           \/ RollbackEnd(p) /\ RollbackOk(p)
<1>1. exit[p] # "success" /\ \A q \in Procs : q = p
  BY DEF ExitInv, ExitOK, StillRunning, OneCommand
<1>2. exit' # exit
  BY <1>1
<1>3. /\ ~ UNCHANGED rvars /\ ~ CountFound(p)
      /\ ~ (Elsewhere /\ UNCHANGED <<report, record, exit>>)
  BY <1>2 DEF rvars, CountFound
<1>4. ~ Started(p) /\ ~ TurnedAway(p)
  BY ReportTyped DEF Started, TurnedAway, Start, At
<1>5. ~ Aborted(p) /\ ~ Killed(p)
  BY ReportTyped DEF Aborted, Killed, Ends
<1>6. RAdvance(p)
  BY <1>1, <1>3, <1>4, <1>5 DEF RNext
<1>7. Finalized(p) \/ ValidateEnded(p) \/ RollbackEnded(p)
  BY <1>2, <1>6, GoesOn
<1>8. ASSUME NEW code, Ends(p, code) PROVE code = "success"
  BY <1>8, ReportTyped DEF Ends
<1>9. CASE Finalized(p)
  BY <1>8, <1>9 DEF Finalized
<1>10. CASE ValidateEnded(p)
  BY <1>8, <1>10 DEF ValidateEnded
<1>11. CASE RollbackEnded(p)
  BY <1>8, <1>11 DEF RollbackEnded
<1> QED
  BY <1>7, <1>9, <1>10, <1>11

(* What an exit with 0 promises of a row. *)
Promised(p, k) ==
    CASE proc[p].cmd \in {"snapshot", "validate"} -> legacy[k] # Absent => svc[k] = legacy[k]
      [] proc[p].cmd = "rollback" -> Created(p, k) => svc[k] = Absent
      [] proc[p].cmd = "dry" ->
           Created(p, k) /\ report[p].undone["failed"] = 0 =>
               svc[k] \in {items[proc[p].run][k].payload, Absent}

LEMMA PromiseKept ==
    ASSUME TypeOK, Control, ReportingTypeOK, RecordedInv, RollbackInv, VerdictSound, ExitInv,
           OneCommand, [RNext]_rvars, NEW p \in Procs, ~ At(p, "idle"), exit'[p] = "success",
           NEW k \in Settled(p)
    PROVE  Promised(p, k)
<1>1. CASE (Finalize(p) /\ At(p, "complete")) \/ (Report(p) /\ ~ proc[p].bad)
  <2>1. proc[p].pc \in {"complete", "report"} /\ ~ proc[p].bad
    BY <1>1 DEF RecordedInv, RecordedOK, CompleteIsGood, Report, At
  <2>2. proc[p].cmd \in {"snapshot", "validate"}
    BY <2>1, CommandOf DEF Control
  <2>3. legacy[k] # Absent => svc[k] = legacy[k]
    BY <2>1 DEF VerdictSound
  <2> QED
    BY <2>2, <2>3 DEF Promised
<1>2. CASE RollbackEnd(p) /\ RollbackOk(p)
  <2>1. proc[p].cmd \in {"rollback", "dry"}
    BY <1>2, CommandOf DEF Control, RollbackEnd, At
  <2>2. ~ proc[p].bad /\ Created(p, k) => Fine(p, k)
    BY <1>2, <2>1, ResolvedIsFine DEF RollbackInv
  <2>3. CASE proc[p].cmd = "rollback"
    BY <1>2, <2>2, <2>3 DEF Promised, RollbackOk, Dry, Fine
  <2>4. CASE proc[p].cmd = "dry"
    <3>1. report[p].undone["conflict"] = 0
      BY <1>2, <2>4 DEF RollbackOk, Dry
    <3>2. report[p].undone["failed"] = 0 => ~ proc[p].bad
      BY <2>4, <3>1 DEF ExitInv, ExitOK, DryCounts, Dry
    <3> QED
      BY <2>2, <2>4, <3>2 DEF Promised, Fine, Payload
  <2> QED
    BY <2>1, <2>3, <2>4
<1> QED
  BY <1>1, <1>2, ExitOf

(* README.md:95, with one command at a time: a command exits with 0 only when what it
   was asked for is so - for any rows, requests lost and sequence of commands. *)
THEOREM ExitZeroIsTrueHolds == OneCommand => (RSpec => ExitZeroIsTrue)
<1> SUFFICES ASSUME OneCommand PROVE RSpec => ExitZeroIsTrue
  OBVIOUS
<1> DEFINE Known == /\ TypeOK /\ Control /\ ReportingTypeOK /\ RecordedInv /\ RollbackInv
                    /\ VerdictSound
           Promise == \A p \in Procs :
                        ~ At(p, "idle") /\ exit'[p] = "success" =>
                            \A k \in Settled(p) : Promised(p, k)
<1>1. RSpec => []Known
  BY ControlAlways, ReportingTypes, ReportingObserves, RecordedAlways, RollbackAlways,
     VerdictSoundHolds, PTL
<1>2. RInit => ExitInv
  <2>1. ASSUME RInit PROVE \A p \in Procs : proc[p].pc = "idle" /\ proc[p].cmd = "idle"
    BY <2>1 DEF RInit, Init, IdleProcess
  <2> QED
    BY <2>1 DEF ExitInv, ExitOK, StillRunning, DryCounts, At, Dry
<1>3. Known /\ ExitInv /\ [RNext]_rvars => ExitInv'
  BY ExitStep
<1>4. Known /\ ExitInv /\ [RNext]_rvars => Promise
  BY PromiseKept
<1>5. ExitZeroIsTrue <=> [][Promise]_rvars
  BY DEF ExitZeroIsTrue, Promised, Created
<1> HIDE DEF Known, Promise
<1> QED
  BY <1>1, <1>2, <1>3, <1>4, <1>5, PTL DEF RSpec

(***************************************************************************)
(* The report kept with a COMPLETED run, as long as the legacy rows stay.  *)
(***************************************************************************)
InTable(ent) == {k \in Rows(ent) : legacy[k] # Absent}
ActionOf(p, k) == items[proc[p].run][k].action
TallyOf(p, ent) == report[p].stats.tally[ent]

(* The rows of a table that the command has imported or skipped. *)
Imported(p, ent) ==
    IF ent # proc[p].ent THEN (IF ent = "user" THEN InTable(ent) ELSE {})
    ELSE IF At(p, "import_open") THEN {}
    ELSE IF proc[p].pc \in {"import_next", "post", "upsert"} THEN InTable(ent) \ Pending(p)
    ELSE InTable(ent)
ImportedAs(p, ent, action) == {k \in Imported(p, ent) : ActionOf(p, k) = action}
(* The answer in hand is counted and not recorded yet. *)
AnswerInHand(p, ent, action) ==
    IF At(p, "upsert") /\ proc[p].ent = ent /\ proc[p].ans = action THEN 1 ELSE 0

(* The counters are those of the rows imported or skipped, each with the action its
   item has; none of them in conflict or failed, nothing divergent. *)
TalliesMatch(p) ==
    /\ \A ent \in EntityType, action \in ImportAction :
         TallyOf(p, ent)[action]
             = Cardinality(ImportedAs(p, ent, action)) + AnswerInHand(p, ent, action)
    /\ \A ent \in EntityType : \A k \in Imported(p, ent) :
         ActionOf(p, k) \in {"created", "unchanged"}
NothingWrong(p) ==
    /\ report[p].divergences = {} /\ report[p].differing = {}
    /\ report[p].stats.http_failures > 0 => At(p, "upsert") /\ proc[p].ans = "failed"
(* What was counted by a query is what the legacy database holds. *)
QueriesMatch(p) ==
    /\ \A ent \in report[p].counted : TallyOf(p, ent).found = InLegacy(ent)
    /\ ~ At(p, "import_open") => proc[p].ent \in report[p].counted
    /\ proc[p].ent = "sale" => "user" \in report[p].counted
    /\ proc[p].pc \in {"check_open", "check_next", "check_item", "check_mark"} =>
           proc[p].expected = InLegacy(proc[p].ent)
    /\ proc[p].ent = "sale" => TallyOf(p, "user").validated = InLegacy("user")
(* What the report says at the end. *)
EndsMatch(p) ==
    /\ proc[p].pc \in {"refs_open", "refs_next", "complete"} =>
           proc[p].ent = "sale" /\ TallyOf(p, "sale").validated = InLegacy("sale")
    /\ At(p, "complete") =>
           /\ report[p].stats.orphan_sales = 0
           /\ report[p].stats.checked_sales_refs = InLegacy("sale")

Truth(p) == TalliesMatch(p) /\ NothingWrong(p) /\ QueriesMatch(p) /\ EndsMatch(p)
SpeaksTrue(p) == churn = 0 /\ Imports(p) /\ ~ proc[p].bad => Truth(p)
(* Every row a run knows, or is about to send, is a legacy row. *)
ItemsExist == \A r \in Runs, k \in Keys : items[r][k].action # "none" => legacy[k] # Absent
RowsExist(p) ==
    proc[p].pc \in {"import_next", "post", "upsert"} =>
        Pending(p) \subseteq InTable(proc[p].ent)
RecordInv ==
    /\ CompletedReportAgrees
    /\ churn = 0 => ItemsExist
    /\ \A p \in Procs : SpeaksTrue(p) /\ (churn = 0 => RowsExist(p))

(***************************************************************************)
(* What the steps of a snapshot do to its report, field by field.          *)
(***************************************************************************)

(* Only the counters of the answers change, that of one action by one. *)
OneMoreAs(p, action) ==
    /\ \A ent \in EntityType, a \in ImportAction :
         TallyOf(p, ent)'[a]
             = TallyOf(p, ent)[a] + (IF ent = proc[p].ent /\ a = action THEN 1 ELSE 0)
    /\ \A ent \in EntityType : /\ TallyOf(p, ent)'.found = TallyOf(p, ent).found
                               /\ TallyOf(p, ent)'.validated = TallyOf(p, ent).validated
    /\ report'[p].counted = report[p].counted
    /\ report'[p].divergences = report[p].divergences
    /\ report'[p].differing = report[p].differing

LEMMA OneMoreActions ==
    ASSUME NEW tally \in Tally, NEW action \in ImportAction, NEW a \in ImportAction
    PROVE  /\ OneMore(tally, action)[a] = tally[a] + (IF a = action THEN 1 ELSE 0)
           /\ tally[a] \in Nat
<1>1. /\ tally.created \in Nat /\ tally.unchanged \in Nat
      /\ tally.conflict \in Nat /\ tally.failed \in Nat
  BY DEF Tally
<1>2. CASE action = "created"
  BY <1>1, <1>2 DEF OneMore, Tally, ImportAction
<1>3. CASE action = "unchanged"
  BY <1>1, <1>3 DEF OneMore, Tally, ImportAction
<1>4. CASE action = "conflict"
  BY <1>1, <1>4 DEF OneMore, Tally, ImportAction
<1>5. CASE action = "failed"
  BY <1>1, <1>5 DEF OneMore, Tally, ImportAction
<1> QED
  BY <1>2, <1>3, <1>4, <1>5 DEF ImportAction

LEMMA TalliedAs ==
    ASSUME ReportingTypeOK, NEW p \in Procs, proc[p].ent \in EntityType,
           NEW action \in ImportAction, NEW rep \in ProcessReport, Note(p, rep),
           LET one == Tallied(report[p], proc[p].ent, action) IN
           /\ rep.stats.tally = one.stats.tally /\ rep.counted = one.counted
           /\ rep.divergences = one.divergences /\ rep.differing = one.differing
    PROVE  OneMoreAs(p, action)
<1> DEFINE old == report[p]
           one == Tallied(old, proc[p].ent, action)
<1>1. report'[p] = rep /\ old \in ProcessReport
  BY NoteDoes, ReportTyped
<1>2. /\ one.stats.tally[proc[p].ent] = OneMore(old.stats.tally[proc[p].ent], action)
      /\ \A e \in EntityType : e # proc[p].ent => one.stats.tally[e] = old.stats.tally[e]
      /\ one.divergences = old.divergences /\ one.differing = old.differing
      /\ one.counted = old.counted
  BY <1>1, TalliedDoes
<1>3. \A e \in EntityType : old.stats.tally[e] \in Tally
  BY <1>1, ReportFields
<1> HIDE DEF one
<1>4. rep.stats.tally = one.stats.tally /\ rep.counted = one.counted
      /\ rep.divergences = one.divergences /\ rep.differing = one.differing
  BY DEF one
<1> DEFINE mine == old.stats.tally[proc[p].ent]
<1>5. /\ OneMore(mine, action).found = mine.found
      /\ OneMore(mine, action).validated = mine.validated
  BY <1>3, OneMoreOutcome
<1>6. \A e \in EntityType, a \in ImportAction :
         rep.stats.tally[e][a]
             = old.stats.tally[e][a] + (IF e = proc[p].ent /\ a = action THEN 1 ELSE 0)
  <2> SUFFICES ASSUME NEW e \in EntityType, NEW a \in ImportAction
               PROVE  rep.stats.tally[e][a] = old.stats.tally[e][a]
                          + (IF e = proc[p].ent /\ a = action THEN 1 ELSE 0)
    OBVIOUS
  <2>1. old.stats.tally[e][a] \in Nat
    BY <1>3, OneMoreActions
  <2>2. CASE e = proc[p].ent
    <3>1. OneMore(mine, action)[a] = mine[a] + (IF a = action THEN 1 ELSE 0)
      BY <1>3, OneMoreActions
    <3> QED
      BY <1>2, <1>4, <2>2, <3>1
  <2>3. CASE e # proc[p].ent
    BY <1>2, <1>4, <2>1, <2>3
  <2> QED
    BY <2>2, <2>3
<1>7. \A e \in EntityType : /\ rep.stats.tally[e].found = old.stats.tally[e].found
                            /\ rep.stats.tally[e].validated = old.stats.tally[e].validated
  BY <1>2, <1>4, <1>5
<1> QED
  BY <1>1, <1>2, <1>4, <1>6, <1>7 DEF OneMoreAs, TallyOf

LEMMA SkippedAs ==
    ASSUME TypeOK, ReportingTypeOK, NEW p \in Procs, SkipCounted(p)
    PROVE  \E k \in Pending(p) : /\ AlreadyDone(items[proc[p].run][k])
                                 /\ proc'[p].cursor = Drop(p, k)
                                 /\ OneMoreAs(p, ActionOf(p, k))
<1>1. PICK k \in Keys :
         /\ IsNext(p, k)
         /\ Note(p, Skipped(report[p], proc[p].ent, items[proc[p].run][k].action))
  BY DEF SkipCounted
<1>2. PICK j \in Keys : /\ IsNext(p, j) /\ AlreadyDone(items[proc[p].run][j])
                        /\ Step(p, [proc[p] EXCEPT !.cursor = Drop(p, j)])
  BY DEF SkipCounted, ImportSkip
<1>3. j = k
  <2>1. j \in Nat /\ k \in Nat /\ k <= j /\ j <= k
    BY <1>1, <1>2, KeysAssumption DEF IsNext, Keys
  <2> QED
    BY <2>1
<1>4. proc'[p].cursor = Drop(p, k)
  BY <1>2, <1>3, Typed DEF Step, Process
<1>5. ActionOf(p, k) \in ImportAction
  BY <1>2, <1>3 DEF AlreadyDone, ImportAction, ActionOf
<1>6. proc[p].ent \in EntityType /\ report[p] \in ProcessReport
  BY Typed, ReportTyped DEF Process
<1> DEFINE rep == Tallied(report[p], proc[p].ent, ActionOf(p, k))
<1>7. rep \in ProcessReport /\ Note(p, rep)
  BY <1>1, <1>5, <1>6, TalliedDoes DEF Skipped, ActionOf
<1>8. OneMoreAs(p, ActionOf(p, k))
  BY <1>5, <1>6, <1>7, TalliedAs
<1> QED
  BY <1>1, <1>2, <1>3, <1>4, <1>8 DEF IsNext

LEMMA AnsweredAs ==
    ASSUME TypeOK, TypeOK', ReportingTypeOK, NEW p \in Procs, AnswerCounted(p)
    PROVE  OneMoreAs(p, proc'[p].ans)
<1>1. proc'[p].ans \in ImportAction
  BY PostAnsweredDoes DEF AnswerCounted, TypeOK, StageOK
<1>2. proc[p].ent \in EntityType /\ report[p] \in ProcessReport
  BY Typed, ReportTyped DEF Process
<1>3. Tallied(report[p], proc[p].ent, proc'[p].ans) \in ProcessReport
  BY <1>1, <1>2, TalliedDoes
<1> QED
  BY <1>1, <1>2, <1>3, TalliedAs DEF AnswerCounted

LEMMA FailedAs ==
    ASSUME TypeOK, ReportingTypeOK, NEW p \in Procs, FailureCounted(p)
    PROVE  IF proc'[p].pc = "upsert" THEN OneMoreAs(p, "failed") ELSE report'[p] = report[p]
<1>1. proc[p].ent \in EntityType /\ report[p] \in ProcessReport
  BY Typed, ReportTyped DEF Process
<1>2. CASE proc'[p].pc = "upsert"
  <2> DEFINE one == Tallied(report[p], proc[p].ent, "failed")
             stats == [one.stats EXCEPT !.http_failures = @ + 1]
             rep == [one EXCEPT !.stats = stats]
  <2>1. one \in ProcessReport
    BY <1>1, TalliedDoes DEF ImportAction
  <2>2. Note(p, [one EXCEPT !.stats.http_failures = @ + 1])
    BY <1>2 DEF FailureCounted
  <2>3. [one EXCEPT !.stats.http_failures = @ + 1] \in ProcessReport
    BY <2>1, FailedCallCounts
  <2>4. /\ [one EXCEPT !.stats.http_failures = @ + 1].stats.tally = one.stats.tally
        /\ [one EXCEPT !.stats.http_failures = @ + 1].counted = one.counted
        /\ [one EXCEPT !.stats.http_failures = @ + 1].divergences = one.divergences
        /\ [one EXCEPT !.stats.http_failures = @ + 1].differing = one.differing
    <3> HIDE DEF one
    <3> QED
      BY <2>1, ReportFields DEF ProcessReport, MigrationStats
  <2>5. OneMoreAs(p, "failed")
    BY <1>1, <2>2, <2>3, <2>4, TalliedAs DEF ImportAction
  <2> QED
    BY <1>2, <2>5
<1>3. CASE proc'[p].pc # "upsert"
  BY <1>1, <1>3, NoteDoes DEF FailureCounted
<1> QED
  BY <1>2, <1>3

(* The rest of a report, when only a tally or a statistic of it is replaced. *)
SameTallies(p) ==
    \A ent \in EntityType, a \in ImportAction : TallyOf(p, ent)'[a] = TallyOf(p, ent)[a]
SameRest(p) ==
    /\ report'[p].divergences = report[p].divergences
    /\ report'[p].differing = report[p].differing
    /\ report'[p].stats.http_failures = report[p].stats.http_failures

(* The end of a comparison adds the rows that differ to the divergences. *)
Publishes(p) ==
    /\ report'[p].divergences = report[p].divergences \union report[p].differing
    /\ report'[p].differing = {}
    /\ report'[p].stats.http_failures = report[p].stats.http_failures

LEMMA FoundAs ==
    ASSUME TypeOK, ReportingTypeOK, NEW p \in Procs, CountFound(p)
    PROVE  /\ UNCHANGED <<vars, record, exit>> /\ SameTallies(p) /\ SameRest(p)
           /\ report'[p].stats.orphan_sales = report[p].stats.orphan_sales
           /\ report'[p].stats.checked_sales_refs = report[p].stats.checked_sales_refs
           /\ \E ent \in Due(p) :
                /\ report'[p].counted = report[p].counted \union {ent}
                /\ \A e \in EntityType :
                     /\ TallyOf(p, e)'.found = IF e = ent THEN InLegacy(e) ELSE TallyOf(p, e).found
                     /\ TallyOf(p, e)'.validated = TallyOf(p, e).validated
<1>1. PICK ent \in Due(p) :
         Note(p, [report[p] EXCEPT !.stats.tally[ent].found = InLegacy(ent),
                                   !.counted = @ \union {ent}])
  BY DEF CountFound, InLegacy
<1>2. report[p] \in ProcessReport /\ ent \in EntityType
  BY Typed, ReportTyped DEF Process, Due, ImportDue, ValidateDue
<1>3. InLegacy(ent) \in Nat
  <2>1. {k \in Rows(ent) : legacy[k] # Absent} \in SUBSET Keys
    BY <1>2 DEF Rows, Keys
  <2> QED
    BY <2>1, CountsAreNat DEF InLegacy
<1> DEFINE n == InLegacy(ent)
           tally == [report[p].stats.tally[ent] EXCEPT !.found = n]
           rep == WithTally(report[p], ent, tally, report[p].counted \union {ent})
<1>4. /\ tally \in Tally
      /\ [report[p] EXCEPT !.stats.tally[ent].found = n, !.counted = @ \union {ent}] = rep
  BY <1>2, <1>3, FoundTypes
<1>5. /\ tally.found = n /\ tally.validated = report[p].stats.tally[ent].validated
      /\ \A a \in ImportAction : tally[a] = report[p].stats.tally[ent][a]
  BY <1>2, ReportFields DEF Tally, ImportAction
<1>6. report[p].counted \union {ent} \in SUBSET EntityType
  BY <1>2, ReportFields
<1> HIDE DEF tally, n
<1>7. /\ rep \in ProcessReport
      /\ rep.stats.tally[ent] = tally /\ rep.counted = report[p].counted \union {ent}
      /\ \A e \in EntityType : e # ent => rep.stats.tally[e] = report[p].stats.tally[e]
      /\ rep.stats.http_failures = report[p].stats.http_failures
      /\ rep.stats.orphan_sales = report[p].stats.orphan_sales
      /\ rep.stats.checked_sales_refs = report[p].stats.checked_sales_refs
      /\ rep.divergences = report[p].divergences /\ rep.differing = report[p].differing
  BY <1>2, <1>4, <1>6, WithTallyDoes
<1>8. Note(p, rep)
  BY <1>1, <1>4 DEF n
<1> HIDE DEF rep
<1>9. report'[p] = rep
  BY <1>7, <1>8, NoteDoes
<1>10. SameTallies(p) /\ SameRest(p)
  BY <1>2, <1>5, <1>7, <1>9 DEF SameTallies, SameRest, TallyOf
<1>11. \A e \in EntityType :
         /\ TallyOf(p, e)'.found = IF e = ent THEN InLegacy(e) ELSE TallyOf(p, e).found
         /\ TallyOf(p, e)'.validated = TallyOf(p, e).validated
  BY <1>2, <1>5, <1>7, <1>9 DEF TallyOf, n
<1> QED
  BY <1>7, <1>9, <1>10, <1>11 DEF CountFound

LEMMA ValidatedAs ==
    ASSUME TypeOK, ReportingTypeOK, NEW p \in Procs, CheckCounted(p)
    PROVE  /\ SameTallies(p) /\ Publishes(p) /\ report'[p].counted = report[p].counted
           /\ \A e \in EntityType :
                /\ TallyOf(p, e)'.found = TallyOf(p, e).found
                /\ TallyOf(p, e)'.validated
                       = IF e = proc[p].ent THEN Validated(p) ELSE TallyOf(p, e).validated
<1>1. report[p] \in ProcessReport /\ proc[p].ent \in EntityType /\ proc[p].found \in Nat
  BY Typed, ReportTyped DEF Process
<1>2. Validated(p) \in Int
  <2>1. (report[p].differing) \in SUBSET Keys
    BY <1>1, ReportFields
  <2>2. Cardinality(report[p].differing) \in Nat
    BY <2>1, CountsAreNat
  <2> QED
    BY <1>1, <2>2 DEF Validated
<1>3. Note(p, [report[p] EXCEPT !.stats.tally[proc[p].ent].validated = Validated(p),
                                !.divergences = @ \union report[p].differing,
                                !.differing = {}])
  BY DEF CheckCounted
<1> DEFINE ent == proc[p].ent
           n == Validated(p)
           tally == [report[p].stats.tally[ent] EXCEPT !.validated = n]
           one == WithTally(report[p], ent, tally, report[p].counted)
           rep == Published(one)
<1>4. /\ tally \in Tally
      /\ [report[p] EXCEPT !.stats.tally[ent].validated = n,
                           !.divergences = @ \union report[p].differing,
                           !.differing = {}] = rep
  BY <1>1, <1>2, ValidatedTypes
<1>5. /\ tally.validated = n /\ tally.found = report[p].stats.tally[ent].found
      /\ \A a \in ImportAction : tally[a] = report[p].stats.tally[ent][a]
  BY <1>1, ReportFields DEF Tally, ImportAction
<1>6. report[p].counted \in SUBSET EntityType /\ ent \in EntityType
  BY <1>1, ReportFields
<1> HIDE DEF tally, n, ent
<1>12. /\ one \in ProcessReport
       /\ one.stats.tally[ent] = tally /\ one.counted = report[p].counted
       /\ \A e \in EntityType : e # ent => one.stats.tally[e] = report[p].stats.tally[e]
       /\ one.stats.http_failures = report[p].stats.http_failures
       /\ one.divergences = report[p].divergences /\ one.differing = report[p].differing
  BY <1>1, <1>4, <1>6, WithTallyDoes
<1> HIDE DEF one
<1>7. /\ rep \in ProcessReport
      /\ rep.stats.tally[ent] = tally /\ rep.counted = report[p].counted
      /\ \A e \in EntityType : e # ent => rep.stats.tally[e] = report[p].stats.tally[e]
      /\ rep.stats.http_failures = report[p].stats.http_failures
      /\ rep.divergences = report[p].divergences \union report[p].differing
      /\ rep.differing = {}
  BY <1>12, PublishedDoes
<1>8. Note(p, rep)
  BY <1>3, <1>4 DEF n, ent
<1> HIDE DEF rep
<1>9. report'[p] = rep
  BY <1>7, <1>8, NoteDoes
<1>10. SameTallies(p) /\ Publishes(p)
  BY <1>5, <1>6, <1>7, <1>9 DEF SameTallies, Publishes, TallyOf
<1>11. \A e \in EntityType :
         /\ TallyOf(p, e)'.found = TallyOf(p, e).found
         /\ TallyOf(p, e)'.validated = IF e = ent THEN n ELSE TallyOf(p, e).validated
  BY <1>5, <1>6, <1>7, <1>9 DEF TallyOf
<1> QED
  BY <1>7, <1>9, <1>10, <1>11 DEF n, ent

LEMMA ReferencesAs ==
    ASSUME TypeOK, ReportingTypeOK, NEW p \in Procs, RefsCounted(p)
    PROVE  /\ report'[p].stats.tally = report[p].stats.tally
           /\ SameRest(p) /\ report'[p].counted = report[p].counted
           /\ report'[p].stats.checked_sales_refs = InLegacy("sale")
           /\ report'[p].stats.orphan_sales = Cardinality(Orphans(p))
<1> DEFINE n == Cardinality({s \in Sales : legacy[s] # Absent})
           m == Cardinality(Orphans(p))
           rep == [report[p] EXCEPT !.stats.checked_sales_refs = n, !.stats.orphan_sales = m]
<1>1. report[p] \in ProcessReport
  BY ReportTyped
<1>2. n \in Nat /\ m \in Nat
  <2>1. {s \in Sales : legacy[s] # Absent} \in SUBSET Keys /\ Orphans(p) \in SUBSET Keys
    BY DEF Orphans, Keys
  <2> QED
    BY <2>1, CountsAreNat
<1>3. Note(p, rep)
  BY DEF RefsCounted
<1>4. n = InLegacy("sale")
  BY RowsSplit DEF InLegacy
<1> HIDE DEF n, m
<1>5. rep \in ProcessReport
  BY <1>1, <1>2, ReferencesCounts
<1>6. /\ rep.stats.checked_sales_refs = n /\ rep.stats.orphan_sales = m
      /\ rep.stats.tally = report[p].stats.tally /\ rep.counted = report[p].counted
      /\ rep.stats.http_failures = report[p].stats.http_failures
      /\ rep.divergences = report[p].divergences /\ rep.differing = report[p].differing
  BY <1>1, ReportFields DEF ProcessReport, MigrationStats
<1> HIDE DEF rep
<1>7. report'[p] = rep
  BY <1>3, <1>5, NoteDoes
<1> QED
  BY <1>4, <1>6, <1>7 DEF SameRest, m

(* A row that agrees is not noted. *)
LEMMA ComparedAs ==
    ASSUME TypeOK, ReportingTypeOK, NEW p \in Procs, RowCompared(p), ~ proc'[p].bad
    PROVE  report'[p] = report[p]
<1>1. PICK k \in Keys :
         /\ IsNext(p, k)
         /\ Note(p, IF Agrees(svc[k], proc[p].cursor[k]) THEN report[p]
                    ELSE [report[p] EXCEPT !.differing = @ \union {k}])
  BY DEF RowCompared
<1>2. PICK j \in Keys :
         /\ IsNext(p, j)
         /\ LET me == proc[p]
                same == Agrees(svc[j], me.cursor[j]) IN
            Step(p, [me EXCEPT !.found = IF svc[j] = Absent THEN @ ELSE @ + 1,
                               !.bad = @ \/ ~ same,
                               !.cur = IF same THEN j ELSE NoKey, !.cursor = Drop(p, j),
                               !.pc = IF same THEN "check_item" ELSE "check_next"])
  BY DEF RowCompared, CheckRow
<1>3. j = k
  <2>1. j \in Nat /\ k \in Nat /\ k <= j /\ j <= k
    BY <1>1, <1>2, KeysAssumption DEF IsNext, Keys
  <2> QED
    BY <2>1
<1> DEFINE same == Agrees(svc[j], proc[p].cursor[j])
           found == IF svc[j] = Absent THEN proc[p].found ELSE proc[p].found + 1
           bad == proc[p].bad \/ ~ same
           cur == IF same THEN j ELSE NoKey
           cursor == Drop(p, j)
           pc == IF same THEN "check_item" ELSE "check_next"
<1>4. Step(p, [proc[p] EXCEPT !.found = found, !.bad = bad, !.cur = cur, !.cursor = cursor,
                              !.pc = pc])
  BY <1>2
<1> HIDE DEF found, bad, cur, cursor, pc
<1>5. proc'[p].bad = bad
  BY <1>4, Typed DEF Step, Process
<1>6. same
  BY <1>5 DEF bad
<1> QED
  BY <1>1, <1>3, <1>6, NoteDoes, ReportTyped

(***************************************************************************)
(* The counters match the items after each step of an import.              *)
(***************************************************************************)
LEMMA ImportedRows ==
    ASSUME TypeOK, NEW p \in Procs, NEW ent \in EntityType
    PROVE  /\ InTable(ent) \in SUBSET Keys /\ Imported(p, ent) \in SUBSET InTable(ent)
           /\ Imported(p, ent) \in SUBSET Keys
           /\ InLegacy(ent) = Cardinality(InTable(ent)) /\ InLegacy(ent) \in Nat
           /\ \A action : /\ IsFiniteSet(ImportedAs(p, ent, action))
                          /\ Cardinality(ImportedAs(p, ent, action)) \in Nat
<1>1. InTable(ent) \in SUBSET Keys
  BY RowsSplit DEF InTable, EntityType
<1>2. Imported(p, ent) \in SUBSET InTable(ent)
  BY DEF Imported
<1>3. \A action : ImportedAs(p, ent, action) \in SUBSET Keys
  BY <1>1, <1>2 DEF ImportedAs
<1> QED
  BY <1>1, <1>2, <1>3, CountsAreNat DEF InLegacy, InTable

LEMMA TalliesTyped ==
    ASSUME ReportingTypeOK, NEW p \in Procs, NEW ent \in EntityType
    PROVE  /\ \A a \in ImportAction : TallyOf(p, ent)[a] \in Nat
           /\ TallyOf(p, ent) \in Tally
BY ReportTyped, ReportFields, OneMoreActions DEF TallyOf, ImportAction

LEMMA TalliesStay ==
    ASSUME TypeOK, NEW p \in Procs, TalliesMatch(p), SameTallies(p),
           \A k \in Keys : ActionOf(p, k)' = ActionOf(p, k),
           \A ent \in EntityType : Imported(p, ent)' = Imported(p, ent),
           ~ At(p, "upsert"), ~ At(p, "upsert")'
    PROVE  TalliesMatch(p)'
<1>1. \A ent \in EntityType : \A a : ImportedAs(p, ent, a)' = ImportedAs(p, ent, a)
  BY ImportedRows DEF ImportedAs
<1>2. \A ent, a : AnswerInHand(p, ent, a)' = 0 /\ AnswerInHand(p, ent, a) = 0
  BY DEF AnswerInHand
<1>3. \A ent \in EntityType, a \in ImportAction :
         TallyOf(p, ent)'[a]
             = Cardinality(ImportedAs(p, ent, a)') + AnswerInHand(p, ent, a)'
  BY <1>1, <1>2 DEF TalliesMatch, SameTallies
<1>4. \A ent \in EntityType : \A k \in Imported(p, ent)' :
         ActionOf(p, k)' \in {"created", "unchanged"}
  BY ImportedRows DEF TalliesMatch
<1> QED
  BY <1>3, <1>4 DEF TalliesMatch

LEMMA TalliesAnswered ==
    ASSUME TypeOK, NEW p \in Procs, TalliesMatch(p), OneMoreAs(p, proc'[p].ans),
           SameCommand(p), \A k \in Keys : ActionOf(p, k)' = ActionOf(p, k),
           \A ent \in EntityType : Imported(p, ent)' = Imported(p, ent),
           ~ At(p, "upsert"), At(p, "upsert")'
    PROVE  TalliesMatch(p)'
<1>1. \A ent \in EntityType : \A a : ImportedAs(p, ent, a)' = ImportedAs(p, ent, a)
  BY ImportedRows DEF ImportedAs
<1>2. \A ent, a : /\ AnswerInHand(p, ent, a) = 0
                  /\ AnswerInHand(p, ent, a)'
                         = IF ent = proc[p].ent /\ a = proc'[p].ans THEN 1 ELSE 0
  BY DEF AnswerInHand, SameCommand
<1>3. \A ent \in EntityType, a \in ImportAction :
         TallyOf(p, ent)'[a]
             = Cardinality(ImportedAs(p, ent, a)') + AnswerInHand(p, ent, a)'
  <2> SUFFICES ASSUME NEW ent \in EntityType, NEW a \in ImportAction
               PROVE  TallyOf(p, ent)'[a]
                          = Cardinality(ImportedAs(p, ent, a)') + AnswerInHand(p, ent, a)'
    OBVIOUS
  <2>1. TallyOf(p, ent)[a] = Cardinality(ImportedAs(p, ent, a))
    BY <1>2, ImportedRows DEF TalliesMatch
  <2> QED
    BY <1>1, <1>2, <2>1 DEF OneMoreAs
<1>4. \A ent \in EntityType : \A k \in Imported(p, ent)' :
         ActionOf(p, k)' \in {"created", "unchanged"}
  BY ImportedRows DEF TalliesMatch
<1> QED
  BY <1>3, <1>4 DEF TalliesMatch

(* One more row is imported or skipped, counted now or when its answer came. *)
LEMMA TalliesTaken ==
    ASSUME TypeOK, ReportingTypeOK, NEW p \in Procs, TalliesMatch(p),
           NEW k \in Rows(proc[p].ent), NEW action \in {"created", "unchanged"},
           k \notin Imported(p, proc[p].ent),
           \A ent \in EntityType :
               Imported(p, ent)' = Imported(p, ent)
                                       \union (IF ent = proc[p].ent THEN {k} ELSE {}),
           ActionOf(p, k)' = action,
           \A j \in Keys : j # k => ActionOf(p, j)' = ActionOf(p, j),
           ~ At(p, "upsert")',
           \A ent \in EntityType, a \in ImportAction :
               TallyOf(p, ent)'[a] + AnswerInHand(p, ent, a)
                   = TallyOf(p, ent)[a] + (IF ent = proc[p].ent /\ a = action THEN 1 ELSE 0),
           \A ent \in EntityType, a \in ImportAction : TallyOf(p, ent)'[a] \in Nat
    PROVE  TalliesMatch(p)'
<1>0. k \in Keys /\ proc[p].ent \in EntityType
  BY Typed, RowsSplit DEF Process, EntityType
<1>1. \A ent, a : AnswerInHand(p, ent, a)' = 0 /\ AnswerInHand(p, ent, a) \in {0, 1}
  BY DEF AnswerInHand
<1>2. ASSUME NEW ent \in EntityType, NEW a \in ImportAction
      PROVE  Cardinality(ImportedAs(p, ent, a)')
                 = Cardinality(ImportedAs(p, ent, a))
                       + (IF ent = proc[p].ent /\ a = action THEN 1 ELSE 0)
  <2> DEFINE S == ImportedAs(p, ent, a)
  <2>1. IsFiniteSet(S) /\ Cardinality(S) \in Nat /\ Imported(p, ent) \in SUBSET Keys
    BY ImportedRows
  <2>2. CASE ent = proc[p].ent /\ a = action
    <3>1. Imported(p, ent)' = Imported(p, ent) \union {k} /\ k \notin Imported(p, ent)
      BY <2>2
    <3>2. \A j \in Imported(p, ent) : ActionOf(p, j)' = ActionOf(p, j)
      BY <2>1, <3>1
    <3>3. ActionOf(p, k)' = a
      BY <2>2
    <3>4. ImportedAs(p, ent, a)' = S \union {k} /\ k \notin S
      BY <3>1, <3>2, <3>3 DEF ImportedAs
    <3>5. Cardinality(S \union {k}) = Cardinality(S) + 1
      <4> HIDE DEF S
      <4> QED
        BY <2>1, <3>4, FS_AddElement
    <3>6. Cardinality(ImportedAs(p, ent, a)') = Cardinality(ImportedAs(p, ent, a)) + 1
      BY <3>4, <3>5
    <3>7. (IF ent = proc[p].ent /\ a = action THEN 1 ELSE 0) = 1
      BY <2>2
    <3> QED
      BY <3>6, <3>7
  <2>3. CASE ent = proc[p].ent /\ a # action
    <3>1. ImportedAs(p, ent, a)' = S
      BY <1>0, <2>1, <2>3 DEF ImportedAs
    <3> QED
      BY <2>1, <2>3, <3>1
  <2>4. CASE ent # proc[p].ent
    <3>1. Imported(p, ent)' = Imported(p, ent)
      BY <2>4
    <3>2. k \notin Imported(p, ent)
      <4>1. Rows(ent) \intersect Rows(proc[p].ent) = {}
        BY <1>0, <2>4, RowsSplit, KeysAssumption DEF EntityType
      <4> QED
        BY <4>1, ImportedRows DEF InTable
    <3>3. ImportedAs(p, ent, a)' = S
      BY <2>1, <3>1, <3>2 DEF ImportedAs
    <3> QED
      BY <2>1, <2>4, <3>3
  <2> QED
    BY <2>2, <2>3, <2>4
<1>3. ASSUME NEW ent \in EntityType, NEW a \in ImportAction
      PROVE  TallyOf(p, ent)'[a]
                 = Cardinality(ImportedAs(p, ent, a)') + AnswerInHand(p, ent, a)'
  <2>1. TallyOf(p, ent)[a] = Cardinality(ImportedAs(p, ent, a)) + AnswerInHand(p, ent, a)
        /\ Cardinality(ImportedAs(p, ent, a)) \in Nat
    BY ImportedRows DEF TalliesMatch
  <2>2. TallyOf(p, ent)'[a] \in Nat
    OBVIOUS
  <2> QED
    BY <1>1, <1>2, <2>1, <2>2
<1>4. \A ent \in EntityType : \A j \in Imported(p, ent)' :
         ActionOf(p, j)' \in {"created", "unchanged"}
  BY ImportedRows DEF TalliesMatch
<1> QED
  BY <1>3, <1>4 DEF TalliesMatch

(***************************************************************************)
(* The report speaks true after each step of a snapshot.                   *)
(***************************************************************************)
LEMMA SameTables ==
    ASSUME legacy' = legacy
    PROVE  \A ent : InTable(ent)' = InTable(ent) /\ InLegacy(ent)' = InLegacy(ent)
BY DEF InTable, InLegacy, Rows

LEMMA TruthOnward ==
    ASSUME TypeOK, NEW p \in Procs, Truth(p), report'[p] = report[p], SameCommand(p),
           legacy' = legacy, \A k \in Keys : ActionOf(p, k)' = ActionOf(p, k),
           \A ent \in EntityType : Imported(p, ent)' = Imported(p, ent),
           ~ At(p, "upsert"), ~ At(p, "upsert")',
           proc'[p].pc \notin {"import_open", "complete"},
           At(p, "import_open") => proc[p].ent \in report[p].counted,
           proc'[p].pc \in {"refs_open", "refs_next"} =>
               proc[p].pc \in {"refs_open", "refs_next"},
           proc'[p].pc \in {"check_open", "check_next", "check_item", "check_mark"} =>
               proc'[p].expected = InLegacy(proc[p].ent)
    PROVE  Truth(p)'
<1>1. \A ent : InLegacy(ent)' = InLegacy(ent)
  BY SameTables
<1>2. \A ent : TallyOf(p, ent)' = TallyOf(p, ent)
  BY DEF TallyOf
<1>3. TalliesMatch(p)'
  BY <1>2, TalliesStay DEF Truth, SameTallies
<1>4. NothingWrong(p)'
  BY DEF Truth, NothingWrong
<1>5. QueriesMatch(p)'
  BY <1>1, <1>2 DEF Truth, QueriesMatch, SameCommand, At
<1>6. EndsMatch(p)'
  BY <1>1, <1>2 DEF Truth, EndsMatch, SameCommand, At
<1> QED
  BY <1>3, <1>4, <1>5, <1>6 DEF Truth

(* What is counted at the start: nothing. *)
LEMMA TruthStarted ==
    ASSUME TypeOK, ReportingTypeOK, NEW p \in Procs, NEW b \in BOOLEAN, Note(p, NewReport(b)),
           proc'[p].pc = "import_open", proc'[p].ent = "user"
    PROVE  Truth(p)'
<1>1. report'[p] = NewReport(b)
  BY NewReportTypes, NoteDoes
<1>2. /\ \A ent \in EntityType : report'[p].stats.tally[ent] = NoTally
      /\ report'[p].stats.http_failures = 0
      /\ report'[p].divergences = {} /\ report'[p].differing = {}
      /\ report'[p].counted = {}
  BY <1>1 DEF NewReport, NoStats
<1>3. \A ent \in EntityType : Imported(p, ent)' = {}
  BY DEF Imported, At, EntityType
<1>4. \A ent \in EntityType, a \in ImportAction :
         TallyOf(p, ent)'[a] = Cardinality(ImportedAs(p, ent, a)') + AnswerInHand(p, ent, a)'
  <2> SUFFICES ASSUME NEW ent \in EntityType, NEW a \in ImportAction
               PROVE  TallyOf(p, ent)'[a]
                          = Cardinality(ImportedAs(p, ent, a)') + AnswerInHand(p, ent, a)'
    OBVIOUS
  <2>1. ImportedAs(p, ent, a)' = {}
    BY <1>3 DEF ImportedAs
  <2>2. Cardinality(ImportedAs(p, ent, a)') = 0
    BY <2>1, FS_EmptySet
  <2>3. TallyOf(p, ent)'[a] = 0
    BY <1>2 DEF TallyOf, NoTally, ImportAction
  <2>4. AnswerInHand(p, ent, a)' = 0
    BY DEF AnswerInHand, At
  <2> QED
    BY <2>2, <2>3, <2>4
<1>5. TalliesMatch(p)'
  BY <1>3, <1>4 DEF TalliesMatch
<1>6. NothingWrong(p)' /\ QueriesMatch(p)' /\ EndsMatch(p)'
  BY <1>2 DEF NothingWrong, QueriesMatch, EndsMatch, At
<1> QED
  BY <1>5, <1>6 DEF Truth

LEMMA TruthFound ==
    ASSUME TypeOK, ReportingTypeOK, NEW p \in Procs, Imports(p), Truth(p), CountFound(p)
    PROVE  Truth(p)'
<1>1. /\ UNCHANGED vars /\ SameTallies(p) /\ SameRest(p)
      /\ report'[p].stats.orphan_sales = report[p].stats.orphan_sales
      /\ report'[p].stats.checked_sales_refs = report[p].stats.checked_sales_refs
  BY FoundAs
<1>2. PICK ent \in Due(p) :
        /\ report'[p].counted = report[p].counted \union {ent}
        /\ \A e \in EntityType :
             /\ TallyOf(p, e)'.found = IF e = ent THEN InLegacy(e) ELSE TallyOf(p, e).found
             /\ TallyOf(p, e)'.validated = TallyOf(p, e).validated
  BY FoundAs
<1>3. At(p, "import_open") /\ ent = proc[p].ent
  BY <1>2 DEF Due, ImportDue, ValidateDue, Imports
<1>4. /\ proc' = proc /\ legacy' = legacy /\ items' = items
      /\ \A e : InLegacy(e)' = InLegacy(e) /\ Imported(p, e)' = Imported(p, e)
  BY <1>1, SameTables DEF vars, world, store, Imported, At, Pending
<1>5. TalliesMatch(p)'
  BY <1>1, <1>3, <1>4, TalliesStay DEF Truth, At, ActionOf
<1>6. NothingWrong(p)'
  BY <1>1, <1>4 DEF Truth, NothingWrong, SameRest, At
<1>7. report[p].counted \subseteq EntityType /\ proc[p].ent \in EntityType /\ "user" \in EntityType
  BY CountsTyped DEF EntityType
<1>8. QueriesMatch(p)'
  BY <1>2, <1>3, <1>4, <1>7 DEF Truth, QueriesMatch, At
<1>9. EndsMatch(p)'
  BY <1>3, <1>4 DEF EndsMatch, At
<1> QED
  BY <1>5, <1>6, <1>8, <1>9 DEF Truth

(* The rows imported, at the start of a table, at its end, and while no row is taken. *)
LEMMA ImportedKept ==
    ASSUME TypeOK, NEW p \in Procs, SameCommand(p), legacy' = legacy,
           \/ proc[p].pc \in {"import_next", "post"} /\ Pending(p)' = Pending(p)
                  /\ proc'[p].pc \in {"import_next", "post", "upsert"}
           \/ proc[p].pc \in {"import_next"} /\ Pending(p) = {}
                  /\ proc'[p].pc \notin {"import_open", "import_next", "post", "upsert"}
           \/ At(p, "import_open") /\ Pending(p)' = InTable(proc[p].ent)
                  /\ proc'[p].pc = "import_next"
           \/ /\ proc[p].pc \notin {"import_open", "import_next", "post", "upsert"}
              /\ proc'[p].pc \notin {"import_open", "import_next", "post", "upsert"}
    PROVE  \A ent \in EntityType : Imported(p, ent)' = Imported(p, ent)
<1> SUFFICES ASSUME NEW ent \in EntityType PROVE Imported(p, ent)' = Imported(p, ent)
  OBVIOUS
<1>1. InTable(ent)' = InTable(ent) /\ proc'[p].ent = proc[p].ent
  BY SameTables DEF SameCommand
<1>2. CASE ent # proc[p].ent
  BY <1>1, <1>2 DEF Imported
<1>3. CASE ent = proc[p].ent
  BY <1>1, <1>3 DEF Imported, At
<1> QED
  BY <1>2, <1>3

LEMMA OpensTable ==
    ASSUME TypeOK, NEW p \in Procs, ImportOpen(p)
    PROVE  Pending(p)' = InTable(proc[p].ent)
<1>1. proc'[p].cursor = Select(proc[p].ent, legacy) /\ proc[p].ent \in EntityType
  BY ImportOpenDoes, Typed DEF Process
<1>2. Pending(p)' = {k \in Keys : k \in Rows(proc[p].ent) /\ legacy[k] # Absent}
  BY <1>1, Selects, Typed
<1> QED
  BY <1>1, <1>2, RowsSplit DEF InTable, EntityType

(* Steps that report nothing and go on in the same phase. *)
LEMMA TruthImport ==
    ASSUME TypeOK, NEW p \in Procs, Truth(p), report'[p] = report[p], Due(p) = {},
           ImportOpen(p) \/ ImportBegin(p) \/ ImportEnd(p)
               \/ (PostLost(p) /\ proc'[p].pc = "post"),
           ~ proc'[p].bad
    PROVE  Truth(p)'
<1>1. CASE ImportOpen(p)
  <2>1. /\ SameCommand(p) /\ legacy' = legacy /\ items' = items
        /\ At(p, "import_open") /\ proc'[p].pc = "import_next"
    BY <1>1, ImportOpenDoes DEF Silent, SameRows
  <2>2. \A ent \in EntityType : Imported(p, ent)' = Imported(p, ent)
    BY <1>1, <2>1, OpensTable, ImportedKept
  <2>3. proc[p].ent \in report[p].counted
    BY <2>1 DEF Due, ImportDue, ValidateDue
  <2> QED
    BY <2>1, <2>2, <2>3, TruthOnward DEF ActionOf, SameCommand, At
<1>2. CASE ImportBegin(p)
  <2>1. /\ SameCommand(p) /\ legacy' = legacy /\ items' = items
        /\ At(p, "import_next") /\ proc'[p].pc = "post" /\ Pending(p)' = Pending(p)
    BY <1>2, ImportBeginDoes, SameCursor DEF Silent, SameRows
  <2>2. \A ent \in EntityType : Imported(p, ent)' = Imported(p, ent)
    BY <2>1, ImportedKept DEF At
  <2> QED
    BY <2>1, <2>2, TruthOnward DEF ActionOf, SameCommand, At
<1>3. CASE ImportEnd(p)
  <2>1. /\ SameCommand(p) /\ legacy' = legacy /\ items' = items /\ Pending(p) = {}
        /\ At(p, "import_next") /\ proc'[p].pc = "count"
    BY <1>3, ImportEndDoes DEF Silent, SameRows
  <2>2. \A ent \in EntityType : Imported(p, ent)' = Imported(p, ent)
    BY <2>1, ImportedKept DEF At
  <2> QED
    BY <2>1, <2>2, TruthOnward DEF ActionOf, SameCommand, At
<1>4. CASE PostLost(p) /\ proc'[p].pc = "post"
  <2>1. /\ SameCommand(p) /\ legacy' = legacy /\ items' = items
        /\ At(p, "post") /\ proc'[p].pc = "post" /\ Pending(p)' = Pending(p)
    BY <1>4, PostLostDoes, SameCursor DEF Attempted
  <2>2. \A ent \in EntityType : Imported(p, ent)' = Imported(p, ent)
    BY <2>1, ImportedKept DEF At
  <2> QED
    BY <2>1, <2>2, TruthOnward DEF ActionOf, SameCommand, At
<1> QED
  BY <1>1, <1>2, <1>3, <1>4

(* The counts of a query are kept until the table is compared. *)
LEMMA ExpectedKept ==
    ASSUME TypeOK, NEW p \in Procs
    PROVE  /\ CountLegacy(p) => proc'[p].expected = InLegacy(proc[p].ent)
           /\ CheckOpen(p) \/ CheckRow(p) \/ CheckItem(p) \/ CheckMark(p) =>
                  proc'[p].expected = proc[p].expected
<1>1. ASSUME CountLegacy(p) PROVE proc'[p].expected = InLegacy(proc[p].ent)
  BY <1>1, Typed DEF CountLegacy, Step, Process, InLegacy
<1>2. ASSUME CheckOpen(p) PROVE proc'[p].expected = proc[p].expected
  BY <1>2, Typed DEF CheckOpen, Step, Process
<1>3. ASSUME CheckItem(p) \/ CheckMark(p) PROVE proc'[p].expected = proc[p].expected
  BY <1>3, Typed DEF CheckItem, CheckMark, Step, Process
<1>4. ASSUME CheckRow(p) PROVE proc'[p].expected = proc[p].expected
  <2>1. PICK k \in Keys :
          LET me == proc[p]
              same == Agrees(svc[k], me.cursor[k]) IN
          Step(p, [me EXCEPT !.found = IF svc[k] = Absent THEN @ ELSE @ + 1,
                             !.bad = @ \/ ~ same,
                             !.cur = IF same THEN k ELSE NoKey, !.cursor = Drop(p, k),
                             !.pc = IF same THEN "check_item" ELSE "check_next"])
    BY <1>4 DEF CheckRow
  <2> QED
    BY <2>1, Typed DEF Step, Process
<1> QED
  BY <1>1, <1>2, <1>3, <1>4

LEMMA TruthCheck ==
    ASSUME TypeOK, NEW p \in Procs, Truth(p), report'[p] = report[p], ~ proc'[p].bad,
           \/ CountLegacy(p) \/ CheckOpen(p) \/ CheckRow(p) \/ CheckItem(p) \/ CheckMark(p)
           \/ RefsOpen(p) \/ RefsGet(p)
    PROVE  Truth(p)'
<1>1. CASE CountLegacy(p) \/ CheckOpen(p) \/ CheckRow(p) \/ CheckItem(p) \/ CheckMark(p)
  <2>1. /\ SameCommand(p) /\ legacy' = legacy
        /\ proc[p].pc \in {"count", "check_open", "check_next", "check_item", "check_mark"}
        /\ proc'[p].pc \in {"check_open", "check_next", "check_item", "check_mark"}
    BY <1>1, CountLegacyDoes, CheckOpenDoes, CheckRowDoes, CheckItemDoes, CheckMarkDoes
       DEF Silent, SameRows, At
  <2>2. \A k \in Keys : ActionOf(p, k)' = ActionOf(p, k)
    <3>1. CASE CheckMark(p)
      <4>1. \A k \in Keys : items'[proc[p].run][k].action = items[proc[p].run][k].action
        BY <3>1, CheckMarkDoes, MarkKeeps DEF Silent
      <4> QED
        BY <2>1, <4>1 DEF ActionOf, SameCommand
    <3>2. CASE CountLegacy(p) \/ CheckOpen(p) \/ CheckRow(p) \/ CheckItem(p)
      BY <2>1, <3>2, CountLegacyDoes, CheckOpenDoes, CheckRowDoes, CheckItemDoes
         DEF ActionOf, SameCommand
    <3> QED
      BY <1>1, <3>1, <3>2
  <2>3. \A ent \in EntityType : Imported(p, ent)' = Imported(p, ent)
    BY <2>1, ImportedKept
  <2>4. proc'[p].expected = InLegacy(proc[p].ent)
    <3>1. CASE CountLegacy(p)
      BY <3>1, ExpectedKept
    <3>2. CASE CheckOpen(p) \/ CheckRow(p) \/ CheckItem(p) \/ CheckMark(p)
      BY <3>2, ExpectedKept, CheckOpenDoes, CheckRowDoes, CheckItemDoes, CheckMarkDoes
         DEF Truth, QueriesMatch, At
    <3> QED
      BY <1>1, <3>1, <3>2
  <2> QED
    BY <2>1, <2>2, <2>3, <2>4, TruthOnward DEF At
<1>2. CASE RefsOpen(p) \/ RefsGet(p)
  <2>1. /\ SameCommand(p) /\ legacy' = legacy /\ items' = items
        /\ proc[p].pc \in {"refs_open", "refs_next"} /\ proc'[p].pc = "refs_next"
    BY <1>2, RefsOpenDoes, RefsGetDoes DEF Silent, SameRows, At
  <2>2. \A ent \in EntityType : Imported(p, ent)' = Imported(p, ent)
    BY <2>1, ImportedKept
  <2> QED
    BY <2>1, <2>2, TruthOnward DEF ActionOf, SameCommand, At
<1> QED
  BY <1>1, <1>2

(* What a failure adds is not looked at before it is recorded, everything else is the
   same: the other parts of the report while rows are imported. *)
LEMMA TruthInTable ==
    ASSUME TypeOK, NEW p \in Procs, Truth(p), TalliesMatch(p)', SameCommand(p),
           legacy' = legacy,
           proc[p].pc \in {"import_next", "post", "upsert"},
           proc'[p].pc \in {"import_next", "post", "upsert"},
           report'[p].divergences = report[p].divergences,
           report'[p].differing = report[p].differing,
           report'[p].counted = report[p].counted,
           \A ent \in EntityType :
               /\ TallyOf(p, ent)'.found = TallyOf(p, ent).found
               /\ TallyOf(p, ent)'.validated = TallyOf(p, ent).validated,
           report'[p].stats.http_failures > 0 => At(p, "upsert")' /\ proc'[p].ans = "failed",
           ReportingTypeOK
    PROVE  Truth(p)'
<1>1. \A ent : InLegacy(ent)' = InLegacy(ent)
  BY SameTables
<1>2. NothingWrong(p)'
  BY DEF Truth, NothingWrong, At
<1>3. QueriesMatch(p)'
  BY <1>1, CountsTyped DEF Truth, QueriesMatch, SameCommand, At, EntityType
<1>4. EndsMatch(p)'
  BY DEF EndsMatch, At
<1> QED
  BY <1>2, <1>3, <1>4 DEF Truth

LEMMA NoFailureYet ==
    ASSUME ReportingTypeOK, NEW p \in Procs, Truth(p),
           ~ (At(p, "upsert") /\ proc[p].ans = "failed")
    PROVE  report[p].stats.http_failures = 0
<1>1. report[p].stats.http_failures \in Nat
  BY ReportTyped, ReportFields
<1> QED
  BY <1>1 DEF Truth, NothingWrong

LEMMA TalliedRest ==
    ASSUME TypeOK, ReportingTypeOK, NEW p \in Procs, NEW action \in ImportAction,
           Note(p, Tallied(report[p], proc[p].ent, action))
    PROVE  SameRest(p)
<1>1. report[p] \in ProcessReport /\ proc[p].ent \in EntityType
  BY ReportTyped, Typed DEF Process
<1> DEFINE rep == Tallied(report[p], proc[p].ent, action)
<1>2. /\ rep \in ProcessReport /\ rep.stats.http_failures = report[p].stats.http_failures
      /\ rep.divergences = report[p].divergences /\ rep.differing = report[p].differing
  BY <1>1, TalliedDoes
<1> HIDE DEF rep
<1>3. Note(p, rep)
  BY DEF rep
<1> QED
  BY <1>2, <1>3, NoteDoes DEF SameRest

LEMMA TruthAnswer ==
    ASSUME TypeOK, TypeOK', ReportingTypeOK, NEW p \in Procs, Truth(p),
           AnswerCounted(p) \/ (FailureCounted(p) /\ proc'[p].pc = "upsert")
    PROVE  Truth(p)'
<1>1. /\ SameCommand(p) /\ legacy' = legacy /\ items' = items
      /\ At(p, "post") /\ proc'[p].pc = "upsert" /\ Pending(p)' = Pending(p)
  BY PostAnsweredDoes, PostLostDoes, PostRefusedDoes, SameCursor
     DEF AnswerCounted, FailureCounted, Attempted, Silent, SameRows
<1>2. \A ent \in EntityType : Imported(p, ent)' = Imported(p, ent)
  BY <1>1, ImportedKept DEF At
<1>3. OneMoreAs(p, proc'[p].ans)
  <2>1. CASE AnswerCounted(p)
    BY <2>1, AnsweredAs
  <2>2. CASE FailureCounted(p) /\ proc'[p].pc = "upsert"
    <3>1. proc'[p].ans = "failed"
      BY <2>2, PostLostDoes, PostRefusedDoes DEF FailureCounted
    <3> QED
      BY <2>2, <3>1, FailedAs
  <2> QED
    BY <2>1, <2>2
<1>4. TalliesMatch(p)'
  BY <1>1, <1>2, <1>3, TalliesAnswered DEF Truth, At, ActionOf, SameCommand
<1>5. report'[p].stats.http_failures > 0 => At(p, "upsert")' /\ proc'[p].ans = "failed"
  <2>1. CASE AnswerCounted(p)
    <3>1. proc'[p].ans \in ImportAction
      BY <1>1, Typed DEF TypeOK, StageOK
    <3>2. SameRest(p)
      BY <2>1, <3>1, TalliedRest DEF AnswerCounted
    <3>3. report[p].stats.http_failures = 0
      BY <1>1, NoFailureYet DEF At
    <3> QED
      BY <3>2, <3>3 DEF SameRest
  <2>2. CASE FailureCounted(p)
    BY <1>1, <2>2, PostLostDoes, PostRefusedDoes DEF FailureCounted, At
  <2> QED
    BY <2>1, <2>2
<1> QED
  BY <1>1, <1>3, <1>4, <1>5, TruthInTable DEF OneMoreAs, At

(* A row is imported, or skipped: it was in the table and is not pending any more. *)
LEMMA OneImported ==
    ASSUME TypeOK, NEW p \in Procs, SameCommand(p), legacy' = legacy,
           proc[p].pc \in {"import_next", "upsert"}, proc'[p].pc = "import_next",
           NEW k \in Pending(p), Pending(p)' = Pending(p) \ {k},
           Pending(p) \subseteq InTable(proc[p].ent)
    PROVE  /\ k \in Rows(proc[p].ent) /\ k \notin Imported(p, proc[p].ent)
           /\ \A ent \in EntityType :
                Imported(p, ent)' = Imported(p, ent)
                                        \union (IF ent = proc[p].ent THEN {k} ELSE {})
<1>1. k \in Rows(proc[p].ent)
  BY DEF InTable
<1>2. k \notin Imported(p, proc[p].ent)
  BY DEF Imported, At
<1>3. ASSUME NEW ent \in EntityType
      PROVE  Imported(p, ent)' = Imported(p, ent)
                                     \union (IF ent = proc[p].ent THEN {k} ELSE {})
  <2>1. InTable(ent)' = InTable(ent) /\ proc'[p].ent = proc[p].ent
    BY SameTables DEF SameCommand
  <2>2. CASE ent # proc[p].ent
    BY <2>1, <2>2 DEF Imported
  <2>3. CASE ent = proc[p].ent
    <3>1. /\ Imported(p, ent) = InTable(ent) \ Pending(p)
          /\ Imported(p, ent)' = InTable(ent) \ Pending(p)'
      BY <2>1, <2>3 DEF Imported, At
    <3> QED
      BY <2>3, <3>1
  <2> QED
    BY <2>2, <2>3
<1> QED
  BY <1>1, <1>2, <1>3

LEMMA TruthSkip ==
    ASSUME TypeOK, ReportingTypeOK, NEW p \in Procs, Truth(p), SkipCounted(p),
           Pending(p) \subseteq InTable(proc[p].ent)
    PROVE  Truth(p)'
<1>1. /\ SameCommand(p) /\ legacy' = legacy /\ items' = items
      /\ At(p, "import_next") /\ proc'[p].pc = "import_next"
  BY ImportSkipDoes DEF SkipCounted, Silent, SameRows
<1>2. PICK k \in Pending(p) : /\ AlreadyDone(items[proc[p].run][k])
                              /\ proc'[p].cursor = Drop(p, k)
                              /\ OneMoreAs(p, ActionOf(p, k))
  BY SkippedAs
<1>3. Pending(p)' = Pending(p) \ {k}
  BY <1>2, DropsOne
<1>4. /\ k \in Rows(proc[p].ent) /\ k \notin Imported(p, proc[p].ent)
      /\ \A ent \in EntityType :
           Imported(p, ent)' = Imported(p, ent)
                                   \union (IF ent = proc[p].ent THEN {k} ELSE {})
  BY <1>1, <1>3, OneImported DEF At
<1> DEFINE action == ActionOf(p, k)
<1>5. action \in {"created", "unchanged"} /\ action \in ImportAction
  BY <1>2 DEF AlreadyDone, ImportAction, ActionOf
<1>6. \A j \in Keys : ActionOf(p, j)' = ActionOf(p, j)
  BY <1>1 DEF ActionOf, SameCommand
<1>7. k \in Keys /\ ActionOf(p, k)' = action
  BY <1>1 DEF ActionOf, SameCommand, Pending
<1>8. \A ent \in EntityType, a \in ImportAction :
         /\ AnswerInHand(p, ent, a) = 0 /\ TallyOf(p, ent)[a] \in Nat
         /\ TallyOf(p, ent)'[a]
               = TallyOf(p, ent)[a] + (IF ent = proc[p].ent /\ a = action THEN 1 ELSE 0)
  BY <1>1, <1>2, TalliesTyped DEF OneMoreAs, AnswerInHand, At
<1> HIDE DEF action
<1>9. \A ent \in EntityType, a \in ImportAction :
         /\ TallyOf(p, ent)'[a] + AnswerInHand(p, ent, a)
               = TallyOf(p, ent)[a] + (IF ent = proc[p].ent /\ a = action THEN 1 ELSE 0)
         /\ TallyOf(p, ent)'[a] \in Nat
  <2> SUFFICES ASSUME NEW ent \in EntityType, NEW a \in ImportAction
               PROVE  /\ TallyOf(p, ent)'[a] + AnswerInHand(p, ent, a)
                            = TallyOf(p, ent)[a]
                                  + (IF ent = proc[p].ent /\ a = action THEN 1 ELSE 0)
                      /\ TallyOf(p, ent)'[a] \in Nat
    OBVIOUS
  <2> DEFINE one == IF ent = proc[p].ent /\ a = action THEN 1 ELSE 0
  <2>1. one \in Nat
    OBVIOUS
  <2>2. /\ AnswerInHand(p, ent, a) = 0 /\ TallyOf(p, ent)[a] \in Nat
        /\ TallyOf(p, ent)'[a] = TallyOf(p, ent)[a] + one
    BY <1>8
  <2> HIDE DEF one
  <2>3. TallyOf(p, ent)'[a] + AnswerInHand(p, ent, a) = TallyOf(p, ent)[a] + one
        /\ TallyOf(p, ent)'[a] \in Nat
    BY <2>1, <2>2
  <2> QED
    BY <2>3 DEF one
<1>10. ~ At(p, "upsert")'
  BY <1>1 DEF At
<1>11. TalliesMatch(p)'
  BY <1>4, <1>5, <1>6, <1>7, <1>9, <1>10, TalliesTaken DEF Truth
<1>12. report'[p].stats.http_failures = 0
  <2>1. Note(p, Tallied(report[p], proc[p].ent, action))
    <3>1. PICK i \in Keys :
            /\ IsNext(p, i)
            /\ Note(p, Skipped(report[p], proc[p].ent, items[proc[p].run][i].action))
      BY DEF SkipCounted
    <3>2. PICK j \in Keys : IsNext(p, j) /\ Step(p, [proc[p] EXCEPT !.cursor = Drop(p, j)])
      BY DEF SkipCounted, ImportSkip
    <3>3. proc'[p].cursor = Drop(p, j) /\ Pending(p)' = Pending(p) \ {j} /\ j \in Pending(p)
      <4>1. proc'[p].cursor = Drop(p, j)
        BY <3>2, Typed DEF Step, Process
      <4> QED
        BY <3>2, <4>1, DropsOne DEF IsNext
    <3>4. j = k
      BY <1>3, <3>3
    <3>5. i = j
      <4>1. i \in Nat /\ j \in Nat /\ i <= j /\ j <= i
        BY <3>1, <3>2, KeysAssumption DEF IsNext, Keys
      <4> QED
        BY <4>1
    <3> QED
      BY <3>1, <3>4, <3>5 DEF Skipped, action, ActionOf
  <2>2. SameRest(p)
    BY <1>5, <2>1, TalliedRest
  <2>3. report[p].stats.http_failures = 0
    BY <1>1, NoFailureYet DEF At
  <2> QED
    BY <2>2, <2>3 DEF SameRest
<1> QED
  BY <1>1, <1>2, <1>11, <1>12, TruthInTable DEF OneMoreAs, At

LEMMA TruthUpsert ==
    ASSUME TypeOK, ReportingTypeOK, NEW p \in Procs, Truth(p), ImportUpsert(p),
           report'[p] = report[p], ~ proc'[p].bad, proc[p].cur \in Pending(p),
           Pending(p) \subseteq InTable(proc[p].ent)
    PROVE  Truth(p)'
<1>0. /\ proc[p].cur \in Keys /\ proc[p].run \in Runs
      /\ proc[p].ans \in ImportAction \ {"conflict", "failed"}
  BY ImportUpsertDoes, Typed DEF StageOK, At
<1> PICK k \in Keys : k = proc[p].cur
  BY <1>0
<1> PICK action \in ImportAction \ {"conflict", "failed"} : action = proc[p].ans
  BY <1>0
<1>1. /\ SameCommand(p) /\ legacy' = legacy
      /\ At(p, "upsert") /\ proc'[p].pc = "import_next"
      /\ proc'[p].cursor = Drop(p, k)
      /\ items' = [items EXCEPT ![proc[p].run][k] = UpsertedItem(action, proc[p].cursor[k])]
  BY ImportUpsertDoes DEF Silent, SameRows
<1>2. action \in {"created", "unchanged"} /\ action \in ImportAction /\ proc[p].run \in Runs
  BY <1>0 DEF ImportAction
<1>3. Pending(p)' = Pending(p) \ {k} /\ k \in Pending(p)
  BY <1>1, DropsOne
<1>4. /\ \A j \in Keys : j # k => ActionOf(p, j)' = ActionOf(p, j)
      /\ ActionOf(p, k)' = action
  <2>1. items \in [Runs -> [Keys -> Item]] /\ proc'[p].run = proc[p].run
    BY <1>1, Typed DEF SameCommand
  <2> QED
    BY <1>1, <1>2, <1>3, <2>1 DEF ActionOf, UpsertedItem
<1>5. /\ k \in Rows(proc[p].ent) /\ k \notin Imported(p, proc[p].ent)
      /\ \A ent \in EntityType :
           Imported(p, ent)' = Imported(p, ent)
                                   \union (IF ent = proc[p].ent THEN {k} ELSE {})
  BY <1>1, <1>3, OneImported DEF At
<1>6. \A ent \in EntityType, a \in ImportAction :
         /\ TallyOf(p, ent)'[a] + AnswerInHand(p, ent, a)
               = TallyOf(p, ent)[a] + (IF ent = proc[p].ent /\ a = action THEN 1 ELSE 0)
         /\ TallyOf(p, ent)'[a] \in Nat
  <2>1. \A ent : TallyOf(p, ent)' = TallyOf(p, ent)
    BY DEF TallyOf
  <2> QED
    BY <1>1, <2>1, TalliesTyped DEF AnswerInHand
<1>7. ~ At(p, "upsert")'
  BY <1>1 DEF At
<1>8. TalliesMatch(p)'
  BY <1>2, <1>4, <1>5, <1>6, <1>7, TalliesTaken DEF Truth
<1>9. report'[p].stats.http_failures = 0
  BY <1>2, NoFailureYet
<1>10. \A ent : TallyOf(p, ent)' = TallyOf(p, ent)
  BY DEF TallyOf
<1> QED
  BY <1>1, <1>8, <1>9, <1>10, TruthInTable DEF At

LEMMA TruthChecked ==
    ASSUME TypeOK, ReportingTypeOK, NEW p \in Procs, Imports(p), Truth(p), CheckCounted(p),
           ~ proc'[p].bad
    PROVE  Truth(p)'
<1>1. /\ proc'[p].ent = "sale" /\ ~ Mismatch(p) /\ At(p, "check_next")
      /\ proc'[p].cmd = proc[p].cmd /\ proc'[p].run = proc[p].run
      /\ proc'[p].pc = (IF proc[p].ent = "sale" THEN "refs_open" ELSE "import_open")
      /\ legacy' = legacy /\ items' = items
  BY CheckEndDoes DEF CheckCounted, Silent, SameRows
<1>2. proc[p].ent \in {"user", "sale"} /\ proc[p].found = proc[p].expected
  BY <1>1, Typed DEF Process, EntityType, Mismatch
<1>3. /\ \A e : InLegacy(e)' = InLegacy(e) /\ InTable(e)' = InTable(e)
      /\ \A k \in Keys : ActionOf(p, k)' = ActionOf(p, k)
  BY <1>1, SameTables DEF ActionOf
<1>4. /\ SameTallies(p) /\ Publishes(p) /\ report'[p].counted = report[p].counted
      /\ \A e \in EntityType :
           /\ TallyOf(p, e)'.found = TallyOf(p, e).found
           /\ TallyOf(p, e)'.validated
                  = IF e = proc[p].ent THEN Validated(p) ELSE TallyOf(p, e).validated
  BY ValidatedAs
<1>5. \A e \in EntityType : Imported(p, e)' = Imported(p, e)
  <2> SUFFICES ASSUME NEW e \in EntityType PROVE Imported(p, e)' = Imported(p, e)
    OBVIOUS
  <2>1. e \in {"user", "sale"}
    BY DEF EntityType
  <2>2. CASE proc[p].ent = "sale"
    BY <1>1, <1>3, <2>2 DEF Imported, At
  <2>3. CASE proc[p].ent = "user"
    BY <1>1, <1>3, <2>1, <2>3 DEF Imported, At
  <2> QED
    BY <1>2, <2>2, <2>3
<1>6. TalliesMatch(p)'
  BY <1>1, <1>3, <1>4, <1>5, TalliesStay DEF Truth, At
<1>7. NothingWrong(p)'
  BY <1>1, <1>4 DEF Truth, NothingWrong, Publishes, At
<1>8. Validated(p) = InLegacy(proc[p].ent)
  <2>1. Cardinality(report[p].differing) = 0
    <3>1. report[p].differing = {}
      BY DEF Truth, NothingWrong
    <3> QED
      BY <3>1, FS_EmptySet
  <2>2. proc[p].found \in Nat
    BY Typed DEF Process
  <2>3. proc[p].expected = InLegacy(proc[p].ent)
    BY <1>1 DEF Truth, QueriesMatch, At
  <2> QED
    BY <1>2, <2>1, <2>2, <2>3 DEF Validated
<1>9. "user" \in EntityType /\ "sale" \in EntityType
  BY DEF EntityType
<1>10. QueriesMatch(p)'
  <2>1. \A e \in report'[p].counted : TallyOf(p, e)'.found = InLegacy(e)'
    BY <1>3, <1>4, CountsTyped DEF Truth, QueriesMatch
  <2>2. "user" \in report'[p].counted
    BY <1>1, <1>2, <1>4 DEF Truth, QueriesMatch, At
  <2>3. ~ At(p, "import_open")' => "sale" \in report'[p].counted
    BY <1>1, <1>2, <1>4 DEF Truth, QueriesMatch, At
  <2>4. TallyOf(p, "user")'.validated = InLegacy("user")'
    BY <1>2, <1>3, <1>4, <1>8, <1>9 DEF Truth, QueriesMatch
  <2> QED
    BY <1>1, <2>1, <2>2, <2>3, <2>4 DEF QueriesMatch, At
<1>11. EndsMatch(p)'
  BY <1>1, <1>2, <1>3, <1>4, <1>8, <1>9 DEF EndsMatch, At
<1> QED
  BY <1>6, <1>7, <1>10, <1>11 DEF Truth

LEMMA TruthResolved ==
    ASSUME TypeOK, ReportingTypeOK, NEW p \in Procs, Imports(p), Truth(p), RefsCounted(p),
           ~ proc'[p].bad
    PROVE  Truth(p)'
<1>1. /\ SameCommand(p) /\ At(p, "refs_next") /\ Orphans(p) = {}
      /\ proc'[p].pc = "complete" /\ legacy' = legacy /\ items' = items
  BY RefsEndDoes DEF RefsCounted, Silent, SameRows
<1>2. /\ \A e : InLegacy(e)' = InLegacy(e) /\ InTable(e)' = InTable(e)
      /\ \A k \in Keys : ActionOf(p, k)' = ActionOf(p, k)
  BY <1>1, SameTables DEF ActionOf, SameCommand
<1>3. /\ report'[p].stats.tally = report[p].stats.tally
      /\ SameRest(p) /\ report'[p].counted = report[p].counted
      /\ report'[p].stats.checked_sales_refs = InLegacy("sale")
      /\ report'[p].stats.orphan_sales = Cardinality(Orphans(p))
  BY ReferencesAs
<1>4. \A e \in EntityType : Imported(p, e)' = Imported(p, e)
  BY <1>1, ImportedKept DEF At
<1>5. \A e : TallyOf(p, e)' = TallyOf(p, e)
  BY <1>3 DEF TallyOf
<1>6. TalliesMatch(p)'
  BY <1>1, <1>2, <1>4, <1>5, TalliesStay DEF Truth, At, SameTallies
<1>7. NothingWrong(p)'
  BY <1>1, <1>3 DEF Truth, NothingWrong, SameRest, At
<1>8. QueriesMatch(p)'
  BY <1>1, <1>2, <1>3, <1>5 DEF Truth, QueriesMatch, At, SameCommand
<1>9. report'[p].stats.orphan_sales = 0
  BY <1>1, <1>3, FS_EmptySet
<1>10. EndsMatch(p)'
  BY <1>1, <1>2, <1>3, <1>5, <1>9 DEF Truth, EndsMatch, At, SameCommand
<1> QED
  BY <1>6, <1>7, <1>8, <1>10 DEF Truth

LEMMA SpeaksAdvance ==
    ASSUME TypeOK, TypeOK', Control, ReportingTypeOK, NEW p \in Procs, RAdvance(p), Due(p) = {},
           churn = 0, SpeaksTrue(p), RowsExist(p)
    PROVE  SpeaksTrue(p)'
<1> SUFFICES ASSUME Imports(p)', ~ proc'[p].bad PROVE Truth(p)'
  BY DEF SpeaksTrue
<1>1. InCommand(p) /\ (Imports(p) /\ ~ proc[p].bad => Truth(p))
  BY DEF Control, SpeaksTrue
<1>2. CASE Quiet(p)
  <2>1. report'[p] = report[p]
    BY <1>2 DEF Quiet
  <2>2. CASE ImportOpen(p) \/ ImportBegin(p)
    <3>1. Imports(p) /\ ~ proc[p].bad
      BY <2>2, ImportStepDoes DEF SameCommand, Imports
    <3> QED
      BY <1>1, <2>1, <2>2, <3>1, TruthImport
  <2>3. CASE ImportUpsert(p)
    <3>1. Imports(p) /\ ~ proc[p].bad /\ At(p, "upsert")
      BY <2>3, ImportUpsertDoes DEF SameCommand, Imports
    <3>2. proc[p].cur \in Pending(p)
      BY <3>1, Typed, ValuesAssumption DEF StageOK, At, Pending
    <3>3. Pending(p) \subseteq InTable(proc[p].ent)
      BY <3>1 DEF RowsExist, At
    <3> QED
      BY <1>1, <2>1, <2>3, <3>1, <3>2, <3>3, TruthUpsert
  <2>4. CASE \/ CountLegacy(p) \/ CheckOpen(p) \/ CheckItem(p) \/ CheckMark(p)
             \/ RefsOpen(p) \/ RefsGet(p)
    <3>1. Imports(p) /\ ~ proc[p].bad
      BY <2>4, CountLegacyDoes, CheckOpenDoes, CheckItemDoes, CheckMarkDoes, RefsOpenDoes,
         RefsGetDoes
         DEF SameCommand, Imports
    <3> QED
      BY <1>1, <2>1, <2>4, <3>1, TruthCheck
  <2>5. CASE CheckRowLost(p) \/ RefsGetLost(p)
    BY <2>5, CheckRowLostDoes, RefsGetLostDoes
  <2>6. CASE RollbackOpen(p) \/ DeleteAnswered(p) \/ RollbackMark(p) \/ SalesDone(p)
    <3>1. proc'[p].cmd = proc[p].cmd /\ proc[p].pc \in {"rb_open", "delete", "rb_mark", "rb_next"}
      BY <2>6, RollbackOpenDoes, DeleteAnsweredDoes, RollbackMarkDoes, SalesDoneDoes
         DEF SameCommand, At
    <3> QED
      BY <1>1, <3>1, CommandOf DEF Imports
  <2> QED
    BY <1>2, <2>2, <2>3, <2>4, <2>5, <2>6 DEF Quiet
<1>3. CASE SkipCounted(p)
  <2>1. Imports(p) /\ ~ proc[p].bad /\ At(p, "import_next")
    BY <1>3, ImportSkipDoes DEF SkipCounted, SameCommand, Imports
  <2>2. Pending(p) \subseteq InTable(proc[p].ent)
    BY <2>1 DEF RowsExist, At
  <2> QED
    BY <1>1, <1>3, <2>1, <2>2, TruthSkip
<1>4. CASE AnswerCounted(p) \/ FailureCounted(p)
  <2>1. Imports(p) /\ ~ proc[p].bad
    BY <1>4, PostAnsweredDoes, PostLostDoes, PostRefusedDoes
       DEF AnswerCounted, FailureCounted, SameCommand, Imports
  <2>2. CASE AnswerCounted(p) \/ proc'[p].pc = "upsert"
    BY <1>1, <1>4, <2>1, <2>2, TruthAnswer
  <2>3. CASE FailureCounted(p) /\ proc'[p].pc # "upsert"
    <3>1. report'[p] = report[p]
      BY <2>3, FailedAs
    <3>2. PostLost(p) /\ proc'[p].pc = "post"
      BY <2>3, PostLostDoes, PostRefusedDoes DEF FailureCounted
    <3> QED
      BY <1>1, <2>1, <3>1, <3>2, TruthImport
  <2> QED
    BY <1>4, <2>2, <2>3
<1>5. CASE ImportPersisted(p)
  <2>1. Imports(p) /\ ~ proc[p].bad /\ report'[p] = report[p]
    BY <1>5, ImportEndDoes DEF ImportPersisted, SameCommand, Imports
  <2> QED
    BY <1>1, <1>5, <2>1, TruthImport DEF ImportPersisted
<1>6. CASE RowCompared(p)
  <2>1. Imports(p) /\ ~ proc[p].bad
    BY <1>6, CheckRowDoes DEF RowCompared, SameCommand, Imports
  <2>2. report'[p] = report[p]
    BY <1>6, ComparedAs
  <2> QED
    BY <1>1, <1>6, <2>1, <2>2, TruthCheck DEF RowCompared
<1>7. CASE CheckCounted(p)
  <2>1. Imports(p) /\ ~ proc[p].bad
    BY <1>7, CheckEndDoes DEF CheckCounted, Imports, Mismatch
  <2> QED
    BY <1>1, <1>7, <2>1, TruthChecked
<1>8. CASE RefsCounted(p)
  <2>1. Imports(p) /\ ~ proc[p].bad
    BY <1>8, RefsEndDoes DEF RefsCounted, SameCommand, Imports
  <2> QED
    BY <1>1, <1>8, <2>1, TruthResolved
<1>9. CASE Finalized(p) \/ ValidateEnded(p) \/ RollbackEnded(p)
  <2>1. proc'[p] = IdleProcess
    BY <1>9, EndDoes DEF Finalized, ValidateEnded, RollbackEnded
  <2>2. proc'[p].cmd = "idle"
    BY <2>1 DEF IdleProcess
  <2> QED
    BY <2>2 DEF Imports
<1>10. CASE RollbackReadRecorded(p) \/ RemovalRecorded(p)
  <2>1. proc'[p].cmd = proc[p].cmd /\ proc[p].pc \in {"rb_next", "delete", "confirm"}
    BY <1>10, RollbackReadDoes, RollbackReadLostDoes, RollbackConfirmDoes, DeleteLostDoes,
       RemovalFailedDoes DEF RollbackReadRecorded, RemovalRecorded, SameCommand, At
  <2> QED
    BY <1>1, <2>1, CommandOf DEF Imports
<1> QED
  BY <1>2, <1>3, <1>4, <1>5, <1>6, <1>7, <1>8, <1>9, <1>10 DEF RAdvance

(* Who leaves a process in the middle of a table. *)
LEMMA WhoImports ==
    ASSUME TypeOK, NEW p \in Procs, Start(p) \/ Advance(p) \/ Trouble(p),
           proc'[p].pc \in {"import_next", "post", "upsert"}
    PROVE  \/ ImportOpen(p) \/ ImportSkip(p) \/ ImportBegin(p) \/ PostAnswered(p)
           \/ PostLost(p) \/ PostRefused(p) \/ ImportUpsert(p)
<1>1. ~ Start(p)
  BY StartDoes, BeginDoes
<1>2. ~ (\/ ImportEnd(p) \/ CountLegacy(p) \/ CheckOpen(p) \/ CheckRow(p) \/ CheckRowLost(p)
         \/ CheckItem(p) \/ CheckMark(p) \/ CheckEnd(p) \/ RefsOpen(p) \/ RefsGet(p)
         \/ RefsGetLost(p) \/ RefsEnd(p))
  BY ImportEndDoes, CountLegacyDoes, CheckOpenDoes, CheckRowDoes, CheckRowLostDoes,
     CheckItemDoes, CheckMarkDoes, CheckEndDoes, RefsOpenDoes, RefsGetDoes, RefsGetLostDoes,
     RefsEndDoes
<1>3. ~ Stops(p)
  BY EndDoes DEF Stops, IdleProcess
<1>4. ~ (\/ RollbackOpen(p) \/ RollbackRead(p) \/ RollbackReadLost(p) \/ RollbackMark(p)
         \/ SalesDone(p) \/ DeleteAnswered(p) \/ DeleteLost(p) \/ RollbackConfirm(p)
         \/ RemovalFailed(p))
  BY RollbackOpenDoes, RollbackReadDoes, RollbackReadLostDoes, RollbackMarkDoes, SalesDoneDoes,
     DeleteAnsweredDoes, DeleteLostDoes, RollbackConfirmDoes, RemovalFailedDoes
<1> QED
  BY <1>1, <1>2, <1>3, <1>4
     DEF Stops, Advance, Trouble, SnapshotStep, SnapshotTrouble, RollbackStep, RollbackTrouble

LEMMA RowsExistStep ==
    ASSUME TypeOK, NEW p \in Procs, RowsExist(p), ItemsExist, legacy' = legacy,
           Start(p) \/ Advance(p) \/ Trouble(p)
    PROVE  RowsExist(p)' /\ ItemsExist'
<1>1. RowsExist(p)'
  <2> SUFFICES ASSUME proc'[p].pc \in {"import_next", "post", "upsert"}
               PROVE  Pending(p)' \subseteq InTable(proc[p].ent)'
    BY DEF RowsExist
  <2>1. \/ ImportOpen(p) \/ ImportSkip(p) \/ ImportBegin(p) \/ PostAnswered(p)
        \/ PostLost(p) \/ PostRefused(p) \/ ImportUpsert(p)
    BY WhoImports
  <2>2. SameCommand(p)
    BY <2>1, ImportStepDoes
  <2> DEFINE table == InTable(proc[p].ent)
  <2>3. table' = table
    BY <2>2 DEF InTable, SameCommand, Rows
  <2>4. proc[p].pc \in {"import_next", "post", "upsert"} => Pending(p) \subseteq table
    BY DEF RowsExist
  <2>5. ImportOpen(p) => Pending(p)' = table
    BY OpensTable
  <2> HIDE DEF table
  <2>6. Pending(p)' \subseteq table
    <3>1. CASE ImportSkip(p)
      BY <2>4, <3>1, ImportSkipDoes, DropsOne DEF At
    <3>2. CASE ImportUpsert(p)
      <4>1. proc'[p].cursor = Drop(p, proc[p].cur) /\ At(p, "upsert")
        BY <3>2, ImportUpsertDoes
      <4>2. Pending(p)' = Pending(p) \ {proc[p].cur}
        BY <4>1, DropsOne
      <4> QED
        BY <2>4, <4>1, <4>2 DEF At
    <3>3. CASE ImportBegin(p) \/ PostAnswered(p) \/ PostLost(p) \/ PostRefused(p)
      <4>1. Pending(p)' = Pending(p) /\ proc[p].pc \in {"import_next", "post"}
        BY <3>3, ImportBeginDoes, PostAnsweredDoes, PostLostDoes, PostRefusedDoes, SameCursor
           DEF At
      <4> QED
        BY <2>4, <4>1
    <3> QED
      BY <2>1, <2>5, <3>1, <3>2, <3>3
  <2> QED
    BY <2>3, <2>6 DEF table
<1>2. ItemsExist'
  <2> SUFFICES ASSUME NEW r \in Runs, NEW k \in Keys, items'[r][k].action # "none"
               PROVE  legacy[k] # Absent
    BY DEF ItemsExist
  <2>1. CASE ImportUpsert(p) /\ k = proc[p].cur
    <3>1. At(p, "upsert")
      BY <2>1, ImportUpsertDoes
    <3>2. k \in Pending(p)
      BY <2>1, <3>1, Typed, ValuesAssumption DEF StageOK, At, Pending
    <3> QED
      BY <3>1, <3>2 DEF RowsExist, At, InTable
  <2>2. CASE items'[r][k].action = items[r][k].action
    BY <2>2 DEF ItemsExist
  <2> QED
    BY <2>1, <2>2, ItemAfter
<1> QED
  BY <1>1, <1>2

(***************************************************************************)
(* The stored report.                                                      *)
(***************************************************************************)
RecordAgrees(r) ==
    LET stats == record[r].stats IN
    /\ record[r].finished /\ record[r].divergences = {}
    /\ stats.orphan_sales = 0 /\ stats.http_failures = 0
    /\ \A ent \in EntityType :
         LET tally == stats.tally[ent] IN
         /\ tally.created = WithAction(r, ent, "created")
         /\ tally.unchanged = WithAction(r, ent, "unchanged")
         /\ tally.conflict = 0 /\ tally.failed = 0
         /\ tally.found = tally.created + tally.unchanged
         /\ tally.validated = tally.found
    /\ stats.checked_sales_refs = stats.tally["sale"].found

(* The rows of a table are those created and those unchanged. *)
LEMMA TableSplit ==
    ASSUME TypeOK, NEW p \in Procs, Truth(p), ItemsExist, At(p, "complete"),
           proc[p].run \in Runs, NEW ent \in EntityType
    PROVE  /\ ImportedAs(p, ent, "created") = {k \in Rows(ent) : ActionOf(p, k) = "created"}
           /\ ImportedAs(p, ent, "unchanged") = {k \in Rows(ent) : ActionOf(p, k) = "unchanged"}
           /\ ImportedAs(p, ent, "conflict") = {} /\ ImportedAs(p, ent, "failed") = {}
           /\ InLegacy(ent) = Cardinality(ImportedAs(p, ent, "created"))
                                  + Cardinality(ImportedAs(p, ent, "unchanged"))
<1>1. Imported(p, ent) = InTable(ent)
  <2>1. proc[p].ent = "sale"
    BY DEF Truth, EndsMatch, At
  <2> QED
    BY <2>1 DEF Imported, At, EntityType
<1>2. \A k \in InTable(ent) : ActionOf(p, k) \in {"created", "unchanged"}
  BY <1>1 DEF Truth, TalliesMatch
<1>3. \A k \in Rows(ent) : ActionOf(p, k) # "none" => k \in InTable(ent)
  BY RowsSplit DEF ItemsExist, ActionOf, InTable, EntityType
<1>4. /\ ImportedAs(p, ent, "created") = {k \in Rows(ent) : ActionOf(p, k) = "created"}
      /\ ImportedAs(p, ent, "unchanged") = {k \in Rows(ent) : ActionOf(p, k) = "unchanged"}
  BY <1>1, <1>3 DEF ImportedAs, InTable
<1>5. ImportedAs(p, ent, "conflict") = {} /\ ImportedAs(p, ent, "failed") = {}
  BY <1>1, <1>2 DEF ImportedAs
<1> DEFINE S == ImportedAs(p, ent, "created")
           T == ImportedAs(p, ent, "unchanged")
<1>6. InTable(ent) = S \union T /\ S \intersect T = {}
  BY <1>1, <1>2 DEF ImportedAs
<1>7. IsFiniteSet(S) /\ IsFiniteSet(T) /\ Cardinality(S) \in Nat /\ Cardinality(T) \in Nat
      /\ InLegacy(ent) = Cardinality(InTable(ent))
  BY ImportedRows
<1> HIDE DEF S, T
<1>8. Cardinality(S \union T) = Cardinality(S) + Cardinality(T)
  BY <1>6, <1>7, FS_Union, FS_EmptySet
<1>9. InLegacy(ent) = Cardinality(S) + Cardinality(T)
  BY <1>6, <1>7, <1>8
<1> QED
  BY <1>4, <1>5, <1>9 DEF S, T

LEMMA CompleteAgrees ==
    ASSUME TypeOK, Control, ReportingTypeOK, NEW p \in Procs, Truth(p), ItemsExist,
           At(p, "complete"), Finalized(p), NEW r \in Runs, r = proc[p].run
    PROVE  RecordAgrees(r)'
<1>3. /\ record'[r] = Closed(Envelope(record[r], report[p]), FALSE) /\ items' = items
  BY EndDoes, ReportTyped DEF Finalized
<1>4. /\ record[r] \in RunRecord /\ report[p] \in ProcessReport
  BY ReportTyped
<1>5. /\ record'[r].stats = report[p].stats /\ record'[r].finished
      /\ record'[r].divergences = report[p].divergences
  BY <1>3, <1>4 DEF Closed, Envelope, RunRecord
<1>6. "user" \in report[p].counted /\ "sale" \in report[p].counted
  BY DEF Truth, QueriesMatch, EndsMatch, At
<1>7. ASSUME NEW ent \in EntityType
      PROVE  /\ TallyOf(p, ent).created = WithAction(r, ent, "created")
             /\ TallyOf(p, ent).unchanged = WithAction(r, ent, "unchanged")
             /\ TallyOf(p, ent).conflict = 0 /\ TallyOf(p, ent).failed = 0
             /\ TallyOf(p, ent).found = TallyOf(p, ent).created + TallyOf(p, ent).unchanged
             /\ TallyOf(p, ent).validated = TallyOf(p, ent).found
             /\ TallyOf(p, ent).found = InLegacy(ent)
  <2>1. \A a \in ImportAction :
           /\ TallyOf(p, ent)[a] = Cardinality(ImportedAs(p, ent, a)) + AnswerInHand(p, ent, a)
           /\ AnswerInHand(p, ent, a) = 0 /\ Cardinality(ImportedAs(p, ent, a)) \in Nat
    BY ImportedRows DEF Truth, TalliesMatch, AnswerInHand, At
  <2>2. \A a \in ImportAction : TallyOf(p, ent)[a] = Cardinality(ImportedAs(p, ent, a))
    BY <2>1
  <2>3. /\ TallyOf(p, ent).created = Cardinality(ImportedAs(p, ent, "created"))
        /\ TallyOf(p, ent).unchanged = Cardinality(ImportedAs(p, ent, "unchanged"))
        /\ TallyOf(p, ent).conflict = Cardinality(ImportedAs(p, ent, "conflict"))
        /\ TallyOf(p, ent).failed = Cardinality(ImportedAs(p, ent, "failed"))
    BY <2>2 DEF ImportAction
  <2>0. \A a : WithAction(r, ent, a) = Cardinality({k \in Rows(ent) : ActionOf(p, k) = a})
    BY DEF WithAction, ActionOf
  <2>4. /\ Cardinality(ImportedAs(p, ent, "created")) = WithAction(r, ent, "created")
        /\ Cardinality(ImportedAs(p, ent, "unchanged")) = WithAction(r, ent, "unchanged")
        /\ ImportedAs(p, ent, "conflict") = {} /\ ImportedAs(p, ent, "failed") = {}
        /\ InLegacy(ent) = Cardinality(ImportedAs(p, ent, "created"))
                               + Cardinality(ImportedAs(p, ent, "unchanged"))
    BY <2>0, TableSplit
  <2>5. TallyOf(p, ent).found = InLegacy(ent)
    BY <1>6 DEF Truth, QueriesMatch, EntityType
  <2>6. TallyOf(p, ent).validated = InLegacy(ent)
    BY DEF Truth, QueriesMatch, EndsMatch, EntityType, At
  <2> QED
    BY <2>3, <2>4, <2>5, <2>6, FS_EmptySet
<1>8. \A ent, a : WithAction(r, ent, a)' = WithAction(r, ent, a)
  BY <1>3 DEF WithAction, Rows
<1>9. /\ report[p].stats.orphan_sales = 0 /\ report[p].stats.http_failures = 0
      /\ report[p].divergences = {} /\ report[p].stats.checked_sales_refs = InLegacy("sale")
  BY NoFailureYet DEF Truth, NothingWrong, EndsMatch, At
<1>10. "sale" \in EntityType
  BY DEF EntityType
<1> QED
  BY <1>5, <1>7, <1>8, <1>9, <1>10 DEF RecordAgrees, TallyOf

LEMMA AgreesKept ==
    ASSUME NEW r \in Runs, RecordAgrees(r), record'[r] = record[r],
           \A k \in Keys : items'[r][k].action = items[r][k].action
    PROVE  RecordAgrees(r)'
<1>1. \A ent \in EntityType : \A a : WithAction(r, ent, a)' = WithAction(r, ent, a)
  <2> SUFFICES ASSUME NEW ent \in EntityType, NEW a
               PROVE  WithAction(r, ent, a)' = WithAction(r, ent, a)
    OBVIOUS
  <2>1. {k \in Rows(ent) : items'[r][k].action = a} = {k \in Rows(ent) : items[r][k].action = a}
    BY RowsSplit DEF EntityType
  <2> QED
    BY <2>1 DEF WithAction, Rows
<1> QED
  BY <1>1 DEF RecordAgrees

(* Only the command that drives a run, or the rollback that ends it, writes its record. *)
LEMMA RecordKept ==
    ASSUME TypeOK, Control, ReportingTypeOK, NEW p \in Procs, HolderOK(p),
           Started(p) \/ RAdvance(p) \/ Aborted(p) \/ Killed(p),
           NEW r \in Runs, status[r] = "COMPLETED", status'[r] = "COMPLETED"
    PROVE  /\ record'[r] = record[r]
           /\ \A k \in Keys : items'[r][k].action = items[r][k].action
<1>1. InCommand(p) /\ (Imports(p) => proc[p].run # r)
  BY DEF Control, HolderOK, RunOpen, ResumeBlocked, Imports
<1>2. Start(p) \/ Advance(p) \/ Trouble(p)
  BY RAdvanceIsAdvance DEF Started, Aborted, Killed, Trouble, SnapshotTrouble
<1>3. ASSUME NEW row, record' = [record EXCEPT ![proc[p].run] = row], proc[p].run # r
      PROVE  record'[r] = record[r]
  BY <1>3, ReportTyped
<1>4. record'[r] = record[r]
  <2>1. CASE Started(p) \/ Killed(p) \/ Quiet(p) \/ SkipCounted(p) \/ AnswerCounted(p)
             \/ FailureCounted(p) \/ RowCompared(p) \/ ValidateEnded(p)
             \/ RollbackReadRecorded(p) \/ RemovalRecorded(p)
    BY <2>1 DEF Started, Killed, Quiet, SkipCounted, AnswerCounted, FailureCounted, RowCompared,
                ValidateEnded, RollbackReadRecorded, RemovalRecorded
  <2>2. CASE ImportPersisted(p)
    <3>1. Imports(p)
      BY <1>1, <2>2, CommandOf DEF ImportPersisted, ImportEnd, At, Imports
    <3> QED
      BY <1>1, <1>3, <2>2, <3>1 DEF ImportPersisted, Persist
  <2>3. CASE CheckCounted(p)
    BY <1>1, <1>3, <2>3 DEF CheckCounted, Persist
  <2>4. CASE RefsCounted(p)
    <3>1. proc'[p].pc = "complete" => Imports(p)
      BY <2>4, RefsEndDoes DEF RefsCounted
    <3> QED
      BY <1>1, <1>3, <2>4, <3>1 DEF RefsCounted, Persist
  <2>5. CASE Finalized(p)
    <3>1. Imports(p)
      BY <1>1, <2>5, CommandOf DEF Finalized, Finalize, Imports
    <3> QED
      BY <1>1, <1>3, <2>5, <3>1 DEF Finalized
  <2>6. CASE Aborted(p)
    <3>1. Imports(p)
      BY <2>6, AbortDoes DEF Aborted
    <3> QED
      BY <1>1, <1>3, <2>6, <3>1 DEF Aborted
  <2>7. CASE RollbackEnded(p)
    <3>1. CASE ~ Dry(p) /\ ~ proc[p].bad
      <4>1. status' = [status EXCEPT ![proc[p].run] = "ROLLED_BACK"]
        BY <2>7, <3>1, RollbackEndDoes DEF RollbackEnded
      <4>2. proc[p].run # r
        BY <4>1, Typed
      <4> QED
        BY <1>3, <2>7, <3>1, <4>2 DEF RollbackEnded
    <3>2. CASE ~ (~ Dry(p) /\ ~ proc[p].bad)
      BY <2>7, <3>2 DEF RollbackEnded
    <3> QED
      BY <3>1, <3>2
  <2> QED
    BY <2>1, <2>2, <2>3, <2>4, <2>5, <2>6, <2>7 DEF RAdvance
<1>5. \A k \in Keys : items'[r][k].action = items[r][k].action
  <2>1. CASE ImportUpsert(p)
    <3>1. Imports(p)
      BY <2>1, ImportUpsertDoes, Typed DEF StageOK, At, Imports
    <3> QED
      BY <1>1, <1>2, <2>1, <3>1, ItemAfter
  <2>2. CASE ~ ImportUpsert(p)
    BY <1>2, <2>2, ActionsKept
  <2> QED
    BY <2>1, <2>2
<1> QED
  BY <1>4, <1>5

(* A run becomes COMPLETED at the end of phase 5. *)
LEMMA WhoCompletes ==
    ASSUME TypeOK, Control, NEW p \in Procs, NEW r \in Runs,
           Started(p) \/ RAdvance(p) \/ Aborted(p) \/ Killed(p),
           status[r] # "COMPLETED", status'[r] = "COMPLETED"
    PROVE  Finalized(p) /\ At(p, "complete") /\ r = proc[p].run
<1>1. InCommand(p)
  BY DEF Control
<1>2. ~ Started(p)
  <2>1. Start(p) => status'[r] \in {status[r], "STARTED"}
    BY StartDoes, Typed
  <2> QED
    BY <2>1 DEF Started
<1>3. ~ (Aborted(p) \/ Killed(p))
  BY AbortDoes, StopsQuietly, Typed DEF Aborted, Killed
<1>4. CASE RAdvance(p)
  <2>1. Advance(p) \/ Trouble(p)
    BY <1>4, RAdvanceIsAdvance
  <2>2. Stops(p) /\ r = proc[p].run
    BY <1>1, <2>1, StatusAfter DEF ResumeBlocked
  <2>3. ~ RollbackEnd(p)
    BY <2>2, RollbackEndDoes, Typed
  <2>4. ~ (Report(p) \/ Crash(p) \/ Abort(p))
    BY StopsQuietly, AbortDoes, Typed
  <2>5. Finalize(p) /\ At(p, "complete")
    BY <2>2, <2>3, <2>4, FinalizeDoes, Typed DEF Stops, At
  <2>6. ~ (\/ SkipCounted(p) \/ AnswerCounted(p) \/ FailureCounted(p) \/ ImportPersisted(p)
           \/ RowCompared(p) \/ CheckCounted(p) \/ RefsCounted(p) \/ ValidateEnded(p))
    BY <2>5, ImportSkipDoes, PostAnsweredDoes, PostLostDoes, PostRefusedDoes, ImportEndDoes,
       CheckRowDoes, CheckEndDoes, RefsEndDoes
       DEF SkipCounted, AnswerCounted, FailureCounted, ImportPersisted, RowCompared,
           CheckCounted, RefsCounted, ValidateEnded, Report, At
  <2>7. ~ (RollbackReadRecorded(p) \/ RemovalRecorded(p) \/ RollbackEnded(p))
    BY <2>5, RollbackReadDoes, RollbackReadLostDoes, RollbackConfirmDoes, DeleteLostDoes,
       RemovalFailedDoes, RollbackEndDoes
       DEF RollbackReadRecorded, RemovalRecorded, RollbackEnded, At
  <2>8. ~ Quiet(p)
    BY <2>5, ImportOpenDoes, ImportBeginDoes, ImportUpsertDoes, CountLegacyDoes, CheckOpenDoes,
       CheckRowLostDoes, CheckItemDoes, CheckMarkDoes, RefsOpenDoes, RefsGetDoes, RefsGetLostDoes,
       RollbackOpenDoes, DeleteAnsweredDoes, RollbackMarkDoes, SalesDoneDoes DEF Quiet, At
  <2> QED
    BY <1>4, <2>2, <2>5, <2>6, <2>7, <2>8 DEF RAdvance
<1> QED
  BY <1>2, <1>3, <1>4

LEMMA RecordStep ==
    ASSUME OneCommand, TypeOK, TypeOK', Control, ReportingTypeOK, HolderInv, RecordedInv,
           RecordInv, [RNext]_rvars
    PROVE  RecordInv'
<1>1. (churn' = 0 => churn = 0 /\ legacy' = legacy)
  <2>1. [Next]_vars /\ churn \in Nat
    BY RNextIsNext DEF TypeOK, rvars, vars
  <2>2. \/ UNCHANGED <<churn, legacy>>
        \/ churn < MaxChurn /\ churn' = churn + 1
    BY <2>1, WhoChurns
  <2> QED
    BY <2>1, <2>2
<1> SUFFICES ASSUME churn' = 0
             PROVE  /\ \A r \in Runs : status'[r] = "COMPLETED" => RecordAgrees(r)'
                    /\ ItemsExist'
                    /\ \A p \in Procs : SpeaksTrue(p)' /\ RowsExist(p)'
  BY DEF RecordInv, CompletedReportAgrees, RecordAgrees, SpeaksTrue
<1>2. /\ churn = 0 /\ legacy' = legacy /\ ItemsExist
      /\ \A r \in Runs : status[r] = "COMPLETED" => RecordAgrees(r)
      /\ \A p \in Procs : SpeaksTrue(p) /\ RowsExist(p)
  BY <1>1 DEF RecordInv, CompletedReportAgrees, RecordAgrees
<1>3. CASE UNCHANGED <<proc, status, items, report, record>>
  <2>1. \A r \in Runs : status'[r] = "COMPLETED" => RecordAgrees(r)'
    BY <1>2, <1>3, AgreesKept
  <2>2. ItemsExist'
    BY <1>2, <1>3 DEF ItemsExist
  <2>3. \A p \in Procs : RowsExist(p)'
    BY <1>2, <1>3 DEF RowsExist, InTable, Rows, Pending
  <2>4. ASSUME NEW p \in Procs PROVE SpeaksTrue(p)'
    <3>1. SpeaksTrue(p)
      BY <1>2
    <3> QED
      BY <1>2, <1>3, <3>1
         DEF SpeaksTrue, Truth, TalliesMatch, NothingWrong, QueriesMatch, EndsMatch, Imports,
             At, TallyOf, ImportedAs, Imported, ActionOf, AnswerInHand, InTable, InLegacy,
             Pending, Rows
  <2> QED
    BY <2>1, <2>2, <2>3, <2>4
<1>4. ASSUME NEW p \in Procs, CountFound(p)
      PROVE  /\ UNCHANGED <<proc, status, items, record>> /\ SpeaksTrue(p)'
  <2>1. UNCHANGED <<vars, record>>
    BY <1>4, FoundAs
  <2>2. UNCHANGED <<proc, status, items, record>>
    BY <2>1 DEF vars, store
  <2>3. SpeaksTrue(p)'
    BY <1>2, <1>4, <2>2, TruthFound DEF SpeaksTrue, Imports
  <2> QED
    BY <2>2, <2>3
<1>5. CASE \E p \in Procs : CountFound(p)
  <2>1. UNCHANGED <<proc, status, items, record>> /\ \A p \in Procs : SpeaksTrue(p)'
    BY <1>4, <1>5 DEF OneCommand
  <2>2. \A r \in Runs : status'[r] = "COMPLETED" => RecordAgrees(r)'
    BY <1>2, <2>1, AgreesKept
  <2>3. ItemsExist'
    BY <1>2, <2>1 DEF ItemsExist
  <2>4. \A p \in Procs : RowsExist(p)'
    BY <1>2, <2>1 DEF RowsExist, InTable, Rows, Pending
  <2> QED
    BY <2>1, <2>2, <2>3, <2>4
<1>6. ASSUME NEW p \in Procs,
             \/ Started(p) \/ Aborted(p) \/ Killed(p)
             \/ Due(p) = {} /\ RAdvance(p)
      PROVE  /\ \A r \in Runs : status'[r] = "COMPLETED" => RecordAgrees(r)'
             /\ ItemsExist' /\ RowsExist(p)' /\ SpeaksTrue(p)'
  <2> Started(p) \/ RAdvance(p) \/ Aborted(p) \/ Killed(p)
    BY <1>6
  <2>1. Start(p) \/ Advance(p) \/ Trouble(p)
    BY RAdvanceIsAdvance DEF Started, Aborted, Killed, Trouble, SnapshotTrouble
  <2>2. ItemsExist' /\ RowsExist(p)'
    BY <1>2, <2>1, RowsExistStep
  <2>3. ASSUME NEW r \in Runs, status'[r] = "COMPLETED" PROVE RecordAgrees(r)'
    <3>1. CASE status[r] = "COMPLETED"
      BY <1>2, <1>6, <2>3, <3>1, RecordKept, AgreesKept DEF HolderInv
    <3>2. CASE status[r] # "COMPLETED"
      <4>1. Finalized(p) /\ At(p, "complete") /\ r = proc[p].run
        BY <1>6, <2>3, <3>2, WhoCompletes
      <4>2. ~ proc[p].bad /\ Imports(p)
        BY <4>1, CommandOf DEF RecordedInv, RecordedOK, CompleteIsGood, Control, At, Imports
      <4>3. Truth(p)
        BY <1>2, <4>2 DEF SpeaksTrue
      <4> QED
        BY <1>2, <4>1, <4>3, CompleteAgrees
    <3> QED
      BY <3>1, <3>2
  <2>4. SpeaksTrue(p)'
    <3>1. CASE Started(p)
      <4> SUFFICES ASSUME Imports(p)' PROVE Truth(p)'
        BY DEF SpeaksTrue
      <4>1. proc'[p].pc = "import_open" /\ proc'[p].ent = "user"
        BY <3>1, StartDoes, BeginDoes DEF Started, Imports
      <4>2. \E b \in BOOLEAN : Note(p, NewReport(b))
        BY <3>1 DEF Started
      <4> QED
        BY <4>1, <4>2, TruthStarted
    <3>2. CASE Due(p) = {} /\ RAdvance(p)
      BY <1>2, <3>2, SpeaksAdvance
    <3>3. CASE Aborted(p) \/ Killed(p)
      <4>1. proc'[p] = IdleProcess
        BY <3>3, EndDoes DEF Aborted, Killed
      <4>2. proc'[p].cmd = "idle"
        BY <4>1 DEF IdleProcess
      <4> QED
        BY <4>2 DEF SpeaksTrue, Imports
    <3> QED
      BY <1>6, <3>1, <3>2, <3>3
  <2> QED
    BY <2>2, <2>3, <2>4
<1>7. CASE \E p \in Procs : \/ Started(p) \/ Aborted(p) \/ Killed(p)
                            \/ Due(p) = {} /\ RAdvance(p)
  <2>1. PICK p \in Procs : \/ Started(p) \/ Aborted(p) \/ Killed(p)
                           \/ Due(p) = {} /\ RAdvance(p)
    BY <1>7
  <2>2. \A q \in Procs : q = p
    BY DEF OneCommand
  <2> QED
    BY <1>6, <2>1, <2>2
<1>8. CASE Elsewhere /\ UNCHANGED <<report, record, exit>>
  <2>1. ASSUME NEW q \in wire, Arrive(q) PROVE UNCHANGED <<proc, status, items>>
    BY <2>1 DEF Arrive, store, budget
  <2>2. ASSUME NEW k \in Keys, NEW v \in Contents, LegacyWrite(k, v) \/ ServiceWrite(k, v)
        PROVE  UNCHANGED <<proc, status, items>>
    BY <2>2 DEF LegacyWrite, ServiceWrite, store
  <2>3. UNCHANGED <<proc, status, items>>
    BY <1>8, <2>1, <2>2 DEF Elsewhere
  <2> QED
    BY <1>3, <1>8, <2>3
<1>9. CASE \E p \in Procs : TurnedAway(p)
  BY <1>3, <1>9 DEF TurnedAway, vars, store
<1>10. CASE UNCHANGED rvars
  BY <1>3, <1>10 DEF rvars, vars, store
<1> QED
  BY <1>5, <1>7, <1>8, <1>9, <1>10 DEF RNext

(* The report stored with a COMPLETED run agrees with the items of the run, and
   carries nothing of the failures of earlier attempts, as long as the monolith
   rests: after any crashes, aborts and resumes, for any rows, runs and bounds
   (README.md:115, the report of the run is the last one computed). *)
THEOREM CompletedReportAgreesHolds ==
    OneCommand => (RSpec => []CompletedReportAgrees)
<1> SUFFICES ASSUME OneCommand PROVE RSpec => []CompletedReportAgrees
  OBVIOUS
<1> DEFINE Known == TypeOK /\ Control /\ ReportingTypeOK /\ HolderInv /\ RecordedInv
<1>1. RSpec => []Known
  BY ControlAlways, ReportingTypes, ReportingObserves, HolderAlways, RecordedAlways, PTL
<1>2. RInit => RecordInv
  BY DEF RInit, Init, RecordInv, CompletedReportAgrees, ItemsExist, RowsExist, SpeaksTrue,
         Imports, IdleProcess, NoItem
<1>3. Known /\ Known' /\ RecordInv /\ [RNext]_rvars => RecordInv'
  BY RecordStep
<1>4. RecordInv => CompletedReportAgrees
  BY DEF RecordInv
<1> HIDE DEF Known
<1> QED
  BY <1>1, <1>2, <1>3, <1>4, PTL DEF RSpec
============================================================================
