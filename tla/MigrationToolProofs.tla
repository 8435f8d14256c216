------------------------ MODULE MigrationToolProofs ------------------------
(***************************************************************************)
(* Proofs about MigrationTool, for every value of its constants: any       *)
(* number of rows, runs and processes, any bounds.                         *)
(***************************************************************************)
EXTENDS MigrationTool, TLAPS, FiniteSetTheorems

USE DEF Keys, Contents, Tables

(* A step of one process changes that process only. *)
LEMMA StepLemma ==
    ASSUME NEW p \in Procs, NEW r \in Process, proc \in [Procs -> Process], Step(p, r)
    PROVE  /\ proc' \in [Procs -> Process]
           /\ proc'[p] = r
           /\ \A q \in Procs : q # p => proc'[q] = proc[q]
BY DEF Step

(* The memory of a process that runs nothing. *)
LEMMA IdleLemma == IdleProcess \in Process
BY KeysAssumption DEF IdleProcess, Process, NoRows, EntityType, Stage

(* What a query on one table returns is again a table. *)
LEMMA SelectLemma ==
    ASSUME NEW table \in Tables, NEW ent
    PROVE  Select(ent, table) \in Tables
BY DEF Select

LEMMA DropLemma ==
    ASSUME NEW p \in Procs, NEW k, proc[p] \in Process
    PROVE  Drop(p, k) \in Tables
BY DEF Drop, Process

(* The number of rows of one table. *)
LEMMA CountLemma ==
    ASSUME NEW ent
    PROVE  Cardinality({k \in Rows(ent) : legacy[k] # Absent}) \in Nat
<1>1. IsFiniteSet(Rows(ent))
  BY FiniteAssumption DEF Rows
<1>2. IsFiniteSet({k \in Rows(ent) : legacy[k] # Absent})
  BY <1>1, FS_Subset
<1> QED
  BY <1>2, FS_CardinalityType

(* A service that runs a request keeps well-typed rows. *)
LEMMA RunLemma ==
    ASSUME svc \in Tables, origin \in [Keys -> Runs \union {NoRun}],
           NEW q \in Request, Run(q)
    PROVE  svc' \in Tables /\ origin' \in [Keys -> Runs \union {NoRun}]
BY DEF Run, Request, Stored

LEMMA NoticedLemma ==
    ASSUME touched \in [Procs -> SUBSET Keys], NEW rows \in SUBSET Keys, NEW by, Noticed(rows, by)
    PROVE  touched' \in [Procs -> SUBSET Keys]
BY DEF Noticed

LEMMA BeginLemma ==
    ASSUME NEW p \in Procs, NEW r \in Runs \union {NoRun}, NEW ent \in EntityType,
           NEW cmd \in {"snapshot", "validate", "rollback", "dry"},
           NEW stage \in Stage,
           touched \in [Procs -> SUBSET Keys], proc \in [Procs -> Process],
           Begin(p, cmd, r, ent, stage)
    PROVE  /\ proc' \in [Procs -> Process] /\ touched' \in [Procs -> SUBSET Keys]
           /\ proc'[p].cmd = cmd /\ proc'[p].pc = stage /\ proc'[p].run = r
           /\ proc'[p].ent = ent
           /\ \A q \in Procs : q # p => proc'[q] = proc[q]
<1> DEFINE me == [IdleProcess EXCEPT !.cmd = cmd, !.run = r, !.ent = ent, !.pc = stage]
<1>1. me \in Process
  BY IdleLemma DEF Process
<1>2. me.cmd = cmd /\ me.pc = stage /\ me.run = r /\ me.ent = ent
  BY IdleLemma DEF Process
<1> HIDE DEF me
<1>3. Step(p, me)
  BY DEF Begin, me
<1> QED
  BY <1>1, <1>2, <1>3, StepLemma DEF Begin

(***************************************************************************)
(* Type correctness.                                                       *)
(***************************************************************************)

(* An item, once written, is never taken back. *)
ItemsGrow ==
    /\ items' \in [Runs -> [Keys -> Item]]
    /\ \A r \in Runs, k \in Keys :
          items[r][k].action # "none" => items'[r][k].action # "none"

LEMMA OthersLemma ==
    ASSUME TypeOK, ItemsGrow, NEW p \in Procs, NEW q \in Procs, proc'[q] = proc[q]
    PROVE  StageOK(q)'
<1>1. StageOK(q) /\ proc[q] \in Process
  BY DEF TypeOK
<1>2. \A r \in Runs, k \in Keys :
          items[r][k].action # "none" => items'[r][k].action # "none"
  BY DEF ItemsGrow
<1>3. Pending(q)' = Pending(q) /\ Pending(q) \subseteq Keys /\ Dry(q)' = Dry(q)
  BY DEF Pending, Dry
<1>4. /\ proc[q].pc \in {"rb_next", "delete", "confirm", "rb_mark"} =>
             \A k \in Pending(q)' : items'[proc[q].run][k].action # "none"
      /\ proc[q].pc = "check_mark" => items'[proc[q].run][proc[q].cur].action # "none"
  BY <1>1, <1>2, <1>3 DEF StageOK
<1>5. proc[q].pc \in {"delete", "confirm", "rb_mark"} =>
           proc[q].cur \in Keys /\ items'[proc[q].run][proc[q].cur].action # "none"
  BY <1>1, <1>2 DEF StageOK
<1> QED
  BY <1>1, <1>3, <1>4, <1>5 DEF StageOK

(* The part of the proof every step of a process shares. *)
LEMMA ProcessStep ==
    ASSUME TypeOK, ItemsGrow, NEW p \in Procs, NEW r \in Process, Step(p, r),
           proc'[p] = r => StageOK(p)'
    PROVE  proc' \in [Procs -> Process] /\ \A q \in Procs : StageOK(q)'
<1>1. /\ proc' \in [Procs -> Process]
      /\ proc'[p] = r
      /\ \A q \in Procs : q # p => proc'[q] = proc[q]
  BY StepLemma DEF TypeOK
<1>2. \A q \in Procs : StageOK(q)'
  BY <1>1, OthersLemma
<1> QED
  BY <1>1, <1>2

LEMMA ItemsKept ==
    ASSUME TypeOK, UNCHANGED items
    PROVE  ItemsGrow
BY DEF TypeOK, ItemsGrow

(* A step that writes in the state store at most. *)
LEMMA StoreStep ==
    ASSUME TypeOK, ItemsGrow, NEW p \in Procs, NEW r \in Process, Step(p, r),
           proc'[p] = r => StageOK(p)',
           status' \in [Runs -> StoredStatus], faults' \in Nat,
           UNCHANGED <<world, churn, drift, history>>
    PROVE  TypeOK'
<1>1. proc' \in [Procs -> Process] /\ \A q \in Procs : StageOK(q)'
  BY ProcessStep
<1> QED
  BY <1>1 DEF TypeOK, ItemsGrow, world, history

(* A step that changes the memory of the process only. *)
LEMMA LocalStep ==
    ASSUME TypeOK, NEW p \in Procs, NEW r \in Process, Step(p, r),
           proc'[p] = r => StageOK(p)', faults' \in Nat,
           UNCHANGED <<world, store, churn, drift, history>>
    PROVE  TypeOK'
<1>1. ItemsGrow /\ status' \in [Runs -> StoredStatus]
  BY ItemsKept DEF TypeOK, store
<1> QED
  BY <1>1, StoreStep

LEMMA FaultLemma == ASSUME TypeOK, Fault PROVE faults' \in Nat
BY DEF TypeOK, Fault

(* A process that stops, by itself or killed. *)
LEMMA ExitLemma ==
    ASSUME TypeOK, ItemsGrow, NEW p \in Procs, Exit(p),
           status' \in [Runs -> StoredStatus], faults' \in Nat,
           UNCHANGED <<world, churn, drift, history>>
    PROVE  TypeOK'
<1>1. IdleProcess \in Process
  BY IdleLemma
<1>2. proc'[p] = IdleProcess => StageOK(p)'
  BY <1>1 DEF StageOK, IdleProcess
<1> QED
  BY <1>1, <1>2, StoreStep DEF Exit

LEMMA TypeStart ==
    ASSUME TypeOK, NEW p \in Procs, Start(p)
    PROVE  TypeOK'
<1> DEFINE Started(cmd, r, ent, stage) ==
             /\ Begin(p, cmd, r, ent, stage)
             /\ status' \in [Runs -> StoredStatus]
             /\ UNCHANGED <<world, items, budget, pre, origin>>
           Right(cmd, r, ent, stage) ==
             \/ cmd = "snapshot" /\ r \in Runs /\ stage = "import_open"
             \/ cmd = "validate" /\ stage = "count"
             \/ cmd \in {"rollback", "dry"} /\ r \in Runs /\ stage = "rb_open"
<1>1. ASSUME NEW cmd \in {"snapshot", "validate", "rollback", "dry"},
             NEW r \in Runs \union {NoRun}, NEW ent \in EntityType,
             NEW stage \in Stage, Started(cmd, r, ent, stage), Right(cmd, r, ent, stage)
      PROVE  TypeOK'
  <2>1. /\ proc' \in [Procs -> Process] /\ touched' \in [Procs -> SUBSET Keys]
        /\ proc'[p].cmd = cmd /\ proc'[p].pc = stage /\ proc'[p].run = r
        /\ \A q \in Procs : q # p => proc'[q] = proc[q]
    <3>1. Begin(p, cmd, r, ent, stage)
      BY <1>1
    <3>2. touched \in [Procs -> SUBSET Keys] /\ proc \in [Procs -> Process]
      BY DEF TypeOK
    <3> QED
      BY <3>1, <3>2, BeginLemma
  <2>2. StageOK(p)'
    BY <2>1, <1>1 DEF StageOK
  <2>3. \A q \in Procs : StageOK(q)'
    BY <2>1, <2>2, <1>1, ItemsKept, OthersLemma
  <2> QED
    BY <1>1, <2>1, <2>3 DEF TypeOK, world, budget
<1>2. ASSUME NEW r \in Runs, StartSnapshot(p, r) PROVE TypeOK'
  <2>1. status' \in [Runs -> StoredStatus]
    BY <1>2 DEF StartSnapshot, TypeOK, StoredStatus, RunStatus
  <2> QED
    BY <2>1, <1>1, <1>2 DEF StartSnapshot, EntityType, Stage
<1>3. ASSUME NEW r \in Runs, StartResume(p, r) PROVE TypeOK'
  BY <1>1, <1>3 DEF StartResume, EntityType, Stage, store, TypeOK
<1>4. ASSUME NEW r \in Runs \union {NoRun}, StartValidate(p, r) PROVE TypeOK'
  BY <1>1, <1>4 DEF StartValidate, EntityType, Stage, store, TypeOK
<1>5. ASSUME NEW r \in Runs, NEW c \in BOOLEAN, NEW dry \in BOOLEAN,
             StartRollback(p, r, c, dry)
      PROVE  TypeOK'
  BY <1>1, <1>5 DEF StartRollback, EntityType, Stage, store, TypeOK
<1> QED
  BY <1>2, <1>3, <1>4, <1>5 DEF Start, SnapshotStart, RollbackStart

(* The rows a cursor has left, and the one in hand. *)
LEMMA NextLemma ==
    ASSUME NEW p \in Procs, NEW k, proc[p] \in Process, IsNext(p, k)
    PROVE  k \in Keys /\ k \in Pending(p) /\ proc[p].cursor[k] \in Values
BY DEF IsNext, Pending, Process

LEMMA TypeImport ==
    ASSUME TypeOK, NEW p \in Procs,
           ImportOpen(p) \/ ImportSkip(p) \/ ImportBegin(p) \/ ImportUpsert(p) \/ ImportEnd(p)
    PROVE  TypeOK'
<1>1. proc[p] \in Process /\ StageOK(p) /\ legacy \in Tables /\ faults \in Nat
  BY DEF TypeOK
<1>2. CASE ImportOpen(p)
  <2> DEFINE r == [proc[p] EXCEPT !.cursor = Select(proc[p].ent, legacy),
                                  !.pc = "import_next"]
  <2>1. r \in Process
    BY <1>1, SelectLemma DEF Process, Stage
  <2>2. proc'[p] = r => StageOK(p)'
    BY <1>1, <1>2 DEF ImportOpen, At, StageOK, Process
  <2> QED
    BY <2>1, <2>2, <1>1, <1>2, LocalStep DEF ImportOpen, budget
<1>3. CASE ImportSkip(p)
  <2>1. PICK k \in Keys : Step(p, [proc[p] EXCEPT !.cursor = Drop(p, k)])
    BY <1>3 DEF ImportSkip
  <2> DEFINE r == [proc[p] EXCEPT !.cursor = Drop(p, k)]
  <2>2. r \in Process
    BY <1>1, DropLemma DEF Process
  <2>3. proc'[p] = r => StageOK(p)'
    BY <1>1, <1>3 DEF ImportSkip, At, StageOK, Process
  <2> QED
    BY <2>1, <2>2, <2>3, <1>1, <1>3, LocalStep DEF ImportSkip, budget
<1>4. CASE ImportBegin(p)
  <2>1. PICK k \in Keys : /\ IsNext(p, k)
                          /\ Step(p, [proc[p] EXCEPT !.cur = k, !.pc = "post"])
    BY <1>4 DEF ImportBegin
  <2> DEFINE r == [proc[p] EXCEPT !.cur = k, !.pc = "post"]
  <2>2. r \in Process
    BY <1>1 DEF Process, Stage
  <2>3. proc'[p] = r => StageOK(p)'
    BY <1>1, <1>4, <2>1, NextLemma DEF ImportBegin, At, StageOK, Process
  <2> QED
    BY <2>1, <2>2, <2>3, <1>1, <1>4, LocalStep DEF ImportBegin, budget
<1>5. CASE ImportUpsert(p)
  <2> DEFINE me == proc[p]
             new == UpsertedItem(me.ans, me.cursor[me.cur])
             r == [me EXCEPT !.bad = @ \/ me.ans \in {"conflict", "failed"},
                             !.cursor = Drop(p, me.cur), !.cur = NoKey,
                             !.ans = "none", !.pc = "import_next"]
  <2>1. /\ me.run \in Runs /\ me.cur \in Keys
        /\ me.cursor[me.cur] \in Values /\ me.ans \in ImportAction
    BY <1>1, <1>5 DEF ImportUpsert, At, StageOK
  <2>2. new \in Item /\ new.action # "none"
    BY <2>1 DEF UpsertedItem, Item, ImportAction, ItemStatus
  <2>3. items' = [items EXCEPT ![me.run][me.cur] = new]
    BY <1>5 DEF ImportUpsert
  <2>4. ItemsGrow
    <3> HIDE DEF new, me
    <3> QED
      BY <2>1, <2>2, <2>3 DEF ItemsGrow, TypeOK
  <2>5. r \in Process
    <3> DEFINE b == me.bad \/ me.ans \in {"conflict", "failed"}
               d == Drop(p, me.cur)
    <3>1. b \in BOOLEAN
      OBVIOUS
    <3>2. d \in Tables
      BY <1>1, DropLemma
    <3> HIDE DEF b, d
    <3>3. "import_next" \in Stage
      BY DEF Stage
    <3>4. [me EXCEPT !.bad = b, !.cursor = d, !.cur = NoKey,
                     !.ans = "none", !.pc = "import_next"] \in Process
      BY <3>1, <3>2, <3>3, <1>1 DEF Process
    <3> QED
      BY <3>4 DEF b, d
  <2>6. proc'[p] = r => StageOK(p)'
    BY <1>1, <1>5 DEF ImportUpsert, At, StageOK, Process
  <2>7. Step(p, r)
    BY <1>5 DEF ImportUpsert
  <2>8. status' \in [Runs -> StoredStatus] /\ UNCHANGED <<world, faults, churn, drift, history>>
    BY <1>5 DEF ImportUpsert, TypeOK, budget
  <2> HIDE DEF r
  <2> QED
    BY <2>4, <2>5, <2>6, <2>7, <2>8, <1>1, StoreStep
<1>6. CASE ImportEnd(p)
  <2> DEFINE r == [proc[p] EXCEPT !.pc = IF proc[p].bad THEN "fail" ELSE "count"]
  <2>1. r \in Process
    BY <1>1 DEF Process, Stage
  <2>2. proc'[p] = r => StageOK(p)'
    BY <1>1, <1>6 DEF ImportEnd, At, StageOK, Process
  <2>3. status' \in [Runs -> StoredStatus]
    BY <1>6 DEF ImportEnd, TypeOK, StoredStatus, RunStatus
  <2> QED
    BY <2>1, <2>2, <2>3, <1>1, <1>6, ItemsKept, StoreStep DEF ImportEnd, Goto, budget
<1> QED
  BY <1>2, <1>3, <1>4, <1>5, <1>6

(* An HTTP attempt keeps the services, the wire and the histories well-typed. *)
LEMMA CallLemma ==
    ASSUME TypeOK, NEW p \in Procs, NEW q \in Request, Answer(p, q) \/ Lose(p, q)
    PROVE  /\ svc' \in Tables /\ origin' \in [Keys -> Runs \union {NoRun}]
           /\ wire' \subseteq Request /\ touched' \in [Procs -> SUBSET Keys] /\ faults' \in Nat
<1>1. /\ svc \in Tables /\ origin \in [Keys -> Runs \union {NoRun}]
      /\ wire \subseteq Request /\ touched \in [Procs -> SUBSET Keys] /\ faults \in Nat
  BY DEF TypeOK
<1>2. CASE Run(q) /\ Noticed(Written, {p}) /\ wire' = wire /\ (faults' = faults \/ Fault)
  <2>1. svc' \in Tables /\ origin' \in [Keys -> Runs \union {NoRun}]
    BY <1>1, <1>2, RunLemma
  <2>2. touched' \in [Procs -> SUBSET Keys]
    BY <1>1, <1>2, NoticedLemma DEF Written
  <2> QED
    BY <1>1, <1>2, <2>1, <2>2 DEF Fault
<1>3. CASE Answer(p, q)
  BY <1>2, <1>3 DEF Answer
<1>4. CASE Lose(p, q)
  <2>1. CASE UNCHANGED <<svc, origin, touched>> /\ wire' \subseteq wire \union {q} /\ Fault
    BY <1>1, <2>1 DEF Fault
  <2> QED
    BY <1>2, <1>4, <2>1 DEF Lose
<1> QED
  BY <1>3, <1>4

LEMMA CallStep ==
    ASSUME TypeOK, NEW p \in Procs, NEW q \in Request, Answer(p, q) \/ Lose(p, q),
           NEW r \in Process, Step(p, r), proc'[p] = r => StageOK(p)',
           UNCHANGED <<legacy, store, churn, drift, pre>>
    PROVE  TypeOK'
<1>1. /\ svc' \in Tables /\ origin' \in [Keys -> Runs \union {NoRun}]
      /\ wire' \subseteq Request /\ touched' \in [Procs -> SUBSET Keys] /\ faults' \in Nat
  BY CallLemma
<1>2. proc' \in [Procs -> Process] /\ \A s \in Procs : StageOK(s)'
  BY ItemsKept, ProcessStep DEF store
<1> QED
  BY <1>1, <1>2 DEF TypeOK, store

LEMMA TypePost ==
    ASSUME TypeOK, NEW p \in Procs, PostAnswered(p) \/ PostLost(p) \/ PostRefused(p)
    PROVE  TypeOK'
<1> DEFINE me == proc[p]
           q == PostRequest(p)
           failed == [me EXCEPT !.ans = "failed", !.tries = 0, !.pc = "upsert"]
<1>1. me \in Process /\ StageOK(p) /\ me.pc = "post"
  BY DEF TypeOK, PostAnswered, PostLost, PostRefused, At
<1>2. /\ me.cmd = "snapshot" /\ me.run \in Runs /\ me.cur \in Keys
      /\ me.cursor[me.cur] \in Values
  BY <1>1 DEF StageOK
<1>3. q \in Request
  BY <1>2 DEF PostRequest, Request
<1>4. failed \in Process /\ (proc'[p] = failed => StageOK(p)')
  <2>1. "upsert" \in Stage /\ "failed" \in ImportAction
    BY DEF Stage, ImportAction
  <2>2. failed \in Process
    BY <1>1, <2>1 DEF Process
  <2>3. proc'[p] = failed => StageOK(p)'
    BY <1>1, <1>2, <2>1 DEF Process, StageOK
  <2> QED
    BY <2>2, <2>3
<1>5. CASE PostAnswered(p)
  <2> DEFINE a == Reply(svc[me.cur], q.val)
             r == [me EXCEPT !.ans = a, !.tries = 0, !.pc = "upsert"]
  <2>1. a \in ImportAction
    BY DEF Reply, ImportAction
  <2>2. Step(p, r) /\ Answer(p, q) /\ UNCHANGED <<legacy, store, churn, drift, pre>>
    BY <1>5 DEF PostAnswered
  <2> HIDE DEF a
  <2>3. r \in Process
    BY <1>1, <2>1 DEF Process, Stage
  <2>4. proc'[p] = r => StageOK(p)'
    BY <1>1, <1>2, <2>1 DEF StageOK, Process
  <2> HIDE DEF r
  <2> QED
    BY <1>3, <2>2, <2>3, <2>4, CallStep
<1>6. CASE PostLost(p)
  <2>1. CASE Exhausted(p)
    BY <2>1, <1>3, <1>4, <1>6, CallStep DEF PostLost
  <2>2. CASE ~ Exhausted(p)
    <3> DEFINE r == [me EXCEPT !.tries = me.tries + 1]
    <3>1. r \in Process /\ (proc'[p] = r => StageOK(p)')
      BY <1>1, <1>2 DEF Process, StageOK
    <3> QED
      BY <2>2, <3>1, <1>3, <1>6, CallStep DEF PostLost
  <2> QED
    BY <2>1, <2>2
<1>7. CASE PostRefused(p)
  BY <1>4, <1>7, FaultLemma, LocalStep DEF PostRefused
<1> QED
  BY <1>5, <1>6, <1>7

LEMMA TypeCheck ==
    ASSUME TypeOK, NEW p \in Procs,
           \/ CountLegacy(p) \/ CheckOpen(p) \/ CheckRow(p) \/ CheckItem(p)
           \/ CheckRowLost(p)
    PROVE  TypeOK'
<1> DEFINE me == proc[p]
<1>1. me \in Process /\ StageOK(p) /\ legacy \in Tables /\ svc \in Tables /\ faults \in Nat
  BY DEF TypeOK
<1>2. CASE CountLegacy(p)
  <2> DEFINE n == Cardinality({k \in Rows(me.ent) : legacy[k] # Absent})
             r == [me EXCEPT !.expected = n, !.found = 0, !.pc = "check_open"]
  <2>1. n \in Nat
    BY CountLemma
  <2>2. Step(p, r)
    BY <1>2 DEF CountLegacy
  <2> HIDE DEF n
  <2>3. r \in Process
    BY <1>1, <2>1 DEF Process, Stage
  <2>4. proc'[p] = r => StageOK(p)'
    BY <1>1, <2>1, <1>2 DEF Process, StageOK, CountLegacy, At
  <2> HIDE DEF r
  <2> QED
    BY <2>2, <2>3, <2>4, <1>1, <1>2, LocalStep DEF CountLegacy, budget
<1>3. CASE CheckOpen(p)
  <2> DEFINE r == [me EXCEPT !.cursor = Select(me.ent, legacy), !.pc = "check_next"]
  <2>1. r \in Process
    BY <1>1, SelectLemma DEF Process, Stage
  <2>2. proc'[p] = r => StageOK(p)'
    BY <1>1, <1>3 DEF StageOK, Process
  <2> QED
    BY <2>1, <2>2, <1>1, <1>3, LocalStep DEF CheckOpen, budget
<1>4. CASE CheckRow(p)
  <2> DEFINE same(k) == Agrees(svc[k], me.cursor[k])
             r(k) == [me EXCEPT !.found = IF svc[k] = Absent THEN @ ELSE @ + 1,
                                !.bad = @ \/ ~ same(k),
                                !.cur = IF same(k) THEN k ELSE NoKey,
                                !.cursor = Drop(p, k),
                                !.pc = IF same(k) THEN "check_item" ELSE "check_next"]
  <2>1. PICK k \in Keys : IsNext(p, k) /\ Step(p, r(k))
    BY <1>4 DEF CheckRow
  <2> DEFINE n == IF svc[k] = Absent THEN me.found ELSE me.found + 1
             b == me.bad \/ ~ same(k)
             c == IF same(k) THEN k ELSE NoKey
             d == Drop(p, k)
             pc == IF same(k) THEN "check_item" ELSE "check_next"
             new == [me EXCEPT !.found = n, !.bad = b, !.cur = c, !.cursor = d, !.pc = pc]
  <2>2. n \in Nat
    BY <1>1 DEF Process
  <2>3. b \in BOOLEAN
    OBVIOUS
  <2>4. /\ c \in Keys \union {NoKey} /\ pc \in {"check_item", "check_next"}
        /\ pc = "check_item" => c \in Keys
    BY <2>1
  <2>5. d \in Tables
    BY <1>1, DropLemma
  <2>6. Step(p, new)
    BY <2>1
  <2> HIDE DEF n, b, c, d, pc
  <2>7. new \in Process
    <3>1. pc \in Stage
      BY <2>4 DEF Stage
    <3> QED
      BY <1>1, <2>2, <2>3, <2>4, <2>5, <3>1 DEF Process
  <2>8. proc'[p] = new => StageOK(p)'
    BY <1>1, <2>4 DEF Process, StageOK
  <2> HIDE DEF new
  <2> QED
    BY <2>6, <2>7, <2>8, <1>1, <1>4, LocalStep DEF CheckRow, budget
<1>5. CASE CheckItem(p)
  <2> DEFINE onward == [me EXCEPT !.pc = "check_mark"]
             passed == [me EXCEPT !.cur = NoKey, !.pc = "check_next"]
             r == IF Markable(me.run, me.cur) THEN onward ELSE passed
  <2>1. me.cur \in Keys /\ Step(p, r)
    BY <1>1, <1>5 DEF CheckItem, StageOK, At
  <2>2. "check_next" \in Stage /\ "check_mark" \in Stage
    BY DEF Stage
  <2>3. CASE Markable(me.run, me.cur)
    <3>1. onward \in Process /\ me.run \in Runs
      BY <1>1, <2>2, <2>3 DEF Process, Markable
    <3>2. items'[me.run][me.cur].action # "none"
      BY <1>5, <2>3 DEF CheckItem, Markable, store
    <3>3. proc'[p] = onward => StageOK(p)'
      BY <1>1, <2>1, <3>1, <3>2 DEF Process, StageOK
    <3> HIDE DEF onward
    <3> QED
      BY <1>1, <1>5, <2>1, <2>3, <3>1, <3>3, LocalStep DEF CheckItem, budget
  <2>4. CASE ~ Markable(me.run, me.cur)
    <3>1. passed \in Process
      BY <1>1, <2>2 DEF Process
    <3>2. proc'[p] = passed => StageOK(p)'
      BY <1>1 DEF Process, StageOK
    <3> HIDE DEF passed
    <3> QED
      BY <1>1, <1>5, <2>1, <2>4, <3>1, <3>2, LocalStep DEF CheckItem, budget
  <2> QED
    BY <2>3, <2>4
<1>6. CASE CheckRowLost(p)
  <2> DEFINE r(k) == [me EXCEPT !.bad = TRUE, !.cursor = Drop(p, k)]
  <2>1. PICK k \in Keys : Step(p, r(k))
    BY <1>6 DEF CheckRowLost
  <2>2. r(k) \in Process /\ (proc'[p] = r(k) => StageOK(p)')
    BY <1>1, <1>6, DropLemma DEF Process, StageOK, CheckRowLost, At
  <2> QED
    BY <2>1, <2>2, <1>6, FaultLemma, LocalStep DEF CheckRowLost
<1> QED
  BY <1>2, <1>3, <1>4, <1>5, <1>6

LEMMA TypeMark ==
    ASSUME TypeOK, NEW p \in Procs, CheckMark(p)
    PROVE  TypeOK'
<1> DEFINE me == proc[p]
           r == [me EXCEPT !.cur = NoKey, !.pc = "check_next"]
<1>1. /\ me \in Process /\ StageOK(p) /\ me.cur \in Keys /\ faults \in Nat
      /\ me.run \in Runs /\ items[me.run][me.cur].action # "none"
  BY DEF TypeOK, StageOK, CheckMark, At
<1>2. ItemsGrow
  <2> DEFINE old == items[me.run][me.cur]
             new == [old EXCEPT !.status = "validated"]
  <2>1. old \in Item /\ old.action \in ImportAction
    BY <1>1 DEF TypeOK, Item, NoItem
  <2>2. new \in Item /\ new.action # "none"
    BY <2>1 DEF Item, NoItem, ImportAction, ItemStatus
  <2>3. items' = [items EXCEPT ![me.run][me.cur] = new]
    BY <1>1 DEF CheckMark, TypeOK
  <2> HIDE DEF new, me, old
  <2> QED
    BY <1>1, <2>1, <2>2, <2>3 DEF ItemsGrow, TypeOK
<1>3. r \in Process /\ (proc'[p] = r => StageOK(p)')
  <2>1. "check_next" \in Stage
    BY DEF Stage
  <2>2. r \in Process
    BY <1>1, <2>1 DEF Process
  <2>3. proc'[p] = r => StageOK(p)'
    BY <1>1 DEF Process, StageOK
  <2> QED
    BY <2>2, <2>3
<1>4. Step(p, r)
  BY DEF CheckMark
<1>5. status' \in [Runs -> StoredStatus] /\ UNCHANGED <<world, faults, churn, drift, history>>
  BY DEF CheckMark, TypeOK, budget
<1> HIDE DEF r
<1> QED
  BY <1>1, <1>2, <1>3, <1>4, <1>5, StoreStep

LEMMA TypeCheckEnd ==
    ASSUME TypeOK, NEW p \in Procs, CheckEnd(p)
    PROVE  TypeOK'
<1> DEFINE me == proc[p]
           b == Mismatch(p)
           pc == IF Imports(p) /\ Mismatch(p) THEN "fail"
                 ELSE IF me.ent = "sale" THEN "refs_open"
                 ELSE IF Imports(p) THEN "import_open" ELSE "count"
           r == [me EXCEPT !.bad = b, !.expected = 0, !.found = 0, !.ent = "sale", !.pc = pc]
<1>1. me \in Process /\ StageOK(p) /\ faults \in Nat
  BY DEF TypeOK
<1>2. b \in BOOLEAN
  BY DEF Mismatch
<1>3. /\ pc \in {"fail", "refs_open", "import_open", "count"}
      /\ pc = "import_open" => me.cmd = "snapshot"
  BY DEF Imports
<1>4. Step(p, r)
  BY DEF CheckEnd
<1>5. status' \in [Runs -> StoredStatus]
  BY DEF CheckEnd, TypeOK, StoredStatus, RunStatus
<1> HIDE DEF b, pc
<1>6. r \in Process
  <2>1. pc \in Stage /\ "sale" \in EntityType
    BY <1>3 DEF Stage, EntityType
  <2> QED
    BY <1>1, <1>2, <2>1 DEF Process
<1>7. proc'[p] = r => StageOK(p)'
  BY <1>1, <1>3 DEF Process, StageOK
<1> HIDE DEF r
<1> QED
  BY <1>1, <1>4, <1>5, <1>6, <1>7, ItemsKept, StoreStep DEF CheckEnd, budget

LEMMA TypeRefs ==
    ASSUME TypeOK, NEW p \in Procs,
           RefsOpen(p) \/ RefsGet(p) \/ RefsGetLost(p) \/ RefsEnd(p)
    PROVE  TypeOK'
<1> DEFINE me == proc[p]
<1>1. me \in Process /\ StageOK(p) /\ faults \in Nat
  BY DEF TypeOK
<1>2. CASE RefsOpen(p)
  <2> DEFINE r == [me EXCEPT !.refs = LegacyRefs, !.missing = {}, !.pc = "refs_next"]
  <2>1. LegacyRefs \in SUBSET Users
    BY KeysAssumption DEF LegacyRefs
  <2>2. r \in Process
    BY <1>1, <2>1 DEF Process, Stage
  <2>3. proc'[p] = r => StageOK(p)'
    BY <1>1 DEF Process, StageOK
  <2> QED
    BY <2>2, <2>3, <1>1, <1>2, LocalStep DEF RefsOpen, budget
<1>3. CASE RefsGet(p)
  <2> DEFINE m(u) == IF svc[u] = Absent THEN me.missing \union {u} ELSE me.missing
             r(u) == [me EXCEPT !.refs = RefsAfter(p, u), !.missing = m(u)]
  <2>1. PICK u \in Users : Step(p, r(u))
    BY <1>3 DEF RefsGet
  <2>2. m(u) \in SUBSET Users /\ RefsAfter(p, u) \in SUBSET Users
    BY <1>1 DEF Process, RefsAfter
  <2> HIDE DEF m
  <2>3. r(u) \in Process
    BY <1>1, <2>2 DEF Process
  <2>4. proc'[p] = r(u) => StageOK(p)'
    BY <1>1, <1>3 DEF Process, StageOK, RefsGet, At
  <2> QED
    BY <2>1, <2>3, <2>4, <1>1, <1>3, LocalStep DEF RefsGet, budget
<1>4. CASE RefsGetLost(p)
  <2> DEFINE r(u) == [me EXCEPT !.refs = RefsAfter(p, u), !.missing = me.missing \union {u},
                                !.bad = TRUE]
  <2>1. PICK u \in Users : Step(p, r(u))
    BY <1>4 DEF RefsGetLost
  <2>2. me.missing \union {u} \in SUBSET Users /\ RefsAfter(p, u) \in SUBSET Users
    BY <1>1 DEF Process, RefsAfter
  <2>3. r(u) \in Process
    BY <1>1, <2>2 DEF Process
  <2>4. proc'[p] = r(u) => StageOK(p)'
    BY <1>1, <1>4 DEF Process, StageOK, RefsGetLost, At
  <2> QED
    BY <2>1, <2>3, <2>4, <1>4, FaultLemma, LocalStep DEF RefsGetLost
<1>5. CASE RefsEnd(p)
  <2> DEFINE b == me.bad \/ Orphans(p) # {}
             pc == IF ~ Imports(p) THEN "report" ELSE IF b THEN "fail" ELSE "complete"
             r == [me EXCEPT !.bad = b, !.missing = {}, !.pc = pc]
  <2>1. b \in BOOLEAN /\ pc \in {"report", "fail", "complete"}
    OBVIOUS
  <2>2. Step(p, r)
    BY <1>5 DEF RefsEnd
  <2>3. status' \in [Runs -> StoredStatus]
    BY <1>5 DEF RefsEnd, TypeOK, StoredStatus, RunStatus
  <2> HIDE DEF b, pc
  <2>4. r \in Process
    <3>1. pc \in Stage
      BY <2>1 DEF Stage
    <3> QED
      BY <1>1, <2>1, <3>1 DEF Process
  <2>5. proc'[p] = r => StageOK(p)'
    BY <1>1, <2>1 DEF Process, StageOK
  <2> HIDE DEF r
  <2> QED
    BY <2>2, <2>3, <2>4, <2>5, <1>1, <1>5, ItemsKept, StoreStep DEF RefsEnd, budget
<1> QED
  BY <1>2, <1>3, <1>4, <1>5

LEMMA TypeEnd ==
    ASSUME TypeOK, NEW p \in Procs,
           \/ Finalize(p) \/ Report(p) \/ Abort(p) \/ Crash(p) \/ RollbackEnd(p)
    PROVE  TypeOK'
<1>1. faults' \in Nat
  BY FaultLemma DEF TypeOK, Finalize, Report, Abort, Crash, RollbackEnd, budget
<1>2. status' \in [Runs -> StoredStatus]
  BY DEF TypeOK, Finalize, Report, Abort, Crash, RollbackEnd, store, StoredStatus, RunStatus
<1>3. UNCHANGED <<world, churn, drift, history>> /\ Exit(p) /\ ItemsGrow
  BY ItemsKept DEF Finalize, Report, Abort, Crash, RollbackEnd, store, budget
<1> QED
  BY <1>1, <1>2, <1>3, ExitLemma

LEMMA TypeRollbackOpen ==
    ASSUME TypeOK, NEW p \in Procs, RollbackOpen(p) \/ SalesDone(p)
    PROVE  TypeOK'
<1> DEFINE me == proc[p]
<1>1. me \in Process /\ StageOK(p) /\ faults \in Nat /\ items \in [Runs -> [Keys -> Item]]
  BY DEF TypeOK
<1>2. CASE RollbackOpen(p)
  <2> DEFINE c == Select(me.ent, CreatedItems(me.run))
             r == [me EXCEPT !.cursor = c, !.pc = "rb_next"]
  <2>1. me.cmd \in {"rollback", "dry"} /\ me.run \in Runs
    BY <1>1, <1>2 DEF RollbackOpen, At, StageOK
  <2>2. CreatedItems(me.run) \in Tables
    BY <1>1, <2>1 DEF CreatedItems, Item, NoItem
  <2>3. c \in Tables /\ \A k \in Keys : c[k] # Absent => items[me.run][k].action # "none"
    <3>1. c \in Tables
      BY <2>2, SelectLemma
    <3>2. \A k \in Keys : c[k] # Absent => items[me.run][k].action = "created"
      BY DEF Select, CreatedItems
    <3> QED
      BY <3>1, <3>2
  <2>4. Step(p, r) /\ UNCHANGED <<world, store, budget, history>>
    BY <1>2 DEF RollbackOpen
  <2> HIDE DEF c
  <2>5. r \in Process
    BY <1>1, <2>3 DEF Process, Stage
  <2>6. proc'[p] = r => StageOK(p)'
    <3> SUFFICES ASSUME proc'[p] = r PROVE StageOK(p)'
      OBVIOUS
    <3>1. /\ proc'[p].cmd = me.cmd /\ proc'[p].run = me.run /\ proc'[p].pc = "rb_next"
          /\ proc'[p].cursor = c
      BY <1>1 DEF Process
    <3> QED
      BY <3>1, <2>1, <2>3, <2>4 DEF StageOK, Pending, store
  <2> HIDE DEF r
  <2> QED
    BY <2>4, <2>5, <2>6, <1>1, LocalStep DEF budget
<1>3. CASE SalesDone(p)
  <2> DEFINE r == [me EXCEPT !.ent = "user", !.pc = "rb_open"]
  <2>1. r \in Process
    <3>1. "rb_open" \in Stage /\ "user" \in EntityType
      BY DEF Stage, EntityType
    <3> QED
      BY <1>1, <3>1 DEF Process
  <2>2. proc'[p] = r => StageOK(p)'
    BY <1>1, <1>3 DEF Process, StageOK, SalesDone, At
  <2> QED
    BY <2>1, <2>2, <1>1, <1>3, LocalStep DEF SalesDone, budget
<1> QED
  BY <1>2, <1>3

LEMMA TypeRollbackRead ==
    ASSUME TypeOK, NEW p \in Procs, RollbackRead(p) \/ RollbackReadLost(p)
    PROVE  TypeOK'
<1> DEFINE me == proc[p]
           new(k, a, b, pc) == [me EXCEPT !.cur = k, !.cursor = Drop(p, k), !.ans = a,
                                          !.bad = b, !.pc = pc]
<1>1. /\ me \in Process /\ StageOK(p) /\ faults \in Nat /\ me.pc = "rb_next"
      /\ items' = items
  BY DEF TypeOK, RollbackRead, RollbackReadLost, At, store
<1>2. /\ me.cmd \in {"rollback", "dry"} /\ me.run \in Runs
      /\ \A k \in Pending(p) : items[me.run][k].action # "none"
  BY <1>1 DEF StageOK
<1>3. ASSUME NEW k \in Keys, IsNext(p, k), NEW b \in BOOLEAN,
             NEW pc \in {"rb_mark", "delete"}, NEW a \in ItemStatus \union {"none"},
             a = "none" => pc = "delete" \/ Dry(p),
             Step(p, new(k, a, b, pc)), faults' \in Nat,
             UNCHANGED <<world, store, churn, drift, history>>
      PROVE  TypeOK'
  <2> DEFINE d == Drop(p, k)
             r == [me EXCEPT !.cur = k, !.cursor = d, !.ans = a, !.bad = b, !.pc = pc]
  <2>1. items[me.run][k].action # "none"
    BY <1>1, <1>2, <1>3, NextLemma
  <2>2. d \in Tables /\ \A j \in Keys : d[j] # Absent => j \in Pending(p)
    BY <1>1, DropLemma DEF Drop, Pending, Process
  <2>3. Step(p, r)
    BY <1>3
  <2> HIDE DEF d
  <2>4. r \in Process
    <3>1. pc \in Stage
      BY <1>3 DEF Stage
    <3> QED
      BY <1>1, <1>3, <2>2, <3>1 DEF Process
  <2>5. proc'[p] = r => StageOK(p)'
    <3> SUFFICES ASSUME proc'[p] = r PROVE StageOK(p)'
      OBVIOUS
    <3>1. /\ proc'[p].cmd = me.cmd /\ proc'[p].run = me.run /\ proc'[p].pc = pc
          /\ proc'[p].cur = k /\ proc'[p].ans = a /\ proc'[p].cursor = d
      BY <1>1 DEF Process
    <3>2. pc = "rb_mark" /\ ~ Dry(p)' => a \in ItemStatus
      BY <1>3, <3>1 DEF Dry
    <3>3. Pending(p)' \subseteq Pending(p)
      BY <3>1, <2>2 DEF Pending
    <3> QED
      BY <3>1, <3>2, <3>3, <2>1, <1>1, <1>2, <1>3 DEF StageOK
  <2> HIDE DEF r
  <2> QED
    BY <1>3, <2>3, <2>4, <2>5, LocalStep
<1>4. CASE RollbackRead(p)
  <2>1. PICK k \in Keys :
          /\ IsNext(p, k)
          /\ Step(p, new(k, Decision(p, k), me.bad \/ Decision(p, k) = "rollback_conflict",
                         IF Decision(p, k) # "none" \/ Dry(p) THEN "rb_mark" ELSE "delete"))
    BY <1>4 DEF RollbackRead
  <2> DEFINE a == Decision(p, k)
             b == me.bad \/ a = "rollback_conflict"
             pc == IF a # "none" \/ Dry(p) THEN "rb_mark" ELSE "delete"
  <2>2. a \in ItemStatus \union {"none"}
    BY DEF Decision, ItemStatus
  <2>3. b \in BOOLEAN /\ pc \in {"rb_mark", "delete"} /\ (a = "none" => pc = "delete" \/ Dry(p))
    OBVIOUS
  <2>4. Step(p, new(k, a, b, pc)) /\ IsNext(p, k)
    BY <2>1
  <2>5. faults' \in Nat /\ UNCHANGED <<world, store, churn, drift, history>>
    BY <1>1, <1>4 DEF RollbackRead, budget
  <2> HIDE DEF a, b, pc, new
  <2> QED
    BY <2>2, <2>3, <2>4, <2>5, <1>3
<1>5. CASE RollbackReadLost(p)
  <2>1. PICK k \in Keys :
          IsNext(p, k) /\ Step(p, new(k, "rollback_failed", TRUE, "rb_mark"))
    BY <1>5 DEF RollbackReadLost
  <2>2. faults' \in Nat /\ UNCHANGED <<world, store, churn, drift, history>>
    BY <1>5, FaultLemma DEF RollbackReadLost
  <2>3. "rollback_failed" \in ItemStatus
    BY DEF ItemStatus
  <2> HIDE DEF new
  <2> QED
    BY <2>1, <2>2, <2>3, <1>3
<1> QED
  BY <1>4, <1>5

LEMMA TypeDelete ==
    ASSUME TypeOK, NEW p \in Procs,
           DeleteAnswered(p) \/ DeleteLost(p) \/ RollbackConfirm(p) \/ RemovalFailed(p)
    PROVE  TypeOK'
<1> DEFINE me == proc[p]
           q == DeleteRequest(p)
           failed == [me EXCEPT !.ans = "rollback_failed", !.bad = TRUE, !.tries = 0,
                                !.pc = "rb_mark"]
<1>1. /\ me \in Process /\ StageOK(p) /\ faults \in Nat /\ me.pc \in {"delete", "confirm"}
      /\ items' = items
  BY DEF TypeOK, DeleteAnswered, DeleteLost, RollbackConfirm, RemovalFailed, At, store
<1>2. /\ me.cmd \in {"rollback", "dry"} /\ me.run \in Runs /\ me.cur \in Keys
      /\ items[me.run][me.cur].action # "none"
      /\ \A k \in Pending(p) : items[me.run][k].action # "none"
  BY <1>1 DEF StageOK
<1>3. q \in Request
  BY <1>2 DEF DeleteRequest, Request
<1>4. failed \in Process
  <2>1. "rb_mark" \in Stage /\ "rollback_failed" \in ItemStatus
    BY DEF Stage, ItemStatus
  <2> QED
    BY <1>1, <2>1 DEF Process
<1>5. Unresolved(p) <=> Step(p, failed)
  BY DEF Unresolved
<1>6. proc'[p] = failed => StageOK(p)'
  BY <1>1, <1>2 DEF Process, StageOK, Pending, ItemStatus
<1> HIDE DEF failed
<1>7. CASE DeleteAnswered(p)
  <2> DEFINE r == [me EXCEPT !.tries = 0, !.pc = "confirm"]
  <2>1. r \in Process
    BY <1>1 DEF Process, Stage
  <2>2. proc'[p] = r => StageOK(p)'
    BY <1>1, <1>2 DEF Process, StageOK, Pending
  <2> QED
    BY <2>1, <2>2, <1>3, <1>7, CallStep DEF DeleteAnswered
<1>8. CASE DeleteLost(p)
  <2>1. CASE Exhausted(p)
    BY <2>1, <1>3, <1>4, <1>5, <1>6, <1>8, CallStep DEF DeleteLost
  <2>2. CASE ~ Exhausted(p)
    <3> DEFINE r == [me EXCEPT !.tries = me.tries + 1]
    <3>1. r \in Process
      BY <1>1 DEF Process
    <3>2. proc'[p] = r => StageOK(p)'
      BY <1>1, <1>2 DEF Process, StageOK, Pending
    <3> QED
      BY <2>2, <3>1, <3>2, <1>3, <1>8, CallStep DEF DeleteLost
  <2> QED
    BY <2>1, <2>2
<1>9. CASE RollbackConfirm(p)
  <2>1. CASE svc[me.cur] = Absent
    <3> DEFINE r == [me EXCEPT !.ans = "rolled_back", !.pc = "rb_mark"]
    <3>1. r \in Process
      <4>1. "rb_mark" \in Stage /\ "rolled_back" \in ItemStatus
        BY DEF Stage, ItemStatus
      <4> QED
        BY <1>1, <4>1 DEF Process
    <3>2. proc'[p] = r => StageOK(p)'
      BY <1>1, <1>2 DEF Process, StageOK, Pending, ItemStatus
    <3> QED
      BY <2>1, <3>1, <3>2, <1>1, <1>9, LocalStep DEF RollbackConfirm, budget
  <2>2. CASE svc[me.cur] # Absent
    BY <2>2, <1>1, <1>4, <1>5, <1>6, <1>9, LocalStep DEF RollbackConfirm, budget
  <2> QED
    BY <2>1, <2>2
<1>10. CASE RemovalFailed(p)
  BY <1>4, <1>5, <1>6, <1>10, FaultLemma, LocalStep DEF RemovalFailed
<1> QED
  BY <1>7, <1>8, <1>9, <1>10

LEMMA TypeRollbackMark ==
    ASSUME TypeOK, NEW p \in Procs, RollbackMark(p)
    PROVE  TypeOK'
<1> DEFINE me == proc[p]
           r == [me EXCEPT !.cur = NoKey, !.ans = "none", !.pc = "rb_next"]
           old == items[me.run][me.cur]
           new == [old EXCEPT !.status = me.ans]
<1>1. me \in Process /\ StageOK(p) /\ faults \in Nat /\ me.pc = "rb_mark"
  BY DEF TypeOK, RollbackMark, At
<1>2. /\ me.cmd \in {"rollback", "dry"} /\ me.run \in Runs /\ me.cur \in Keys
      /\ old.action # "none" /\ (~ Dry(p) => me.ans \in ItemStatus)
      /\ \A k \in Pending(p) : items[me.run][k].action # "none"
  BY <1>1 DEF StageOK
<1>3. ItemsGrow
  <2>1. CASE Marks(p)
    <3>1. old \in Item /\ me.ans \in ItemStatus
      BY <2>1, <1>2 DEF TypeOK, Marks
    <3>2. new \in Item /\ new.action # "none"
      BY <3>1, <1>2 DEF Item, NoItem
    <3>3. items' = [items EXCEPT ![me.run][me.cur] = new]
      BY <2>1, <1>2 DEF RollbackMark, TypeOK
    <3> HIDE DEF new, me, old
    <3> QED
      BY <3>2, <3>3, <1>2 DEF ItemsGrow, TypeOK
  <2>2. CASE ~ Marks(p)
    BY <2>2, ItemsKept DEF RollbackMark
  <2> QED
    BY <2>1, <2>2
<1>4. Step(p, r) /\ status' \in [Runs -> StoredStatus]
      /\ UNCHANGED <<world, faults, churn, drift, history>>
  BY DEF RollbackMark, TypeOK, budget
<1>5. r \in Process
  BY <1>1 DEF Process, Stage
<1>6. proc'[p] = r => StageOK(p)'
  <2> SUFFICES ASSUME proc'[p] = r PROVE StageOK(p)'
    OBVIOUS
  <2>1. /\ proc'[p].cmd = me.cmd /\ proc'[p].run = me.run /\ proc'[p].pc = "rb_next"
        /\ proc'[p].cursor = me.cursor
    BY <1>1 DEF Process
  <2>2. \A k \in Pending(p)' : items'[me.run][k].action # "none"
    BY <2>1, <1>2, <1>3 DEF Pending, ItemsGrow
  <2> QED
    BY <2>1, <2>2, <1>2 DEF StageOK
<1> HIDE DEF r
<1> QED
  BY <1>1, <1>3, <1>4, <1>5, <1>6, StoreStep

LEMMA TypeElsewhere ==
    ASSUME TypeOK, Elsewhere
    PROVE  TypeOK'
<1>1. ASSUME NEW q \in wire, Arrive(q) PROVE TypeOK'
  <2>1. q \in Request
    BY DEF TypeOK
  <2>2. svc' \in Tables /\ origin' \in [Keys -> Runs \union {NoRun}]
    BY <1>1, <2>1, RunLemma DEF Arrive, TypeOK
  <2>3. touched' \in [Procs -> SUBSET Keys]
    BY <1>1, NoticedLemma DEF Arrive, Written, TypeOK
  <2>4. \A p \in Procs : StageOK(p)'
    BY <1>1, ItemsKept, OthersLemma DEF Arrive, store
  <2> QED
    BY <1>1, <2>2, <2>3, <2>4 DEF TypeOK, Arrive, store, budget
<1>2. ASSUME NEW k \in Keys, NEW v \in Contents, LegacyWrite(k, v) \/ ServiceWrite(k, v)
      PROVE  TypeOK'
  <2>1. \A p \in Procs : StageOK(p)'
    BY <1>2, ItemsKept, OthersLemma DEF LegacyWrite, ServiceWrite, store
  <2>2. CASE LegacyWrite(k, v)
    <3>0. touched' \in [Procs -> SUBSET Keys]
      BY <2>2, NoticedLemma DEF TypeOK, LegacyWrite
    <3>1. /\ legacy' \in Tables /\ touched' \in [Procs -> SUBSET Keys] /\ churn' \in Nat
          /\ UNCHANGED <<svc, wire, store, proc, faults, drift, pre, origin>>
      BY <2>2, <3>0 DEF TypeOK, LegacyWrite
    <3> QED
      BY <2>1, <3>1 DEF TypeOK, store
  <2>3. CASE ServiceWrite(k, v)
    <3>0. touched' \in [Procs -> SUBSET Keys]
      BY <2>3, NoticedLemma DEF TypeOK, ServiceWrite
    <3>1. /\ svc' \in Tables /\ touched' \in [Procs -> SUBSET Keys] /\ drift' \in Nat
          /\ origin' \in [Keys -> Runs \union {NoRun}]
          /\ UNCHANGED <<legacy, wire, store, proc, faults, churn, pre>>
      BY <2>3, <3>0 DEF TypeOK, ServiceWrite
    <3> QED
      BY <2>1, <3>1 DEF TypeOK, store
  <2> QED
    BY <1>2, <2>2, <2>3
<1> QED
  BY <1>1, <1>2 DEF Elsewhere

LEMMA TypeInit == Init => TypeOK
<1> SUFFICES ASSUME Init PROVE TypeOK
  OBVIOUS
<1>1. svc \in Tables /\ legacy \in Tables
  BY InitAssumption DEF Init
<1>2. items \in [Runs -> [Keys -> Item]] /\ status \in [Runs -> StoredStatus]
  BY DEF Init, Item, StoredStatus
<1>3. proc \in [Procs -> Process]
  BY IdleLemma DEF Init
<1>4. \A p \in Procs : StageOK(p)
  BY DEF Init, StageOK, IdleProcess
<1> QED
  BY <1>1, <1>2, <1>3, <1>4 DEF Init, TypeOK

LEMMA TypeStutter == ASSUME TypeOK, UNCHANGED vars PROVE TypeOK'
<1>1. \A p \in Procs : StageOK(p)'
  BY ItemsKept, OthersLemma DEF vars, store
<1> QED
  BY <1>1 DEF TypeOK, vars, world, store, budget, history

(* Every step keeps the types: what the state store holds and what a process
   has in hand at each stage of its command. *)
LEMMA TypeStep == ASSUME TypeOK, [Next]_vars PROVE TypeOK'
<1>1. ASSUME NEW p \in Procs, Advance(p) PROVE TypeOK'
  BY <1>1, TypeImport, TypePost, TypeCheck, TypeMark, TypeCheckEnd, TypeRefs, TypeEnd,
     TypeRollbackOpen, TypeRollbackRead, TypeDelete, TypeRollbackMark
     DEF Advance, SnapshotStep, RollbackStep
<1>2. ASSUME NEW p \in Procs, Trouble(p) PROVE TypeOK'
  BY <1>2, TypePost, TypeCheck, TypeRefs, TypeEnd, TypeRollbackRead, TypeDelete
     DEF Trouble, SnapshotTrouble, RollbackTrouble
<1> QED
  BY <1>1, <1>2, TypeStart, TypeElsewhere, TypeStutter DEF Next

(* The state store and the processes are well-typed in every reachable state,
   for any rows, runs, processes and bounds. *)
THEOREM TypeCorrect == Spec => []TypeOK
BY TypeInit, TypeStep, PTL DEF Spec
=============================================================================
