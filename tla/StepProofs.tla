----------------------------- MODULE StepProofs -----------------------------
(***************************************************************************)
(* What a step of MigrationTool does, action by action: to the memory of   *)
(* the process that takes it, field by field, and to the rows the other    *)
(* processes rely on. The proofs of the safety properties cite these facts *)
(* and expand no action.                                                   *)
(***************************************************************************)
EXTENDS MigrationToolProofs

LEMMA Typed ==
    ASSUME TypeOK, NEW p \in Procs
    PROVE  /\ proc[p] \in Process /\ proc \in [Procs -> Process] /\ StageOK(p)
           /\ legacy \in Tables /\ svc \in Tables /\ touched \in [Procs -> SUBSET Keys]
           /\ items \in [Runs -> [Keys -> Item]] /\ status \in [Runs -> StoredStatus]
BY DEF TypeOK

(* The step leaves the command, the run and the table in hand. *)
SameCommand(p) ==
    proc'[p].cmd = proc[p].cmd /\ proc'[p].run = proc[p].run /\ proc'[p].ent = proc[p].ent
SameRefs(p) == proc'[p].refs = proc[p].refs /\ proc'[p].missing = proc[p].missing
SameRows == UNCHANGED <<legacy, svc, wire, pre, origin>>
Silent == SameRows /\ touched' = touched
(* A status is recorded in an item. *)
Records(r, k, v) == items' = [items EXCEPT ![r][k].status = v]

LEMMA DropsOne ==
    ASSUME TypeOK, NEW p \in Procs, NEW k, proc'[p].cursor = Drop(p, k)
    PROVE  /\ Pending(p)' = Pending(p) \ {k}
           /\ \A j \in Pending(p)' : proc'[p].cursor[j] = proc[p].cursor[j]
<1>1. proc[p].cursor \in Tables
  BY Typed DEF Process
<1>2. \A j \in Keys : proc'[p].cursor[j] = IF j = k THEN Absent ELSE proc[p].cursor[j]
  BY <1>1 DEF Drop, Tables
<1> QED
  BY <1>2 DEF Pending

LEMMA Selects ==
    ASSUME NEW p \in Procs, NEW ent, NEW table \in Tables,
           proc'[p].cursor = Select(ent, table)
    PROVE  /\ Pending(p)' = {k \in Keys : k \in Rows(ent) /\ table[k] # Absent}
           /\ \A k \in Pending(p)' : proc'[p].cursor[k] = table[k]
BY DEF Select, Pending

LEMMA SameCursor ==
    ASSUME NEW p \in Procs, proc'[p].cursor = proc[p].cursor
    PROVE  Pending(p)' = Pending(p)
BY DEF Pending

(***************************************************************************)
(* snapshot, resume, validate.                                             *)
(***************************************************************************)
LEMMA BeginDoes ==
    ASSUME TypeOK, NEW p \in Procs, NEW cmd, NEW r, NEW ent, NEW stage,
           Begin(p, cmd, r, ent, stage)
    PROVE  /\ proc'[p].cmd = cmd /\ proc'[p].run = r /\ proc'[p].ent = ent
           /\ proc'[p].pc = stage /\ ~ proc'[p].bad /\ Pending(p)' = {}
           /\ proc'[p].cur = NoKey /\ proc'[p].ans = "none"
           /\ touched' = [touched EXCEPT ![p] = {}]
           /\ At(p, "idle")
           /\ \A q \in Procs : q # p => proc'[q] = proc[q]
<1>1. /\ proc' = [proc EXCEPT ![p] = [IdleProcess EXCEPT !.cmd = cmd, !.run = r, !.ent = ent,
                                                      !.pc = stage]]
      /\ proc \in [Procs -> Process]
  BY Typed DEF Begin, Step
<1>2. proc'[p] = [IdleProcess EXCEPT !.cmd = cmd, !.run = r, !.ent = ent, !.pc = stage]
      /\ \A q \in Procs : q # p => proc'[q] = proc[q]
  BY <1>1
<1> QED
  BY <1>2 DEF Begin, IdleProcess, Pending, NoRows

LEMMA StartDoes ==
    ASSUME TypeOK, NEW p \in Procs, Start(p)
    PROVE  \E r \in Runs \union {NoRun} :
             /\ \/ /\ Begin(p, "snapshot", r, "user", "import_open") /\ r \in Runs
                   /\ status[r] = "none" /\ status' = [status EXCEPT ![r] = "STARTED"]
                \/ /\ Begin(p, "snapshot", r, "user", "import_open") /\ r \in Runs
                   /\ status[r] \notin ResumeBlocked \union {"none"} /\ status' = status
                \/ Begin(p, "validate", r, "user", "count") /\ status' = status
                \/ /\ \/ Begin(p, "rollback", r, "sale", "rb_open")
                      \/ Begin(p, "dry", r, "sale", "rb_open")
                   /\ r \in Runs /\ status[r] \notin {"none", "ROLLED_BACK"} /\ status' = status
             /\ SameRows /\ items' = items
             /\ UNCHANGED <<faults, churn, drift>>
<1> DEFINE Rest == SameRows /\ items' = items /\ UNCHANGED <<faults, churn, drift>>
<1>1. ASSUME NEW r \in Runs, StartSnapshot(p, r)
      PROVE  /\ Begin(p, "snapshot", r, "user", "import_open") /\ Rest
             /\ status[r] = "none" /\ status' = [status EXCEPT ![r] = "STARTED"]
  BY <1>1 DEF StartSnapshot, SameRows, world, store, budget
<1>2. ASSUME NEW r \in Runs, StartResume(p, r)
      PROVE  /\ Begin(p, "snapshot", r, "user", "import_open") /\ Rest
             /\ status[r] \notin ResumeBlocked \union {"none"} /\ status' = status
  BY <1>2 DEF StartResume, SameRows, world, store, budget
<1>3. ASSUME NEW r \in Runs \union {NoRun}, StartValidate(p, r)
      PROVE  Begin(p, "validate", r, "user", "count") /\ Rest /\ status' = status
  BY <1>3 DEF StartValidate, SameRows, world, store, budget
<1>4. ASSUME NEW r \in Runs, NEW c \in BOOLEAN, NEW d \in BOOLEAN, StartRollback(p, r, c, d)
      PROVE  /\ \/ Begin(p, "rollback", r, "sale", "rb_open")
                \/ Begin(p, "dry", r, "sale", "rb_open")
             /\ status[r] \notin {"none", "ROLLED_BACK"} /\ status' = status /\ Rest
  BY <1>4 DEF StartRollback, RollbackAllowed, SameRows, world, store, budget
<1> HIDE DEF Rest
<1>5. CASE \E r \in Runs : StartSnapshot(p, r)
  BY <1>1, <1>5 DEF Rest
<1>6. CASE \E r \in Runs : StartResume(p, r)
  BY <1>2, <1>6 DEF Rest
<1>7. CASE \E r \in Runs \union {NoRun} : StartValidate(p, r)
  BY <1>3, <1>7 DEF Rest
<1>8. CASE \E r \in Runs, c \in BOOLEAN, d \in BOOLEAN : StartRollback(p, r, c, d)
  BY <1>4, <1>8 DEF Rest
<1> QED
  BY <1>5, <1>6, <1>7, <1>8 DEF Start, SnapshotStart, RollbackStart

LEMMA ImportOpenDoes ==
    ASSUME TypeOK, NEW p \in Procs, ImportOpen(p)
    PROVE  /\ SameCommand(p) /\ proc'[p].bad = proc[p].bad
           /\ At(p, "import_open") /\ proc'[p].pc = "import_next"
           /\ proc'[p].cursor = Select(proc[p].ent, legacy)
           /\ Silent /\ UNCHANGED <<status, items>>
BY Typed DEF ImportOpen, Step, SameCommand, Process, Silent, SameRows, world, store, history

LEMMA ImportSkipDoes ==
    ASSUME TypeOK, NEW p \in Procs, ImportSkip(p)
    PROVE  /\ SameCommand(p) /\ proc'[p].bad = proc[p].bad
           /\ At(p, "import_next") /\ proc'[p].pc = "import_next"
           /\ \E k \in Pending(p) : /\ AlreadyDone(items[proc[p].run][k])
                                    /\ proc'[p].cursor = Drop(p, k)
           /\ Silent /\ UNCHANGED <<status, items>>
<1>1. PICK k \in Keys : /\ IsNext(p, k) /\ AlreadyDone(items[proc[p].run][k])
                        /\ Step(p, [proc[p] EXCEPT !.cursor = Drop(p, k)])
  BY DEF ImportSkip
<1>2. k \in Pending(p)
  BY <1>1 DEF IsNext
<1>3. /\ SameCommand(p) /\ proc'[p].bad = proc[p].bad /\ proc'[p].pc = proc[p].pc
      /\ proc'[p].cursor = Drop(p, k)
  BY <1>1, Typed DEF Step, SameCommand, Process
<1> QED
  BY <1>1, <1>2, <1>3 DEF ImportSkip, At, Silent, SameRows, world, store, history

LEMMA ImportBeginDoes ==
    ASSUME TypeOK, NEW p \in Procs, ImportBegin(p)
    PROVE  /\ SameCommand(p) /\ proc'[p].bad = proc[p].bad
           /\ At(p, "import_next") /\ proc'[p].pc = "post"
           /\ proc'[p].cursor = proc[p].cursor
           /\ proc'[p].cur \in Pending(p)
           /\ ~ AlreadyDone(items[proc[p].run][proc'[p].cur])
           /\ Silent /\ UNCHANGED <<status, items>>
<1>1. PICK k \in Keys : /\ IsNext(p, k) /\ ~ AlreadyDone(items[proc[p].run][k])
                        /\ Step(p, [proc[p] EXCEPT !.cur = k, !.pc = "post"])
  BY DEF ImportBegin
<1>2. k \in Pending(p)
  BY <1>1 DEF IsNext
<1>3. /\ SameCommand(p) /\ proc'[p].bad = proc[p].bad /\ proc'[p].pc = "post"
      /\ proc'[p].cursor = proc[p].cursor /\ proc'[p].cur = k
  BY <1>1, Typed DEF Step, SameCommand, Process
<1> QED
  BY <1>1, <1>2, <1>3 DEF ImportBegin, At, Silent, SameRows, world, store, history

(* One attempt of a request of p: the row in hand may change, nothing else does,
   and p does not take its own write for somebody else's. *)
Attempted(p) ==
    /\ UNCHANGED <<legacy, status, items, pre>>
    /\ \A k \in Keys : k # proc[p].cur => svc'[k] = svc[k] /\ origin'[k] = origin[k]
    /\ touched'[p] = touched[p]

LEMMA AttemptLemma ==
    ASSUME TypeOK, NEW p \in Procs, NEW q, q.key = proc[p].cur, Answer(p, q) \/ Lose(p, q),
           UNCHANGED <<legacy, store, churn, drift, pre>>
    PROVE  Attempted(p)
<1>1. UNCHANGED <<legacy, status, items, pre>>
  BY DEF store
<1>2. CASE Run(q) /\ Noticed(Written, {p})
  <2>1. \A k \in Keys : k # proc[p].cur => svc'[k] = svc[k]
    BY <1>2, Typed DEF Run
  <2>2. \A k \in Keys : k # proc[p].cur => origin'[k] = origin[k]
    BY <1>2 DEF Run, TypeOK
  <2>3. touched'[p] = touched[p]
    BY <1>2 DEF Noticed
  <2> QED
    BY <1>1, <2>1, <2>2, <2>3 DEF Attempted
<1>3. CASE UNCHANGED <<svc, origin, touched>>
  BY <1>1, <1>3 DEF Attempted
<1> QED
  BY <1>2, <1>3 DEF Answer, Lose

LEMMA PostAnsweredDoes ==
    ASSUME TypeOK, NEW p \in Procs, PostAnswered(p)
    PROVE  /\ SameCommand(p) /\ proc'[p].bad = proc[p].bad
           /\ At(p, "post") /\ proc'[p].pc = "upsert"
           /\ proc'[p].cursor = proc[p].cursor /\ proc'[p].cur = proc[p].cur
           /\ proc'[p].ans = Reply(svc[proc[p].cur], proc[p].cursor[proc[p].cur])
           /\ Attempted(p) /\ Answer(p, PostRequest(p))
<1> DEFINE a == Reply(svc[proc[p].cur], PostRequest(p).val)
<1>1. Step(p, [proc[p] EXCEPT !.ans = a, !.tries = 0, !.pc = "upsert"])
  BY DEF PostAnswered
<1>2. a = Reply(svc[proc[p].cur], proc[p].cursor[proc[p].cur]) /\ PostRequest(p).key = proc[p].cur
  BY DEF PostRequest
<1>3. Attempted(p)
  BY <1>2, AttemptLemma DEF PostAnswered
<1> HIDE DEF a
<1>4. /\ SameCommand(p) /\ proc'[p].bad = proc[p].bad /\ proc'[p].pc = "upsert"
      /\ proc'[p].cursor = proc[p].cursor /\ proc'[p].cur = proc[p].cur /\ proc'[p].ans = a
  BY <1>1, Typed DEF Step, SameCommand, Process
<1> QED
  BY <1>2, <1>3, <1>4 DEF PostAnswered

LEMMA PostLostDoes ==
    ASSUME TypeOK, NEW p \in Procs, PostLost(p)
    PROVE  /\ SameCommand(p) /\ proc'[p].bad = proc[p].bad
           /\ At(p, "post")
           /\ \/ proc'[p].pc = "upsert" /\ proc'[p].ans = "failed"
              \/ proc'[p].pc = "post"
           /\ proc'[p].cursor = proc[p].cursor /\ proc'[p].cur = proc[p].cur
           /\ Attempted(p) /\ faults' = faults + 1
<1>1. Attempted(p)
  BY AttemptLemma DEF PostLost, PostRequest
<1>2. At(p, "post") /\ faults' = faults + 1
  BY DEF PostLost, Lose, Fault
<1>3. CASE Exhausted(p)
  <2>1. Step(p, [proc[p] EXCEPT !.ans = "failed", !.tries = 0, !.pc = "upsert"])
    BY <1>3 DEF PostLost
  <2> QED
    BY <2>1, <1>1, <1>2, Typed DEF Step, SameCommand, Process
<1>4. CASE ~ Exhausted(p)
  <2>1. Step(p, [proc[p] EXCEPT !.tries = @ + 1])
    BY <1>4 DEF PostLost
  <2> QED
    BY <2>1, <1>1, <1>2, Typed DEF Step, SameCommand, Process, At
<1> QED
  BY <1>3, <1>4

LEMMA PostRefusedDoes ==
    ASSUME TypeOK, NEW p \in Procs, PostRefused(p)
    PROVE  /\ SameCommand(p) /\ proc'[p].bad = proc[p].bad
           /\ At(p, "post") /\ proc'[p].pc = "upsert" /\ proc'[p].ans = "failed"
           /\ proc'[p].cursor = proc[p].cursor /\ proc'[p].cur = proc[p].cur
           /\ Silent /\ UNCHANGED <<status, items>> /\ faults' = faults + 1
BY Typed DEF PostRefused, Step, SameCommand, Process, Silent, SameRows, world, store, history,
             Fault

LEMMA ImportUpsertDoes ==
    ASSUME TypeOK, NEW p \in Procs, ImportUpsert(p)
    PROVE  /\ SameCommand(p)
           /\ proc'[p].bad = (proc[p].bad \/ proc[p].ans \in {"conflict", "failed"})
           /\ At(p, "upsert") /\ proc'[p].pc = "import_next"
           /\ proc'[p].cursor = Drop(p, proc[p].cur)
           /\ items' = [items EXCEPT ![proc[p].run][proc[p].cur] =
                          UpsertedItem(proc[p].ans, proc[p].cursor[proc[p].cur])]
           /\ Silent /\ status' = status /\ faults' = faults
<1> DEFINE b == proc[p].bad \/ proc[p].ans \in {"conflict", "failed"}
<1>1. Step(p, [proc[p] EXCEPT !.bad = b, !.cursor = Drop(p, proc[p].cur), !.cur = NoKey,
                              !.ans = "none", !.pc = "import_next"])
  BY DEF ImportUpsert
<1> HIDE DEF b
<1>2. /\ SameCommand(p) /\ proc'[p].bad = b /\ proc'[p].pc = "import_next"
      /\ proc'[p].cursor = Drop(p, proc[p].cur)
  BY <1>1, Typed DEF Step, SameCommand, Process
<1> QED
  BY <1>2 DEF b, ImportUpsert, Silent, SameRows, world, history, budget

LEMMA ImportEndDoes ==
    ASSUME TypeOK, NEW p \in Procs, ImportEnd(p)
    PROVE  /\ SameCommand(p) /\ proc'[p].bad = proc[p].bad
           /\ At(p, "import_next") /\ proc'[p].pc = (IF proc[p].bad THEN "fail" ELSE "count")
           /\ Pending(p) = {} /\ proc'[p].cursor = proc[p].cursor
           /\ status' = [status EXCEPT ![proc[p].run] =
                   IF proc[p].ent = "user" THEN "USERS_MIGRATED" ELSE "SALES_MIGRATED"]
           /\ Silent /\ items' = items
BY Typed DEF ImportEnd, Goto, Step, SameCommand, Process, Silent, SameRows, world, history

LEMMA CountLegacyDoes ==
    ASSUME TypeOK, NEW p \in Procs, CountLegacy(p)
    PROVE  /\ SameCommand(p) /\ proc'[p].bad = proc[p].bad
           /\ At(p, "count") /\ proc'[p].pc = "check_open"
           /\ Silent /\ UNCHANGED <<status, items>>
<1> DEFINE n == Cardinality({k \in Rows(proc[p].ent) : legacy[k] # Absent})
<1>1. Step(p, [proc[p] EXCEPT !.expected = n, !.found = 0, !.pc = "check_open"])
  BY DEF CountLegacy
<1> HIDE DEF n
<1> QED
  BY <1>1, Typed DEF CountLegacy, Step, SameCommand, Process, Silent, SameRows, world, store,
                     history

LEMMA CheckOpenDoes ==
    ASSUME TypeOK, NEW p \in Procs, CheckOpen(p)
    PROVE  /\ SameCommand(p) /\ proc'[p].bad = proc[p].bad
           /\ At(p, "check_open") /\ proc'[p].pc = "check_next"
           /\ proc'[p].cursor = Select(proc[p].ent, legacy)
           /\ Silent /\ UNCHANGED <<status, items>>
BY Typed DEF CheckOpen, Step, SameCommand, Process, Silent, SameRows, world, store, history

LEMMA CheckRowDoes ==
    ASSUME TypeOK, NEW p \in Procs, CheckRow(p)
    PROVE  /\ SameCommand(p) /\ At(p, "check_next")
           /\ \E k \in Pending(p) :
                /\ proc'[p].cursor = Drop(p, k)
                /\ \/ /\ svc[k] = proc[p].cursor[k] /\ proc'[p].bad = proc[p].bad
                      /\ proc'[p].pc = "check_item" /\ proc'[p].cur = k
                   \/ svc[k] # proc[p].cursor[k] /\ proc'[p].bad /\ proc'[p].pc = "check_next"
           /\ Silent /\ UNCHANGED <<status, items>>
<1> DEFINE same(k) == Agrees(svc[k], proc[p].cursor[k])
<1>1. PICK k \in Keys :
        /\ IsNext(p, k)
        /\ Step(p, [proc[p] EXCEPT
                      !.found = IF svc[k] = Absent THEN @ ELSE @ + 1,
                      !.bad = @ \/ ~ same(k),
                      !.cur = IF same(k) THEN k ELSE NoKey, !.cursor = Drop(p, k),
                      !.pc = IF same(k) THEN "check_item" ELSE "check_next"])
  BY DEF CheckRow
<1> DEFINE n == IF svc[k] = Absent THEN proc[p].found ELSE proc[p].found + 1
           b == proc[p].bad \/ ~ same(k)
           c == IF same(k) THEN k ELSE NoKey
           pc == IF same(k) THEN "check_item" ELSE "check_next"
<1>2. Step(p, [proc[p] EXCEPT !.found = n, !.bad = b, !.cur = c, !.cursor = Drop(p, k),
                              !.pc = pc])
  BY <1>1
<1> HIDE DEF n, b, c, pc
<1>3. /\ SameCommand(p) /\ proc'[p].bad = b /\ proc'[p].pc = pc /\ proc'[p].cur = c
      /\ proc'[p].cursor = Drop(p, k)
  BY <1>2, Typed DEF Step, SameCommand, Process
<1>4. k \in Pending(p)
  BY <1>1 DEF IsNext
<1>5. same(k) <=> svc[k] = proc[p].cursor[k]
  BY DEF Agrees
<1>6. \/ /\ svc[k] = proc[p].cursor[k] /\ b = proc[p].bad
         /\ pc = "check_item" /\ c = k
      \/ svc[k] # proc[p].cursor[k] /\ b = TRUE /\ pc = "check_next"
  <2>1. CASE same(k)
    BY <2>1, <1>5, Typed DEF b, c, pc, Process
  <2>2. CASE ~ same(k)
    BY <2>2, <1>5 DEF b, c, pc
  <2> QED
    BY <2>1, <2>2
<1> QED
  BY <1>3, <1>4, <1>6 DEF CheckRow, Silent, SameRows, world, store, history

LEMMA CheckRowLostDoes ==
    ASSUME TypeOK, NEW p \in Procs, CheckRowLost(p)
    PROVE  /\ SameCommand(p) /\ At(p, "check_next") /\ proc'[p].pc = "check_next"
           /\ proc'[p].bad
           /\ \E k \in Pending(p) : proc'[p].cursor = Drop(p, k)
           /\ Silent /\ UNCHANGED <<status, items>>
<1>1. PICK k \in Keys : /\ IsNext(p, k)
                        /\ Step(p, [proc[p] EXCEPT !.bad = TRUE, !.cursor = Drop(p, k)])
  BY DEF CheckRowLost
<1>2. /\ SameCommand(p) /\ proc'[p].bad /\ proc'[p].pc = proc[p].pc
      /\ proc'[p].cursor = Drop(p, k) /\ k \in Pending(p)
  BY <1>1, Typed DEF Step, SameCommand, Process, IsNext
<1> QED
  BY <1>2 DEF CheckRowLost, At, Silent, SameRows, world, store, history

LEMMA CheckItemDoes ==
    ASSUME TypeOK, NEW p \in Procs, CheckItem(p)
    PROVE  /\ SameCommand(p) /\ proc'[p].bad = proc[p].bad /\ At(p, "check_item")
           /\ proc'[p].cursor = proc[p].cursor /\ proc[p].cur \in Keys
           /\ IF Markable(proc[p].run, proc[p].cur)
              THEN proc'[p].pc = "check_mark" /\ proc'[p].cur = proc[p].cur
              ELSE proc'[p].pc = "check_next"
           /\ Silent /\ UNCHANGED <<status, items>>
<1>1. At(p, "check_item") /\ proc[p].cur \in Keys
  BY Typed DEF CheckItem, StageOK, At
<1>2. CASE Markable(proc[p].run, proc[p].cur)
  <2>1. Step(p, [proc[p] EXCEPT !.pc = "check_mark"])
    BY <1>2 DEF CheckItem
  <2>2. /\ SameCommand(p) /\ proc'[p].bad = proc[p].bad /\ proc'[p].cursor = proc[p].cursor
        /\ proc'[p].pc = "check_mark" /\ proc'[p].cur = proc[p].cur
    BY <2>1, Typed DEF Step, SameCommand, Process
  <2> QED
    BY <1>1, <1>2, <2>2 DEF CheckItem, Silent, SameRows, world, store, history
<1>3. CASE ~ Markable(proc[p].run, proc[p].cur)
  <2>1. Step(p, [proc[p] EXCEPT !.cur = NoKey, !.pc = "check_next"])
    BY <1>3 DEF CheckItem
  <2>2. /\ SameCommand(p) /\ proc'[p].bad = proc[p].bad /\ proc'[p].cursor = proc[p].cursor
        /\ proc'[p].pc = "check_next"
    BY <2>1, Typed DEF Step, SameCommand, Process
  <2> QED
    BY <1>1, <1>3, <2>2 DEF CheckItem, Silent, SameRows, world, store, history
<1> QED
  BY <1>2, <1>3

LEMMA CheckMarkDoes ==
    ASSUME TypeOK, NEW p \in Procs, CheckMark(p)
    PROVE  /\ SameCommand(p) /\ proc'[p].bad = proc[p].bad
           /\ At(p, "check_mark") /\ proc'[p].pc = "check_next"
           /\ proc'[p].cursor = proc[p].cursor
           /\ proc[p].cur \in Keys /\ proc[p].run \in Runs
           /\ Records(proc[p].run, proc[p].cur, "validated")
           /\ Silent /\ status' = status
<1>1. /\ SameCommand(p) /\ proc'[p].bad = proc[p].bad /\ At(p, "check_mark")
      /\ proc'[p].pc = "check_next" /\ proc'[p].cursor = proc[p].cursor
      /\ proc[p].cur \in Keys /\ proc[p].run \in Runs
  BY Typed DEF CheckMark, Step, SameCommand, Process, StageOK, At
<1> QED
  BY <1>1 DEF Records, CheckMark, Silent, SameRows, world, history

LEMMA CheckEndDoes ==
    ASSUME TypeOK, NEW p \in Procs, CheckEnd(p)
    PROVE  /\ proc'[p].cmd = proc[p].cmd /\ proc'[p].run = proc[p].run
           /\ proc'[p].ent = "sale" /\ proc'[p].bad = Mismatch(p)
           /\ At(p, "check_next") /\ Pending(p) = {}
           /\ proc'[p].pc = IF Imports(p) /\ Mismatch(p) THEN "fail"
                            ELSE IF proc[p].ent = "sale" THEN "refs_open"
                            ELSE IF Imports(p) THEN "import_open" ELSE "count"
           /\ status' = IF ~ Imports(p) THEN status
                        ELSE IF ~ Mismatch(p)
                        THEN [status EXCEPT ![proc[p].run] =
                                IF proc[p].ent = "user" THEN "USERS_VALIDATED"
                                ELSE "SALES_VALIDATED"]
                        ELSE IF proc[p].ent = "user"
                        THEN [status EXCEPT ![proc[p].run] = "FAILED"]
                        ELSE status
           /\ proc'[p].cursor = proc[p].cursor
           /\ Silent /\ items' = items
<1> DEFINE b == Mismatch(p)
           pc == IF Imports(p) /\ Mismatch(p) THEN "fail"
                 ELSE IF proc[p].ent = "sale" THEN "refs_open"
                 ELSE IF Imports(p) THEN "import_open" ELSE "count"
<1>1. Step(p, [proc[p] EXCEPT !.bad = b, !.expected = 0, !.found = 0, !.ent = "sale",
                              !.pc = pc])
  BY DEF CheckEnd
<1> HIDE DEF b, pc
<1>2. /\ proc'[p].cmd = proc[p].cmd /\ proc'[p].run = proc[p].run
      /\ proc'[p].ent = "sale" /\ proc'[p].bad = b /\ proc'[p].pc = pc
      /\ proc'[p].cursor = proc[p].cursor
  BY <1>1, Typed DEF Step, Process
<1> QED
  BY <1>2 DEF b, pc, CheckEnd, Silent, SameRows, world, history

LEMMA RefsOpenDoes ==
    ASSUME TypeOK, NEW p \in Procs, RefsOpen(p)
    PROVE  /\ SameCommand(p) /\ proc'[p].bad = proc[p].bad
           /\ At(p, "refs_open") /\ proc'[p].pc = "refs_next"
           /\ proc'[p].refs = LegacyRefs /\ proc'[p].missing = {}
           /\ Silent /\ UNCHANGED <<status, items>>
<1> DEFINE l == LegacyRefs
<1>1. Step(p, [proc[p] EXCEPT !.refs = l, !.missing = {}, !.pc = "refs_next"])
  BY DEF RefsOpen
<1> HIDE DEF l
<1>2. /\ SameCommand(p) /\ proc'[p].bad = proc[p].bad /\ proc'[p].pc = "refs_next"
      /\ proc'[p].refs = l /\ proc'[p].missing = {}
  BY <1>1, Typed DEF Step, SameCommand, Process
<1> QED
  BY <1>2 DEF l, RefsOpen, Silent, SameRows, world, store, history

LEMMA RefsGetDoes ==
    ASSUME TypeOK, NEW p \in Procs, RefsGet(p)
    PROVE  /\ SameCommand(p) /\ proc'[p].bad = proc[p].bad
           /\ At(p, "refs_next") /\ proc'[p].pc = "refs_next"
           /\ \E u \in Users :
                /\ proc'[p].refs = proc[p].refs \ {u}
                /\ \/ svc[u] = Absent /\ proc'[p].missing = proc[p].missing \union {u}
                   \/ svc[u] # Absent /\ proc'[p].missing = proc[p].missing
           /\ Silent /\ UNCHANGED <<status, items>>
<1> DEFINE m(u) == IF svc[u] = Absent THEN proc[p].missing \union {u} ELSE proc[p].missing
<1>1. PICK u \in Users : Step(p, [proc[p] EXCEPT !.refs = RefsAfter(p, u), !.missing = m(u)])
  BY DEF RefsGet
<1> HIDE DEF m
<1>2. /\ SameCommand(p) /\ proc'[p].bad = proc[p].bad /\ proc'[p].pc = proc[p].pc
      /\ proc'[p].refs = proc[p].refs \ {u} /\ proc'[p].missing = m(u)
  BY <1>1, Typed DEF Step, SameCommand, Process, RefsAfter
<1>3. \/ svc[u] = Absent /\ m(u) = proc[p].missing \union {u}
      \/ svc[u] # Absent /\ m(u) = proc[p].missing
  BY DEF m
<1> QED
  BY <1>2, <1>3 DEF RefsGet, At, Silent, SameRows, world, store, history

LEMMA RefsGetLostDoes ==
    ASSUME TypeOK, NEW p \in Procs, RefsGetLost(p)
    PROVE  /\ SameCommand(p) /\ proc'[p].bad
           /\ At(p, "refs_next") /\ proc'[p].pc = "refs_next"
           /\ Silent /\ UNCHANGED <<status, items>>
<1>1. PICK u \in Users : Step(p, [proc[p] EXCEPT !.refs = RefsAfter(p, u),
                                     !.missing = proc[p].missing \union {u}, !.bad = TRUE])
  BY DEF RefsGetLost
<1>2. SameCommand(p) /\ proc'[p].bad /\ proc'[p].pc = proc[p].pc
  BY <1>1, Typed DEF Step, SameCommand, Process
<1> QED
  BY <1>2 DEF RefsGetLost, At, Silent, SameRows, world, store, history

LEMMA RefsEndDoes ==
    ASSUME TypeOK, NEW p \in Procs, RefsEnd(p)
    PROVE  /\ SameCommand(p)
           /\ proc'[p].bad = (proc[p].bad \/ Orphans(p) # {})
           /\ At(p, "refs_next") /\ proc[p].refs = {}
           /\ proc'[p].pc = IF ~ Imports(p) THEN "report"
                            ELSE IF proc'[p].bad THEN "fail" ELSE "complete"
           /\ status' = IF Imports(p) /\ ~ proc'[p].bad
                        THEN [status EXCEPT ![proc[p].run] = "VALIDATED"] ELSE status
           /\ Silent /\ items' = items
<1> DEFINE b == proc[p].bad \/ Orphans(p) # {}
           pc == IF ~ Imports(p) THEN "report" ELSE IF b THEN "fail" ELSE "complete"
<1>1. Step(p, [proc[p] EXCEPT !.bad = b, !.missing = {}, !.pc = pc])
  BY DEF RefsEnd
<1>2. status' = IF Imports(p) /\ ~ b THEN [status EXCEPT ![proc[p].run] = "VALIDATED"]
                ELSE status
  BY DEF RefsEnd
<1> HIDE DEF b, pc
<1>3. SameCommand(p) /\ proc'[p].bad = b /\ proc'[p].pc = pc
  BY <1>1, Typed DEF Step, SameCommand, Process
<1> QED
  BY <1>2, <1>3 DEF b, pc, RefsEnd, Silent, SameRows, world, store, history

(* Every way a command ends. *)
LEMMA EndDoes ==
    ASSUME TypeOK, NEW p \in Procs,
           Finalize(p) \/ Report(p) \/ Abort(p) \/ Crash(p) \/ RollbackEnd(p)
    PROVE  proc'[p] = IdleProcess /\ Silent /\ items' = items
BY Typed DEF Finalize, Report, Abort, Crash, RollbackEnd, Exit, Step, Silent, SameRows,
             world, store, history

(***************************************************************************)
(* rollback, with and without --dry-run.                                   *)
(***************************************************************************)
LEMMA RollbackOpenDoes ==
    ASSUME TypeOK, NEW p \in Procs, RollbackOpen(p)
    PROVE  /\ SameCommand(p) /\ proc'[p].bad = proc[p].bad
           /\ At(p, "rb_open") /\ proc'[p].pc = "rb_next"
           /\ proc'[p].cursor = Select(proc[p].ent, CreatedItems(proc[p].run))
           /\ Silent /\ UNCHANGED <<status, items>>
<1> DEFINE c == Select(proc[p].ent, CreatedItems(proc[p].run))
<1>1. Step(p, [proc[p] EXCEPT !.cursor = c, !.pc = "rb_next"])
  BY DEF RollbackOpen
<1> HIDE DEF c
<1>2. /\ SameCommand(p) /\ proc'[p].bad = proc[p].bad /\ proc'[p].pc = "rb_next"
      /\ proc'[p].cursor = c
  BY <1>1, Typed DEF Step, SameCommand, Process
<1> QED
  BY <1>2 DEF c, RollbackOpen, Silent, SameRows, world, store, history

LEMMA RollbackReadDoes ==
    ASSUME TypeOK, NEW p \in Procs, RollbackRead(p)
    PROVE  /\ SameCommand(p) /\ At(p, "rb_next")
           /\ \E k \in Pending(p) :
                /\ IsNext(p, k) /\ proc'[p].cur = k /\ proc'[p].cursor = Drop(p, k)
                /\ proc'[p].ans = Decision(p, k)
                /\ proc'[p].bad = (proc[p].bad \/ Decision(p, k) = "rollback_conflict")
                /\ proc'[p].pc = IF Decision(p, k) # "none" \/ Dry(p) THEN "rb_mark"
                                 ELSE "delete"
           /\ Silent /\ UNCHANGED <<status, items>>
<1>1. PICK k \in Keys :
        /\ IsNext(p, k)
        /\ Step(p, [proc[p] EXCEPT
                      !.cur = k, !.cursor = Drop(p, k), !.ans = Decision(p, k),
                      !.bad = @ \/ Decision(p, k) = "rollback_conflict",
                      !.pc = IF Decision(p, k) # "none" \/ Dry(p) THEN "rb_mark"
                             ELSE "delete"])
  BY DEF RollbackRead
<1> DEFINE a == Decision(p, k)
           b == proc[p].bad \/ a = "rollback_conflict"
           pc == IF a # "none" \/ Dry(p) THEN "rb_mark" ELSE "delete"
<1>2. Step(p, [proc[p] EXCEPT !.cur = k, !.cursor = Drop(p, k), !.ans = a, !.bad = b,
                              !.pc = pc])
  BY <1>1
<1> HIDE DEF a, b, pc
<1>3. /\ SameCommand(p) /\ proc'[p].cur = k /\ proc'[p].cursor = Drop(p, k)
      /\ proc'[p].ans = a /\ proc'[p].bad = b /\ proc'[p].pc = pc
  BY <1>2, Typed DEF Step, SameCommand, Process
<1>4. k \in Pending(p)
  BY <1>1 DEF IsNext
<1> QED
  BY <1>1, <1>3, <1>4 DEF a, b, pc, RollbackRead, Silent, SameRows, world, store, history

LEMMA RollbackReadLostDoes ==
    ASSUME TypeOK, NEW p \in Procs, RollbackReadLost(p)
    PROVE  /\ SameCommand(p) /\ At(p, "rb_next") /\ proc'[p].pc = "rb_mark"
           /\ proc'[p].bad /\ proc'[p].ans = "rollback_failed"
           /\ \E k \in Pending(p) : proc'[p].cur = k /\ proc'[p].cursor = Drop(p, k)
           /\ Silent /\ UNCHANGED <<status, items>>
<1>1. PICK k \in Keys : /\ IsNext(p, k)
                        /\ Step(p, [proc[p] EXCEPT !.cur = k, !.cursor = Drop(p, k),
                                           !.bad = TRUE, !.ans = "rollback_failed",
                                           !.pc = "rb_mark"])
  BY DEF RollbackReadLost
<1>2. /\ SameCommand(p) /\ proc'[p].bad /\ proc'[p].pc = "rb_mark"
      /\ proc'[p].ans = "rollback_failed"
      /\ proc'[p].cur = k /\ proc'[p].cursor = Drop(p, k) /\ k \in Pending(p)
  BY <1>1, Typed DEF Step, SameCommand, Process, IsNext
<1> QED
  BY <1>2 DEF RollbackReadLost, Silent, SameRows, world, store, history

LEMMA DeleteAnsweredDoes ==
    ASSUME TypeOK, NEW p \in Procs, DeleteAnswered(p)
    PROVE  /\ SameCommand(p) /\ proc'[p].bad = proc[p].bad
           /\ At(p, "delete") /\ proc'[p].pc = "confirm"
           /\ proc'[p].cursor = proc[p].cursor /\ proc'[p].cur = proc[p].cur
           /\ Attempted(p) /\ svc'[proc[p].cur] = Absent
<1>1. Attempted(p)
  BY AttemptLemma DEF DeleteAnswered, DeleteRequest
<1>2. svc'[proc[p].cur] = Absent
  <2>1. proc[p].cur \in Keys
    BY Typed DEF StageOK, DeleteAnswered, At
  <2> QED
    BY <2>1, Typed DEF DeleteAnswered, Answer, Run, DeleteRequest, Tables
<1>3. /\ SameCommand(p) /\ proc'[p].bad = proc[p].bad /\ proc'[p].pc = "confirm"
      /\ proc'[p].cursor = proc[p].cursor /\ proc'[p].cur = proc[p].cur
  BY Typed DEF DeleteAnswered, Step, SameCommand, Process
<1> QED
  BY <1>1, <1>2, <1>3 DEF DeleteAnswered

LEMMA UnresolvedDoes ==
    ASSUME TypeOK, NEW p \in Procs, Unresolved(p)
    PROVE  /\ SameCommand(p) /\ proc'[p].bad /\ proc'[p].pc = "rb_mark"
           /\ proc'[p].ans = "rollback_failed"
           /\ proc'[p].cursor = proc[p].cursor /\ proc'[p].cur = proc[p].cur
BY Typed DEF Unresolved, Step, SameCommand, Process

LEMMA DeleteLostDoes ==
    ASSUME TypeOK, NEW p \in Procs, DeleteLost(p)
    PROVE  /\ SameCommand(p) /\ At(p, "delete")
           /\ \/ /\ proc'[p].pc = "rb_mark" /\ proc'[p].bad
                 /\ proc'[p].ans = "rollback_failed"
              \/ proc'[p].pc = "delete" /\ proc'[p].bad = proc[p].bad
           /\ proc'[p].cursor = proc[p].cursor /\ proc'[p].cur = proc[p].cur
           /\ Attempted(p) /\ faults' = faults + 1
           /\ svc'[proc[p].cur] \in {svc[proc[p].cur], Absent}
<1>1. Attempted(p)
  BY AttemptLemma DEF DeleteLost, DeleteRequest
<1>2. At(p, "delete") /\ faults' = faults + 1
  BY DEF DeleteLost, Lose, Fault
<1>3. svc'[proc[p].cur] \in {svc[proc[p].cur], Absent}
  <2>1. proc[p].cur \in Keys
    BY <1>2, Typed DEF StageOK, At
  <2>2. svc' = svc \/ Run(DeleteRequest(p))
    BY DEF DeleteLost, Lose
  <2> QED
    BY <2>1, <2>2, Typed DEF Run, DeleteRequest, Tables
<1>4. CASE Exhausted(p)
  BY <1>1, <1>2, <1>3, <1>4, UnresolvedDoes DEF DeleteLost
<1>5. CASE ~ Exhausted(p)
  <2>1. Step(p, [proc[p] EXCEPT !.tries = @ + 1])
    BY <1>5 DEF DeleteLost
  <2>2. /\ SameCommand(p) /\ proc'[p].bad = proc[p].bad /\ proc'[p].pc = proc[p].pc
        /\ proc'[p].cursor = proc[p].cursor /\ proc'[p].cur = proc[p].cur
    BY <2>1, Typed DEF Step, SameCommand, Process
  <2> QED
    BY <2>2, <1>1, <1>2, <1>3 DEF At
<1> QED
  BY <1>4, <1>5

LEMMA RollbackConfirmDoes ==
    ASSUME TypeOK, NEW p \in Procs, RollbackConfirm(p)
    PROVE  /\ SameCommand(p) /\ At(p, "confirm") /\ proc'[p].pc = "rb_mark"
           /\ \/ svc[proc[p].cur] = Absent /\ proc'[p].bad = proc[p].bad
                 /\ proc'[p].ans = "rolled_back"
              \/ proc'[p].bad /\ proc'[p].ans = "rollback_failed"
           /\ proc'[p].cursor = proc[p].cursor /\ proc'[p].cur = proc[p].cur
           /\ Silent /\ UNCHANGED <<status, items>>
<1>1. At(p, "confirm") /\ Silent /\ UNCHANGED <<status, items>>
  BY DEF RollbackConfirm, Silent, SameRows, world, store, history
<1>2. CASE svc[proc[p].cur] = Absent
  <2>1. Step(p, [proc[p] EXCEPT !.ans = "rolled_back", !.pc = "rb_mark"])
    BY <1>2 DEF RollbackConfirm
  <2>2. /\ SameCommand(p) /\ proc'[p].bad = proc[p].bad /\ proc'[p].pc = "rb_mark"
        /\ proc'[p].ans = "rolled_back"
        /\ proc'[p].cursor = proc[p].cursor /\ proc'[p].cur = proc[p].cur
    BY <2>1, Typed DEF Step, SameCommand, Process
  <2> QED
    BY <2>2, <1>1, <1>2
<1>3. CASE svc[proc[p].cur] # Absent
  BY <1>1, <1>3, UnresolvedDoes DEF RollbackConfirm
<1> QED
  BY <1>2, <1>3

LEMMA RemovalFailedDoes ==
    ASSUME TypeOK, NEW p \in Procs, RemovalFailed(p)
    PROVE  /\ SameCommand(p) /\ proc[p].pc \in {"delete", "confirm"}
           /\ proc'[p].pc = "rb_mark" /\ proc'[p].bad /\ proc'[p].ans = "rollback_failed"
           /\ proc'[p].cursor = proc[p].cursor /\ proc'[p].cur = proc[p].cur
           /\ Silent /\ UNCHANGED <<status, items>>
BY UnresolvedDoes DEF RemovalFailed, Silent, SameRows, world, store, history

LEMMA RollbackMarkDoes ==
    ASSUME TypeOK, NEW p \in Procs, RollbackMark(p)
    PROVE  /\ SameCommand(p) /\ proc'[p].bad = proc[p].bad
           /\ At(p, "rb_mark") /\ proc'[p].pc = "rb_next"
           /\ proc'[p].cursor = proc[p].cursor
           /\ IF Dry(p) THEN items' = items
              ELSE Records(proc[p].run, proc[p].cur, proc[p].ans)
           /\ Silent /\ status' = status
BY Typed DEF Records, RollbackMark, Marks, Step, SameCommand, Process, Silent, SameRows, world,
   history

LEMMA SalesDoneDoes ==
    ASSUME TypeOK, NEW p \in Procs, SalesDone(p)
    PROVE  /\ proc'[p].cmd = proc[p].cmd /\ proc'[p].run = proc[p].run
           /\ proc[p].ent = "sale" /\ proc'[p].ent = "user"
           /\ ~ proc[p].bad /\ proc'[p].bad = proc[p].bad
           /\ At(p, "rb_next") /\ proc'[p].pc = "rb_open"
           /\ Pending(p) = {} /\ proc'[p].cursor = proc[p].cursor
           /\ Silent /\ UNCHANGED <<status, items>>
BY Typed DEF SalesDone, UsersNext, Step, Process, Silent, SameRows, world, store, history

(***************************************************************************)
(* What a process may rely on while somebody else takes a step.            *)
(***************************************************************************)
(* Rows nobody else wrote since the command of p began are as they were. *)
Undisturbed(p) ==
    \A k \in Settled(p)' :
        k \in Settled(p) /\ legacy'[k] = legacy[k] /\ svc'[k] = svc[k]

LEMMA CallDisturbs ==
    ASSUME TypeOK, NEW q, NEW by, NEW p \in Procs, p \notin by,
           Run(q) /\ Noticed(Written, by), legacy' = legacy
    PROVE  Undisturbed(p)
<1>1. touched'[p] = touched[p] \union Written
  BY DEF Noticed
<1> QED
  BY <1>1 DEF Undisturbed, Settled, Written

LEMMA QuietDisturbs ==
    ASSUME NEW p \in Procs, UNCHANGED <<legacy, svc>>, touched'[p] = touched[p]
    PROVE  Undisturbed(p)
BY DEF Undisturbed, Settled

(* A step of another process. *)
LEMMA OthersKeep ==
    ASSUME TypeOK, NEW q \in Procs, Start(q) \/ Advance(q) \/ Trouble(q),
           NEW p \in Procs, p # q
    PROVE  proc'[p] = proc[p] /\ Undisturbed(p)
<1> DEFINE OneStep == \E r : Step(q, r)
<1>1. ASSUME OneStep PROVE proc'[p] = proc[p]
  BY <1>1, Typed DEF Step
<1>2. CASE Start(q)
  <2>1. PICK cmd, r, ent, stage : Begin(q, cmd, r, ent, stage)
    BY <1>2, StartDoes
  <2>2. touched'[p] = touched[p]
    BY <2>1, Typed DEF Begin
  <2>3. UNCHANGED <<legacy, svc>>
    BY <1>2, StartDoes DEF SameRows
  <2> QED
    BY <2>1, <2>2, <2>3, BeginDoes, QuietDisturbs
<1>3. CASE PostAnswered(q) \/ PostLost(q) \/ DeleteAnswered(q) \/ DeleteLost(q)
  <2>1. OneStep /\ legacy' = legacy
    BY <1>3 DEF PostAnswered, PostLost, DeleteAnswered, DeleteLost, Unresolved
  <2>2. \/ \E call : Run(call) /\ Noticed(Written, {q})
        \/ UNCHANGED <<svc, touched>>
    BY <1>3 DEF PostAnswered, PostLost, DeleteAnswered, DeleteLost, Answer, Lose
  <2> QED
    BY <1>1, <2>1, <2>2, CallDisturbs, QuietDisturbs
<1>4. ASSUME OneStep, UNCHANGED <<world, history>>
      PROVE  proc'[p] = proc[p] /\ Undisturbed(p)
  BY <1>1, <1>4, QuietDisturbs DEF world, history
<1>5. CASE \/ ImportOpen(q) \/ ImportSkip(q) \/ ImportBegin(q) \/ ImportUpsert(q)
           \/ ImportEnd(q) \/ PostRefused(q)
  <2>1. OneStep /\ UNCHANGED <<world, history>>
    BY <1>5 DEF ImportOpen, ImportSkip, ImportBegin, ImportUpsert, ImportEnd, PostRefused, Goto
  <2> QED
    BY <1>4, <2>1
<1>6. CASE \/ CountLegacy(q) \/ CheckOpen(q) \/ CheckRow(q) \/ CheckRowLost(q)
           \/ CheckItem(q) \/ CheckMark(q)
           \/ CheckEnd(q)
  <2>1. OneStep /\ UNCHANGED <<world, history>>
    BY <1>6 DEF CountLegacy, CheckOpen, CheckRow, CheckRowLost, CheckItem,
                CheckMark, CheckEnd
  <2> QED
    BY <1>4, <2>1
<1>7. CASE \/ RefsOpen(q) \/ RefsGet(q) \/ RefsGetLost(q) \/ RefsEnd(q) \/ Finalize(q)
           \/ Report(q) \/ Abort(q) \/ Crash(q) \/ RollbackEnd(q)
  <2>1. OneStep /\ UNCHANGED <<world, history>>
    BY <1>7 DEF RefsOpen, RefsGet, RefsGetLost, RefsEnd, Finalize, Report, Abort, Crash,
                RollbackEnd, Exit
  <2> QED
    BY <1>4, <2>1
<1>8. CASE \/ RollbackOpen(q) \/ RollbackRead(q) \/ RollbackReadLost(q) \/ RollbackConfirm(q)
           \/ RemovalFailed(q) \/ RollbackMark(q) \/ SalesDone(q)
  <2>1. OneStep /\ UNCHANGED <<world, history>>
    BY <1>8 DEF RollbackOpen, RollbackRead, RollbackReadLost, RollbackConfirm, RemovalFailed,
                RollbackMark, SalesDone, Unresolved
  <2> QED
    BY <1>4, <2>1
<1> QED
  BY <1>2, <1>3, <1>5, <1>6, <1>7, <1>8
     DEF Advance, Trouble, SnapshotStep, SnapshotTrouble, RollbackStep, RollbackTrouble

(* A step of nobody's command: no process and no record of the store changes. *)
LEMMA ElsewhereKeeps ==
    ASSUME TypeOK, Elsewhere, NEW p \in Procs
    PROVE  UNCHANGED <<proc, status, items, faults, pre>> /\ Undisturbed(p)
<1>1. ASSUME NEW q \in wire, Arrive(q)
      PROVE  UNCHANGED <<proc, status, items, faults, pre>> /\ Undisturbed(p)
  <2>1. UNCHANGED <<proc, status, items, faults, pre, legacy>>
    BY <1>1 DEF Arrive, store, budget
  <2> QED
    BY <1>1, <2>1, CallDisturbs DEF Arrive
<1>2. ASSUME NEW k \in Keys, NEW v \in Contents, LegacyWrite(k, v) \/ ServiceWrite(k, v)
      PROVE  UNCHANGED <<proc, status, items, faults, pre>> /\ Undisturbed(p)
  <2>1. UNCHANGED <<proc, status, items, faults, pre>>
    BY <1>2 DEF LegacyWrite, ServiceWrite, store
  <2>2. touched'[p] = touched[p] \union {k}
    BY <1>2 DEF LegacyWrite, ServiceWrite, Noticed
  <2>3. \A j \in Keys : j # k => legacy'[j] = legacy[j] /\ svc'[j] = svc[j]
    BY <1>2, Typed DEF LegacyWrite, ServiceWrite, Tables
  <2> QED
    BY <2>1, <2>2, <2>3 DEF Undisturbed, Settled
<1> QED
  BY <1>1, <1>2 DEF Elsewhere

(* The steps that write the outcome of a run. *)
LEMMA FinalizeDoes ==
    ASSUME NEW p \in Procs, Finalize(p)
    PROVE  /\ proc[p].pc \in {"fail", "complete"}
           /\ status' = [status EXCEPT ![proc[p].run] =
                           IF At(p, "fail") THEN "FAILED" ELSE "COMPLETED"]
BY DEF Finalize

LEMMA AbortDoes ==
    ASSUME NEW p \in Procs, Abort(p)
    PROVE  Imports(p) /\ status' = [status EXCEPT ![proc[p].run] = "FAILED"]
BY DEF Abort

LEMMA RollbackEndDoes ==
    ASSUME NEW p \in Procs, RollbackEnd(p)
    PROVE  /\ At(p, "rb_next") /\ Pending(p) = {}
           /\ proc[p].ent # "sale" \/ proc[p].bad
           /\ status' = IF Dry(p) THEN status
                        ELSE [status EXCEPT ![proc[p].run] =
                                IF proc[p].bad THEN "ROLLBACK_FAILED" ELSE "ROLLED_BACK"]
BY DEF RollbackEnd, UsersNext

LEMMA StopsQuietly ==
    ASSUME NEW p \in Procs, Report(p) \/ Crash(p)
    PROVE  status' = status
BY DEF Report, Crash, store

(* Whatever goes wrong is counted. *)
LEMMA FaultsCounted ==
    ASSUME TypeOK
    PROVE  /\ \A p \in Procs : Trouble(p) => faults' = faults + 1
           /\ \A p \in Procs : Start(p) \/ Advance(p) => faults' = faults /\ drift' = drift
           /\ \A p \in Procs : Trouble(p) => drift' = drift
           /\ Elsewhere => faults' = faults /\ drift' \in {drift, drift + 1}
<1>1. ASSUME NEW p \in Procs, Trouble(p) PROVE faults' = faults + 1 /\ drift' = drift
  BY <1>1 DEF Trouble, SnapshotTrouble, RollbackTrouble, PostLost, PostRefused, CheckRowLost,
              RefsGetLost, Abort, Crash, RollbackReadLost, DeleteLost, RemovalFailed, Lose, Fault
<1>2. ASSUME NEW p \in Procs, Start(p) PROVE faults' = faults /\ drift' = drift
  BY <1>2, StartDoes
<1>3. ASSUME NEW p \in Procs, SnapshotStep(p) PROVE faults' = faults /\ drift' = drift
  BY <1>3 DEF SnapshotStep, ImportOpen, ImportSkip, ImportBegin, PostAnswered, ImportUpsert,
              ImportEnd, CountLegacy, CheckOpen, CheckRow, CheckItem, CheckMark, CheckEnd, RefsOpen,
              RefsGet, RefsEnd, Finalize, Report, Answer, budget
<1>4. ASSUME NEW p \in Procs, RollbackStep(p) PROVE faults' = faults /\ drift' = drift
  BY <1>4 DEF RollbackStep, RollbackOpen, RollbackRead, DeleteAnswered, RollbackConfirm,
              RollbackMark, SalesDone, RollbackEnd, Answer, budget
<1>5. ASSUME Elsewhere PROVE faults' = faults /\ drift' \in {drift, drift + 1}
  BY <1>5 DEF Elsewhere, Arrive, LegacyWrite, ServiceWrite, budget
<1> QED
  BY <1>1, <1>2, <1>3, <1>4, <1>5 DEF Advance

(***************************************************************************)
(* Who writes what.                                                        *)
(***************************************************************************)
Sends(p) == PostAnswered(p) \/ PostLost(p) \/ DeleteAnswered(p) \/ DeleteLost(p)

(* Only an HTTP attempt changes a service, only three steps an item, and only the
   end of a phase or of a command the status of a run. *)
LEMMA WhoWrites ==
    ASSUME TypeOK, NEW p \in Procs, Start(p) \/ Advance(p) \/ Trouble(p)
    PROVE  /\ Sends(p) \/ (SameRows /\ touched' = touched) \/ (SameRows /\ Start(p))
           /\ ImportUpsert(p) \/ CheckMark(p) \/ RollbackMark(p) \/ items' = items
           /\ \/ Start(p) \/ ImportEnd(p) \/ CheckEnd(p) \/ RefsEnd(p) \/ Finalize(p) \/ Abort(p)
              \/ RollbackEnd(p) \/ status' = status
<1>1. CASE Start(p)
  BY <1>1, StartDoes
<1>2. CASE Sends(p)
  <2>1. items' = items /\ status' = status
    BY <1>2, PostAnsweredDoes, PostLostDoes, DeleteAnsweredDoes, DeleteLostDoes
       DEF Sends, Attempted
  <2> QED
    BY <1>2, <2>1
<1>3. CASE \/ ImportOpen(p) \/ ImportSkip(p) \/ ImportBegin(p) \/ ImportUpsert(p) \/ ImportEnd(p)
           \/ PostRefused(p)
  BY <1>3, ImportOpenDoes, ImportSkipDoes, ImportBeginDoes, ImportUpsertDoes, ImportEndDoes,
     PostRefusedDoes DEF Silent
<1>4. CASE \/ CountLegacy(p) \/ CheckOpen(p) \/ CheckRow(p) \/ CheckRowLost(p)
           \/ CheckItem(p) \/ CheckMark(p)
           \/ CheckEnd(p)
  BY <1>4, CountLegacyDoes, CheckOpenDoes, CheckRowDoes, CheckRowLostDoes, CheckItemDoes,
     CheckMarkDoes,
     CheckEndDoes DEF Silent
<1>5. CASE \/ RefsOpen(p) \/ RefsGet(p) \/ RefsGetLost(p) \/ RefsEnd(p)
           \/ Finalize(p) \/ Report(p) \/ Abort(p) \/ Crash(p) \/ RollbackEnd(p)
  BY <1>5, RefsOpenDoes, RefsGetDoes, RefsGetLostDoes, RefsEndDoes, EndDoes,
     StopsQuietly DEF Silent
<1>6. CASE \/ RollbackOpen(p) \/ RollbackRead(p) \/ RollbackReadLost(p) \/ RollbackConfirm(p)
           \/ RemovalFailed(p) \/ RollbackMark(p) \/ SalesDone(p)
  BY <1>6, RollbackOpenDoes, RollbackReadDoes, RollbackReadLostDoes, RollbackConfirmDoes,
     RemovalFailedDoes, RollbackMarkDoes, SalesDoneDoes DEF Silent
<1> QED
  BY <1>1, <1>2, <1>3, <1>4, <1>5, <1>6
     DEF Advance, Trouble, SnapshotStep, SnapshotTrouble, RollbackStep, RollbackTrouble, Sends

(* A marked item keeps its action and its payload. *)
LEMMA MarkKeeps ==
    ASSUME TypeOK, NEW r, NEW j, NEW v, Records(r, j, v), NEW s \in Runs, NEW k \in Keys
    PROVE  /\ items'[s][k].action = items[s][k].action
           /\ items'[s][k].payload = items[s][k].payload
           /\ s = r /\ k = j => items'[s][k].status = v
           /\ ~ (s = r /\ k = j) => items'[s][k] = items[s][k]
<1>1. /\ items \in [Runs -> [Keys -> Item]] /\ items[s] \in [Keys -> Item]
      /\ items[s][k] \in Item
  BY DEF TypeOK
<1>2. [items[s][k] EXCEPT !.status = v].action = items[s][k].action
      /\ [items[s][k] EXCEPT !.status = v].payload = items[s][k].payload
      /\ [items[s][k] EXCEPT !.status = v].status = v
  BY <1>1 DEF Item, NoItem
<1>3. CASE s = r /\ k = j
  BY <1>1, <1>2, <1>3 DEF Records
<1>4. CASE ~ (s = r /\ k = j)
  BY <1>1, <1>4 DEF Records
<1> QED
  BY <1>3, <1>4

(* An item after a step: as it was, sent again, or with another status. *)
LEMMA ItemAfter ==
    ASSUME TypeOK, NEW p \in Procs, Start(p) \/ Advance(p) \/ Trouble(p),
           NEW s \in Runs, NEW k \in Keys
    PROVE  \/ items'[s][k] = items[s][k]
           \/ /\ s = proc[p].run /\ k = proc[p].cur
              /\ \/ /\ ImportUpsert(p)
                    /\ items'[s][k] = UpsertedItem(proc[p].ans, proc[p].cursor[proc[p].cur])
                 \/ /\ CheckMark(p) /\ items'[s][k].status = "validated"
                    /\ items'[s][k].action = items[s][k].action
                    /\ items'[s][k].payload = items[s][k].payload
                 \/ /\ RollbackMark(p) /\ ~ Dry(p) /\ items'[s][k].status = proc[p].ans
                    /\ items'[s][k].action = items[s][k].action
                    /\ items'[s][k].payload = items[s][k].payload
<1>1. CASE ImportUpsert(p)
  <2> DEFINE new == UpsertedItem(proc[p].ans, proc[p].cursor[proc[p].cur])
  <2>1. items' = [items EXCEPT ![proc[p].run][proc[p].cur] = new]
    BY <1>1, ImportUpsertDoes
  <2> HIDE DEF new
  <2>2. IF s = proc[p].run /\ k = proc[p].cur THEN items'[s][k] = new
        ELSE items'[s][k] = items[s][k]
    BY <2>1, Typed
  <2> QED
    BY <1>1, <2>2 DEF new
<1>2. CASE CheckMark(p)
  <2>1. Records(proc[p].run, proc[p].cur, "validated")
    BY <1>2, CheckMarkDoes
  <2> QED
    BY <1>2, <2>1, MarkKeeps
<1>3. CASE RollbackMark(p)
  <2>1. IF Dry(p) THEN items' = items ELSE Records(proc[p].run, proc[p].cur, proc[p].ans)
    BY <1>3, RollbackMarkDoes
  <2> QED
    BY <1>3, <2>1, MarkKeeps
<1> QED
  BY <1>1, <1>2, <1>3, WhoWrites

(* An item changes its action only when the run sends the row again. *)
LEMMA ActionsKept ==
    ASSUME TypeOK, NEW p \in Procs, Start(p) \/ Advance(p) \/ Trouble(p), ~ ImportUpsert(p),
           NEW s \in Runs, NEW k \in Keys
    PROVE  /\ items'[s][k].action = items[s][k].action
           /\ items'[s][k].payload = items[s][k].payload
BY ItemAfter

(* A step inside an import, whatever it does to the row in hand. *)
LEMMA ImportStepDoes ==
    ASSUME TypeOK, NEW p \in Procs,
           \/ ImportOpen(p) \/ ImportSkip(p) \/ ImportBegin(p) \/ PostAnswered(p) \/ PostLost(p)
           \/ PostRefused(p) \/ ImportUpsert(p)
    PROVE  /\ SameCommand(p) /\ status' = status /\ (~ proc'[p].bad => ~ proc[p].bad)
           /\ proc[p].pc \in {"import_open", "import_next", "post", "upsert"}
           /\ proc'[p].pc \in {"import_next", "post", "upsert"}
<1>1. CASE ImportOpen(p) \/ ImportSkip(p)
  BY <1>1, ImportOpenDoes, ImportSkipDoes DEF At
<1>2. CASE ImportBegin(p) \/ ImportUpsert(p)
  BY <1>2, ImportBeginDoes, ImportUpsertDoes DEF At
<1>3. CASE PostAnswered(p) \/ PostLost(p)
  BY <1>3, PostAnsweredDoes, PostLostDoes DEF At, Attempted
<1>4. CASE PostRefused(p)
  BY <1>4, PostRefusedDoes DEF At
<1> QED
  BY <1>1, <1>2, <1>3, <1>4

(* A command keeps its name and its run until it ends. *)
Stops(p) == Finalize(p) \/ Report(p) \/ Abort(p) \/ Crash(p) \/ RollbackEnd(p)

LEMMA SameJob ==
    ASSUME TypeOK, NEW p \in Procs, Advance(p) \/ Trouble(p), ~ Stops(p)
    PROVE  proc'[p].cmd = proc[p].cmd /\ proc'[p].run = proc[p].run
<1> USE DEF SameCommand
<1>1. CASE \/ ImportOpen(p) \/ ImportSkip(p) \/ ImportBegin(p) \/ ImportUpsert(p) \/ ImportEnd(p)
           \/ PostAnswered(p) \/ PostLost(p) \/ PostRefused(p)
  BY <1>1, ImportStepDoes, ImportEndDoes
<1>2. CASE \/ CountLegacy(p) \/ CheckOpen(p) \/ CheckRow(p) \/ CheckRowLost(p)
           \/ CheckItem(p) \/ CheckMark(p)
           \/ CheckEnd(p)
  BY <1>2, CountLegacyDoes, CheckOpenDoes, CheckRowDoes, CheckRowLostDoes, CheckItemDoes,
     CheckMarkDoes,
     CheckEndDoes
<1>3. CASE RefsOpen(p) \/ RefsGet(p) \/ RefsGetLost(p) \/ RefsEnd(p)
  BY <1>3, RefsOpenDoes, RefsGetDoes, RefsGetLostDoes, RefsEndDoes
<1>4. CASE \/ RollbackOpen(p) \/ RollbackRead(p) \/ RollbackReadLost(p) \/ RollbackMark(p)
           \/ SalesDone(p)
  BY <1>4, RollbackOpenDoes, RollbackReadDoes, RollbackReadLostDoes, RollbackMarkDoes,
     SalesDoneDoes
<1>5. CASE DeleteAnswered(p) \/ DeleteLost(p) \/ RollbackConfirm(p) \/ RemovalFailed(p)
  BY <1>5, DeleteAnsweredDoes, DeleteLostDoes, RollbackConfirmDoes, RemovalFailedDoes
<1> QED
  BY <1>1, <1>2, <1>3, <1>4, <1>5
     DEF Stops, Advance, Trouble, SnapshotStep, SnapshotTrouble, RollbackStep, RollbackTrouble

(* A row is in hand after a row was taken from the cursor, or an attempt to send it. *)
LEMMA WhoSends ==
    ASSUME TypeOK, NEW p \in Procs, Start(p) \/ Advance(p) \/ Trouble(p),
           proc'[p].pc \in {"post", "upsert"}
    PROVE  ImportBegin(p) \/ PostAnswered(p) \/ PostLost(p) \/ PostRefused(p)
<1>1. ~ Start(p)
  BY StartDoes, BeginDoes
<1>2. ~ (ImportOpen(p) \/ ImportSkip(p) \/ ImportUpsert(p) \/ ImportEnd(p))
  BY ImportOpenDoes, ImportSkipDoes, ImportUpsertDoes, ImportEndDoes
<1>3. ~ (\/ CountLegacy(p) \/ CheckOpen(p) \/ CheckRow(p) \/ CheckRowLost(p)
         \/ CheckItem(p) \/ CheckMark(p)
         \/ CheckEnd(p) \/ RefsOpen(p) \/ RefsGet(p) \/ RefsGetLost(p) \/ RefsEnd(p))
  BY CountLegacyDoes, CheckOpenDoes, CheckRowDoes, CheckRowLostDoes, CheckItemDoes,
     CheckMarkDoes, CheckEndDoes,
     RefsOpenDoes, RefsGetDoes, RefsGetLostDoes, RefsEndDoes
<1>4. ~ Stops(p)
  BY EndDoes DEF Stops, IdleProcess
<1>5. ~ (\/ RollbackOpen(p) \/ RollbackRead(p) \/ RollbackReadLost(p) \/ RollbackMark(p)
         \/ SalesDone(p) \/ DeleteAnswered(p) \/ DeleteLost(p) \/ RollbackConfirm(p)
         \/ RemovalFailed(p))
  BY RollbackOpenDoes, RollbackReadDoes, RollbackReadLostDoes, RollbackMarkDoes, SalesDoneDoes,
     DeleteAnsweredDoes, DeleteLostDoes, RollbackConfirmDoes, RemovalFailedDoes
<1> QED
  BY <1>1, <1>2, <1>3, <1>4, <1>5
     DEF Stops, Advance, Trouble, SnapshotStep, SnapshotTrouble, RollbackStep, RollbackTrouble

(***************************************************************************)
(* Control: the stages of each command.                                    *)
(***************************************************************************)
Verifying == {"count", "check_open", "check_next", "check_item", "check_mark", "refs_open", "refs_next"}
StagesOf(cmd) ==
    CASE cmd = "idle" -> {"idle"}
      [] cmd = "snapshot" -> {"import_open", "import_next", "post", "upsert", "complete", "fail"}
                             \union Verifying
      [] cmd = "validate" -> {"report"} \union Verifying
      [] cmd = "rollback" -> {"rb_open", "rb_next", "delete", "confirm", "rb_mark"}
      [] cmd = "dry" -> {"rb_open", "rb_next", "rb_mark"}

InCommand(p) == proc[p].pc \in StagesOf(proc[p].cmd)
Control == \A p \in Procs : InCommand(p)

(* The stage tells the command. *)
LEMMA CommandOf ==
    ASSUME TypeOK, NEW p \in Procs, InCommand(p)
    PROVE  LET cmd == proc[p].cmd pc == proc[p].pc IN
           /\ cmd = "idle" <=> pc = "idle"
           /\ pc \in {"import_open", "import_next", "post", "upsert", "complete", "fail"} =>
                  cmd = "snapshot"
           /\ pc \in Verifying => cmd \in {"snapshot", "validate"}
           /\ pc = "report" => cmd = "validate"
           /\ pc \in {"rb_open", "rb_next", "rb_mark"} => cmd \in {"rollback", "dry"}
           /\ pc \in {"delete", "confirm"} => cmd = "rollback"
<1>1. proc[p].cmd \in {"idle", "snapshot", "validate", "rollback", "dry"}
  BY Typed DEF Process
<1> QED
  BY <1>1 DEF InCommand, StagesOf, Verifying

LEMMA ControlOwn ==
    ASSUME TypeOK, NEW p \in Procs, InCommand(p), Start(p) \/ Advance(p) \/ Trouble(p)
    PROVE  InCommand(p)'
<1> DEFINE cmd == proc[p].cmd
           pc == proc[p].pc
<1>1. CASE Start(p)
  <2>1. PICK c, r, ent, stage :
          /\ Begin(p, c, r, ent, stage)
          /\ \/ c = "snapshot" /\ stage = "import_open"
             \/ c = "validate" /\ stage = "count"
             \/ c \in {"rollback", "dry"} /\ stage = "rb_open"
    BY <1>1, StartDoes
  <2>2. proc'[p].cmd = c /\ proc'[p].pc = stage
    BY <2>1, BeginDoes
  <2> QED
    BY <2>1, <2>2 DEF InCommand, StagesOf, Verifying
<1>2. CASE \/ ImportOpen(p) \/ ImportSkip(p) \/ ImportBegin(p) \/ PostAnswered(p) \/ PostLost(p)
           \/ PostRefused(p) \/ ImportUpsert(p) \/ ImportEnd(p)
  <2>1. /\ pc \in {"import_open", "import_next", "post", "upsert"} /\ proc'[p].cmd = cmd
        /\ proc'[p].pc \in {"import_next", "post", "upsert", "fail", "count"}
    BY <1>2, ImportStepDoes, ImportEndDoes DEF At, SameCommand
  <2> QED
    BY <2>1, CommandOf DEF InCommand, StagesOf, Verifying
<1>3. CASE \/ CountLegacy(p) \/ CheckOpen(p) \/ CheckRow(p) \/ CheckRowLost(p)
           \/ CheckItem(p) \/ CheckMark(p)
           \/ CheckEnd(p)
  <2>1. /\ pc \in Verifying /\ proc'[p].cmd = cmd
        /\ \/ proc'[p].pc \in Verifying
           \/ cmd = "snapshot" /\ proc'[p].pc \in {"fail", "import_open"}
    BY <1>3, CountLegacyDoes, CheckOpenDoes, CheckRowDoes, CheckRowLostDoes, CheckItemDoes,
       CheckMarkDoes,
       CheckEndDoes DEF At, SameCommand, Verifying, Imports
  <2> QED
    BY <2>1, CommandOf DEF InCommand, StagesOf
<1>4. CASE RefsOpen(p) \/ RefsGet(p) \/ RefsGetLost(p) \/ RefsEnd(p)
  <2>1. /\ pc \in Verifying /\ proc'[p].cmd = cmd
        /\ \/ proc'[p].pc \in Verifying
           \/ cmd = "snapshot" /\ proc'[p].pc \in {"fail", "complete"}
           \/ cmd # "snapshot" /\ proc'[p].pc = "report"
    BY <1>4, RefsOpenDoes, RefsGetDoes, RefsGetLostDoes, RefsEndDoes
       DEF At, SameCommand, Verifying, Imports
  <2> QED
    BY <2>1, CommandOf DEF InCommand, StagesOf
<1>5. CASE Finalize(p) \/ Report(p) \/ Abort(p) \/ Crash(p) \/ RollbackEnd(p)
  BY <1>5, EndDoes DEF IdleProcess, InCommand, StagesOf
<1>6. CASE \/ RollbackOpen(p) \/ RollbackRead(p) \/ RollbackReadLost(p) \/ RollbackMark(p)
           \/ SalesDone(p)
  <2>1. /\ pc \in {"rb_open", "rb_next", "rb_mark"} /\ proc'[p].cmd = cmd
        /\ \/ proc'[p].pc \in {"rb_open", "rb_next", "rb_mark"}
           \/ cmd # "dry" /\ proc'[p].pc = "delete"
    BY <1>6, RollbackOpenDoes, RollbackReadDoes, RollbackReadLostDoes, RollbackMarkDoes,
       SalesDoneDoes DEF At, SameCommand, Dry
  <2> QED
    BY <2>1, CommandOf DEF InCommand, StagesOf
<1>7. CASE DeleteAnswered(p) \/ DeleteLost(p) \/ RollbackConfirm(p) \/ RemovalFailed(p)
  <2>1. /\ pc \in {"delete", "confirm"} /\ proc'[p].cmd = cmd
        /\ proc'[p].pc \in {"delete", "confirm", "rb_mark"}
    BY <1>7, DeleteAnsweredDoes, DeleteLostDoes, RollbackConfirmDoes, RemovalFailedDoes
       DEF At, SameCommand
  <2> QED
    BY <2>1, CommandOf DEF InCommand, StagesOf
<1> QED
  BY <1>1, <1>2, <1>3, <1>4, <1>5, <1>6, <1>7
     DEF Advance, Trouble, SnapshotStep, SnapshotTrouble, RollbackStep, RollbackTrouble

(* The status of a run changes in the hands of its own snapshot or rollback. *)
LEMMA StatusAfter ==
    ASSUME TypeOK, NEW p \in Procs, InCommand(p), Advance(p) \/ Trouble(p), NEW s \in Runs
    PROVE  \/ status'[s] = status[s]
           \/ /\ s = proc[p].run /\ proc[p].cmd = "snapshot"
              /\ status'[s] \notin ResumeBlocked \union {"none"} \/ Stops(p)
           \/ /\ s = proc[p].run /\ proc[p].cmd = "rollback" /\ RollbackEnd(p)
              /\ status'[s] \in {"ROLLED_BACK", "ROLLBACK_FAILED"}
<1> DEFINE Changes(new) == status' = [status EXCEPT ![proc[p].run] = new]
<1>1. ASSUME NEW new, Changes(new)
      PROVE  status'[s] = status[s] \/ (s = proc[p].run /\ status'[s] = new)
  BY <1>1, Typed
<1>2. ~ Start(p)
  <2>1. ~ At(p, "idle")
    BY CommandOf DEF At, Advance, Trouble, SnapshotStep, SnapshotTrouble, RollbackStep,
       RollbackTrouble, Crash, ImportOpen, ImportSkip, ImportBegin, PostAnswered, ImportUpsert,
       ImportEnd, CountLegacy, CheckOpen, CheckRow, CheckItem, CheckMark, CheckEnd, RefsOpen,
       RefsGet,
       RefsEnd, Finalize, Report, PostLost, PostRefused, CheckRowLost, RefsGetLost, Abort,
       Imports, RollbackOpen, RollbackRead, DeleteAnswered, RollbackConfirm, RollbackMark,
       SalesDone, RollbackEnd, RollbackReadLost, DeleteLost, RemovalFailed
  <2> QED
    BY <2>1, StartDoes, BeginDoes
<1>3. CASE ImportEnd(p)
  <2>1. proc[p].cmd = "snapshot"
        /\ (Changes("USERS_MIGRATED") \/ Changes("SALES_MIGRATED"))
    BY <1>3, ImportEndDoes, CommandOf DEF At
  <2> QED
    BY <1>1, <2>1 DEF ResumeBlocked
<1>4. CASE CheckEnd(p) \/ RefsEnd(p)
  <2>1. \/ status' = status
        \/ /\ proc[p].cmd = "snapshot"
           /\ \/ Changes("USERS_VALIDATED") \/ Changes("SALES_VALIDATED") \/ Changes("FAILED")
              \/ Changes("VALIDATED")
    BY <1>4, CheckEndDoes, RefsEndDoes DEF Imports
  <2> QED
    BY <1>1, <2>1 DEF ResumeBlocked
<1>5. CASE Finalize(p) \/ Abort(p)
  <2>1. proc[p].cmd = "snapshot" /\ \E new : Changes(new)
    BY <1>5, FinalizeDoes, AbortDoes, CommandOf DEF Imports
  <2> QED
    BY <1>1, <1>5, <2>1 DEF Stops
<1>6. CASE RollbackEnd(p)
  <2>1. \/ status' = status
        \/ /\ proc[p].cmd = "rollback"
           /\ Changes("ROLLED_BACK") \/ Changes("ROLLBACK_FAILED")
    BY <1>6, RollbackEndDoes, CommandOf DEF Dry, At
  <2> QED
    BY <1>1, <1>6, <2>1
<1> QED
  BY <1>2, <1>3, <1>4, <1>5, <1>6, WhoWrites

LEMMA ControlStep == ASSUME TypeOK, Control, [Next]_vars PROVE Control'
<1>1. ASSUME NEW p \in Procs, proc'[p] = proc[p] PROVE InCommand(p)'
  BY <1>1 DEF Control, InCommand
<1>2. CASE \E q \in Procs : Start(q) \/ Advance(q) \/ Trouble(q)
  BY <1>1, <1>2, OthersKeep, ControlOwn DEF Control
<1>3. CASE Elsewhere
  BY <1>1, <1>3, ElsewhereKeeps DEF Control
<1>4. CASE UNCHANGED vars
  BY <1>1, <1>4 DEF Control, vars
<1> QED
  BY <1>2, <1>3, <1>4 DEF Next

LEMMA ControlAlways == Spec => [](TypeOK /\ Control)
<1>1. Init => TypeOK /\ Control
  BY TypeInit DEF Init, Control, InCommand, IdleProcess, StagesOf
<1>2. TypeOK /\ Control /\ [Next]_vars => (TypeOK /\ Control)'
  BY TypeStep, ControlStep
<1> QED
  BY <1>1, <1>2, PTL DEF Spec

(* A dry run and validate change no row and no run, a dry run no item, whatever
   other processes do meanwhile: for any rows, runs, processes and bounds. *)
THEOREM ReadOnlyCommandsHold == Spec => ReadOnlyCommands
<1> DEFINE Only(p) ==
             /\ <<legacy, svc, wire, status>>' = <<legacy, svc, wire, status>>
             /\ proc[p].cmd = "dry" => items' = items
<1>1. ASSUME TypeOK, Control, [Next]_vars, NEW p \in Procs,
             proc[p].cmd \in {"dry", "validate"}, proc'[p] # proc[p]
      PROVE  Only(p)
  <2>1. InCommand(p)
    BY <1>1 DEF Control
  <2>2. /\ proc[p].pc \notin {"idle", "import_open", "import_next", "post", "upsert",
                             "complete", "fail", "delete", "confirm"}
        /\ ~ Imports(p) /\ (Dry(p) => proc[p].pc \notin Verifying)
        /\ proc[p].pc \in {"rb_open", "rb_next", "rb_mark"} => Dry(p)
    BY <1>1, <2>1, CommandOf DEF Imports, Dry
  <2>3. Start(p) \/ Advance(p) \/ Trouble(p)
    BY <1>1, OthersKeep, ElsewhereKeeps DEF Next, vars
  <2>4. ~ Start(p)
    BY <1>1, <2>2, StartDoes, BeginDoes DEF At
  <2>5. CASE \/ CountLegacy(p) \/ CheckOpen(p) \/ CheckRow(p) \/ CheckRowLost(p)
             \/ CheckItem(p) \/ CheckEnd(p) \/ RefsOpen(p) \/ RefsGet(p) \/ RefsGetLost(p) \/ RefsEnd(p)
    BY <1>1, <2>2, <2>5, CountLegacyDoes, CheckOpenDoes, CheckRowDoes, CheckRowLostDoes,
       CheckItemDoes, CheckEndDoes, RefsOpenDoes, RefsGetDoes, RefsGetLostDoes, RefsEndDoes
       DEF Silent, SameRows
  <2>6. CASE CheckMark(p)
    BY <1>1, <2>2, <2>6, CheckMarkDoes DEF Silent, SameRows, At, Verifying, Dry
  <2>7. CASE Finalize(p) \/ Report(p) \/ Abort(p) \/ Crash(p) \/ RollbackEnd(p)
    BY <1>1, <2>2, <2>7, EndDoes, FinalizeDoes, AbortDoes, RollbackEndDoes, StopsQuietly
       DEF Silent, SameRows, At
  <2>8. CASE \/ RollbackOpen(p) \/ RollbackRead(p) \/ RollbackReadLost(p) \/ RollbackMark(p)
             \/ SalesDone(p)
    BY <1>1, <2>2, <2>8, RollbackOpenDoes, RollbackReadDoes, RollbackReadLostDoes,
       RollbackMarkDoes, SalesDoneDoes DEF Silent, SameRows, At
  <2>9. ~ \/ ImportOpen(p) \/ ImportSkip(p) \/ ImportBegin(p) \/ ImportUpsert(p) \/ ImportEnd(p)
          \/ PostAnswered(p) \/ PostLost(p) \/ PostRefused(p)
          \/ DeleteAnswered(p) \/ DeleteLost(p) \/ RollbackConfirm(p) \/ RemovalFailed(p)
    BY <2>2 DEF ImportOpen, ImportSkip, ImportBegin, ImportUpsert, ImportEnd, PostAnswered,
                PostLost, PostRefused, DeleteAnswered, DeleteLost, RollbackConfirm,
                RemovalFailed, At
  <2> QED
    BY <2>3, <2>4, <2>5, <2>6, <2>7, <2>8, <2>9
       DEF Advance, Trouble, SnapshotStep, SnapshotTrouble, RollbackStep, RollbackTrouble
<1>2. TypeOK /\ Control /\ [Next]_vars =>
        [\A p \in Procs : proc[p].cmd \in {"dry", "validate"} /\ proc'[p] # proc[p] =>
             Only(p)]_vars
  BY <1>1
<1> QED
  BY <1>2, ControlAlways, PTL DEF Spec, ReadOnlyCommands
=============================================================================
