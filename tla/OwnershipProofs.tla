-------------------------- MODULE OwnershipProofs --------------------------
(***************************************************************************)
(* Rows that were in the services before the first command survive every   *)
(* command, and no run ever claims one: NothingClaimed is inductive, with  *)
(* TypeOK, and implies both.                                               *)
(***************************************************************************)
EXTENDS MigrationToolProofs

(* NothingClaimed, while no other client has written in the services. *)
Surviving == \A k \in Keys : pre[k] # Absent => svc[k] = pre[k]
Owned == \A r \in Runs, k \in Keys : items[r][k].action = "created" => pre[k] = Absent
Harmless(q) == q.op = "delete" => pre[q.key] = Absent
Unclaimed ==
    /\ Surviving /\ Owned
    /\ \A q \in wire : Harmless(q)
    /\ \A p \in Procs : HoldsNewOnly(p)

LEMMA UnclaimedLemma == NothingClaimed <=> (drift = 0 => Unclaimed)
BY DEF NothingClaimed, Unclaimed, PreexistingSurvive, CreatedIsNew, Surviving, Owned, Harmless

(* A POST never changes a row that is there; a harmless DELETE removes none
   that was there before. *)
LEMMA RunSurvives ==
    ASSUME TypeOK, Surviving, NEW q \in Request, Harmless(q), Run(q), pre' = pre
    PROVE  Surviving'
<1>1. svc \in Tables /\ q.key \in Keys /\ svc' = [svc EXCEPT ![q.key] =
                            IF q.op = "post" THEN Stored(svc[q.key], q.val) ELSE Absent]
  BY DEF TypeOK, Run, Request
<1>2. ASSUME NEW k \in Keys, pre[k] # Absent PROVE svc'[k] = pre[k]
  <2>1. CASE k # q.key
    BY <1>1, <1>2, <2>1 DEF Surviving
  <2>2. CASE k = q.key
    <3>1. q.op = "post" /\ svc[k] # Absent /\ svc[k] = pre[k]
      BY <1>2, <2>2 DEF Surviving, Harmless, Request
    <3>2. Stored(svc[k], q.val) = svc[k]
      BY <3>1 DEF Stored, Reply
    <3> QED
      BY <1>1, <2>2, <3>1, <3>2
  <2> QED
    BY <2>1, <2>2
<1> QED
  BY <1>2 DEF Surviving

LEMMA HoldsKept ==
    ASSUME NEW q \in Procs, HoldsNewOnly(q), proc'[q] = proc[q], pre' = pre
    PROVE  HoldsNewOnly(q)'
BY DEF HoldsNewOnly, At, Pending

(* The part of the proof every step of a process shares. *)
LEMMA UnclaimedStep ==
    ASSUME TypeOK, Unclaimed, NEW p \in Procs, NEW r, proc' = [proc EXCEPT ![p] = r],
           Surviving', Owned', \A q \in wire' : Harmless(q)', pre' = pre,
           proc'[p] = r => HoldsNewOnly(p)'
    PROVE  Unclaimed'
<1>1. proc'[p] = r /\ \A q \in Procs : q # p => proc'[q] = proc[q]
  BY DEF TypeOK
<1>2. \A q \in Procs : HoldsNewOnly(q)'
  BY <1>1, HoldsKept DEF Unclaimed
<1> QED
  BY <1>2 DEF Unclaimed

(* A step that leaves rows, items and requests alone. *)
LEMMA UnclaimedLocal ==
    ASSUME TypeOK, Unclaimed, NEW p \in Procs, NEW r, Step(p, r),
           UNCHANGED <<svc, items, wire, pre>>, proc'[p] = r => HoldsNewOnly(p)'
    PROVE  Unclaimed'
<1>1. Surviving' /\ Owned' /\ \A q \in wire' : Harmless(q)'
  BY DEF Unclaimed, Surviving, Owned, Harmless
<1> QED
  BY <1>1, UnclaimedStep DEF Step

(* The stages at which a process holds a row it may record or delete. *)
Holding == {"upsert", "rb_next", "delete", "confirm", "rb_mark"}

LEMMA EmptyHanded ==
    ASSUME NEW p \in Procs, proc'[p].pc \notin Holding
    PROVE  HoldsNewOnly(p)'
BY DEF HoldsNewOnly, Holding, At

LEMMA UnclaimedSnapshot ==
    ASSUME TypeOK, Unclaimed, NEW p \in Procs,
           \/ ImportOpen(p) \/ ImportSkip(p) \/ ImportBegin(p) \/ ImportEnd(p)
           \/ CountLegacy(p) \/ CheckOpen(p) \/ CheckRow(p) \/ CheckRowLost(p)
           \/ CheckItem(p) \/ CheckEnd(p) \/ RefsOpen(p) \/ RefsGet(p) \/ RefsGetLost(p) \/ RefsEnd(p)
    PROVE  Unclaimed'
<1>1. UNCHANGED <<svc, items, wire, pre>>
  BY DEF ImportOpen, ImportSkip, ImportBegin, ImportEnd, CountLegacy, CheckOpen, CheckRow,
         CheckRowLost, CheckItem, CheckEnd, RefsOpen, RefsGet, RefsGetLost, RefsEnd,
         world, store, history
<1>2. proc[p] \in Process /\ proc \in [Procs -> Process]
  BY DEF TypeOK
<1>3. PICK r : Step(p, r)
  BY DEF ImportOpen, ImportSkip, ImportBegin, ImportEnd, CountLegacy, CheckOpen, CheckRow,
         CheckRowLost, CheckItem, CheckEnd, RefsOpen, RefsGet, RefsGetLost, RefsEnd, Goto
<1>4. proc'[p].pc \notin Holding
  <2>1. CASE ImportOpen(p)
    BY <2>1, <1>2 DEF ImportOpen, Step, At, Holding, Process
  <2>2. CASE ImportSkip(p)
    BY <2>2, <1>2 DEF ImportSkip, Step, At, Holding, Process
  <2>3. CASE ImportBegin(p)
    <3>1. proc'[p].pc = "post"
      BY <2>3, <1>2 DEF ImportBegin, Step, Process
    <3> QED
      BY <3>1 DEF Holding
  <2>4. CASE ImportEnd(p)
    BY <2>4, <1>2 DEF ImportEnd, Goto, Step, At, Holding, Process
  <2>5. CASE CountLegacy(p)
    <3>1. proc'[p].pc = "check_open"
      BY <2>5, <1>2 DEF CountLegacy, Step, Process
    <3> QED
      BY <3>1 DEF Holding
  <2>6. CASE CheckOpen(p)
    BY <2>6, <1>2 DEF CheckOpen, Step, At, Holding, Process
  <2>7. CASE CheckRow(p)
    <3>1. PICK k \in Keys :
            Step(p, [proc[p] EXCEPT
                       !.found = IF svc[k] = Absent THEN @ ELSE @ + 1,
                       !.bad = @ \/ ~ Agrees(svc[k], proc[p].cursor[k]),
                       !.cur = IF Agrees(svc[k], proc[p].cursor[k]) THEN k ELSE NoKey,
                       !.cursor = Drop(p, k),
                       !.pc = IF Agrees(svc[k], proc[p].cursor[k]) THEN "check_item"
                              ELSE "check_next"])
      BY <2>7 DEF CheckRow
    <3>2. proc'[p].pc \in {"check_item", "check_next"}
      BY <3>1, <1>2 DEF Step, Process
    <3> QED
      BY <3>2 DEF Holding
  <2>8. CASE CheckRowLost(p)
    BY <2>8, <1>2 DEF CheckRowLost, Step, At, Holding, Process
  <2>9. CASE CheckEnd(p)
    <3>1. proc'[p].pc \in {"fail", "refs_open", "import_open", "count"}
      BY <2>9, <1>2 DEF CheckEnd, Step, Process
    <3> QED
      BY <3>1 DEF Holding
  <2>10. CASE RefsOpen(p)
    BY <2>10, <1>2 DEF RefsOpen, Step, At, Holding, Process
  <2>11. CASE RefsGet(p)
    BY <2>11, <1>2 DEF RefsGet, Step, At, Holding, Process
  <2>12. CASE RefsGetLost(p)
    BY <2>12, <1>2 DEF RefsGetLost, Step, At, Holding, Process
  <2>13. CASE RefsEnd(p)
    <3>1. PICK b \in BOOLEAN, pc \in {"report", "fail", "complete"} :
            Step(p, [proc[p] EXCEPT !.bad = b, !.missing = {}, !.pc = pc])
      BY <2>13 DEF RefsEnd
    <3>2. proc'[p].pc \in {"report", "fail", "complete"}
      BY <3>1, <1>2 DEF Step, Process
    <3> QED
      BY <3>2 DEF Holding
  <2>14. CASE CheckItem(p)
    <3>1. proc'[p].pc \in {"check_mark", "check_next"}
      BY <2>14, <1>2 DEF CheckItem, Step, Process
    <3> QED
      BY <3>1 DEF Holding
  <2> QED
    BY <2>1, <2>2, <2>3, <2>4, <2>5, <2>6, <2>7, <2>8, <2>9, <2>10, <2>11, <2>12, <2>13,
       <2>14
<1> QED
  BY <1>1, <1>3, <1>4, EmptyHanded, UnclaimedLocal

LEMMA UnclaimedExit ==
    ASSUME TypeOK, Unclaimed, NEW p \in Procs,
           \/ Finalize(p) \/ Report(p) \/ Abort(p) \/ Crash(p) \/ RollbackEnd(p)
    PROVE  Unclaimed'
<1>1. UNCHANGED <<svc, items, wire, pre>> /\ Step(p, IdleProcess)
  BY DEF Finalize, Report, Abort, Crash, RollbackEnd, Exit, world, store, history
<1>2. proc'[p] = IdleProcess => HoldsNewOnly(p)'
  BY EmptyHanded DEF IdleProcess, Holding
<1> QED
  BY <1>1, <1>2, UnclaimedLocal

LEMMA UnclaimedStart ==
    ASSUME TypeOK, Unclaimed, NEW p \in Procs, Start(p)
    PROVE  Unclaimed'
<1>1. UNCHANGED <<svc, items, wire, pre>>
  BY DEF Start, SnapshotStart, RollbackStart, StartSnapshot, StartResume, StartValidate,
         StartRollback, world, store
<1>2. ASSUME NEW cmd, NEW r, NEW ent, NEW stage, stage \notin Holding,
             Begin(p, cmd, r, ent, stage)
      PROVE  Unclaimed'
  <2> DEFINE me == [IdleProcess EXCEPT !.cmd = cmd, !.run = r, !.ent = ent, !.pc = stage]
  <2>1. Step(p, me)
    BY <1>2 DEF Begin
  <2>2. me.pc = stage
    BY DEF IdleProcess
  <2> HIDE DEF me
  <2> QED
    BY <1>1, <1>2, <2>1, <2>2, EmptyHanded, UnclaimedLocal
<1>3. "import_open" \notin Holding /\ "count" \notin Holding /\ "rb_open" \notin Holding
  BY DEF Holding
<1> QED
  BY <1>2, <1>3 DEF Start, SnapshotStart, RollbackStart, StartSnapshot, StartResume,
                    StartValidate, StartRollback

(* An attempt to send a harmless request, answered or not. *)
LEMMA CallSurvives ==
    ASSUME TypeOK, Unclaimed, NEW p \in Procs, NEW q \in Request, Harmless(q),
           Answer(p, q) \/ Lose(p, q), pre' = pre
    PROVE  Surviving' /\ \A s \in wire' : Harmless(s)'
<1>1. CASE Run(q) /\ wire' = wire
  BY <1>1, RunSurvives DEF Unclaimed, Harmless
<1>2. CASE svc' = svc /\ wire' \subseteq wire \union {q}
  BY <1>2 DEF Unclaimed, Surviving, Harmless
<1> QED
  BY <1>1, <1>2 DEF Answer, Lose

LEMMA UnclaimedCall ==
    ASSUME TypeOK, Unclaimed, NEW p \in Procs, NEW q \in Request, Harmless(q),
           Answer(p, q) \/ Lose(p, q), NEW r, Step(p, r),
           UNCHANGED <<items, pre>>, proc'[p] = r => HoldsNewOnly(p)'
    PROVE  Unclaimed'
<1>1. Surviving' /\ \A s \in wire' : Harmless(s)'
  BY CallSurvives
<1>2. Owned'
  BY DEF Unclaimed, Owned
<1> QED
  BY <1>1, <1>2, UnclaimedStep DEF Step

LEMMA UnclaimedPost ==
    ASSUME TypeOK, Unclaimed, NEW p \in Procs,
           PostAnswered(p) \/ PostLost(p) \/ PostRefused(p)
    PROVE  Unclaimed'
<1> DEFINE me == proc[p]
           q == PostRequest(p)
           failed == [me EXCEPT !.ans = "failed", !.tries = 0, !.pc = "upsert"]
<1>1. /\ me \in Process /\ me.pc = "post" /\ StageOK(p)
      /\ items' = items /\ pre' = pre
  BY DEF TypeOK, PostAnswered, PostLost, PostRefused, At, store, history
<1>2. me.run \in Runs /\ me.cur \in Keys /\ me.cursor[me.cur] \in Values
  BY <1>1 DEF StageOK
<1>3. q \in Request /\ Harmless(q)
  <2>1. q.op = "post"
    BY DEF PostRequest
  <2>2. q \in Request
    BY <1>2 DEF PostRequest, Request, Contents
  <2> QED
    BY <2>1, <2>2 DEF Harmless
<1>4. proc'[p] = failed => HoldsNewOnly(p)'
  BY <1>1 DEF HoldsNewOnly, At, Process
<1>5. CASE PostAnswered(p)
  <2> DEFINE a == Reply(svc[me.cur], q.val)
             r == [me EXCEPT !.ans = a, !.tries = 0, !.pc = "upsert"]
  <2>1. a = "created" => pre[me.cur] = Absent
    BY <1>2 DEF Reply, Unclaimed, Surviving
  <2>2. Step(p, r) /\ Answer(p, q)
    BY <1>5 DEF PostAnswered
  <2> HIDE DEF a
  <2>3. proc'[p] = r => HoldsNewOnly(p)'
    BY <1>1, <2>1 DEF HoldsNewOnly, At, Process
  <2> HIDE DEF r
  <2> QED
    BY <1>1, <1>3, <2>2, <2>3, UnclaimedCall
<1>6. CASE PostLost(p)
  <2>1. CASE Exhausted(p)
    BY <2>1, <1>1, <1>3, <1>4, <1>6, UnclaimedCall DEF PostLost
  <2>2. CASE ~ Exhausted(p)
    <3> DEFINE r == [me EXCEPT !.tries = me.tries + 1]
    <3>1. proc'[p] = r => HoldsNewOnly(p)'
      BY <1>1 DEF HoldsNewOnly, At, Process
    <3> QED
      BY <2>2, <3>1, <1>1, <1>3, <1>6, UnclaimedCall DEF PostLost
  <2> QED
    BY <2>1, <2>2
<1>7. CASE PostRefused(p)
  BY <1>4, <1>7, UnclaimedLocal DEF PostRefused, world, store, history
<1> QED
  BY <1>5, <1>6, <1>7

LEMMA UnclaimedUpsert ==
    ASSUME TypeOK, Unclaimed, NEW p \in Procs, ImportUpsert(p)
    PROVE  Unclaimed'
<1> DEFINE me == proc[p]
           new == UpsertedItem(me.ans, me.cursor[me.cur])
<1>1. me \in Process /\ StageOK(p) /\ me.pc = "upsert"
  BY DEF TypeOK, ImportUpsert, At
<1>2. me.run \in Runs /\ me.cur \in Keys
  BY <1>1 DEF StageOK
<1>3. new.action = "created" => pre[me.cur] = Absent
  BY <1>1 DEF UpsertedItem, Unclaimed, HoldsNewOnly, At
<1>4. items' = [items EXCEPT ![me.run][me.cur] = new] /\ UNCHANGED <<svc, wire, pre>>
  BY DEF ImportUpsert, world, history
<1>5. Owned'
  <2> HIDE DEF new, me
  <2> QED
    BY <1>2, <1>3, <1>4 DEF Unclaimed, Owned, TypeOK
<1>6. Surviving' /\ \A q \in wire' : Harmless(q)'
  BY <1>4 DEF Unclaimed, Surviving, Harmless
<1>7. PICK r : Step(p, r)
  BY DEF ImportUpsert
<1>8. proc'[p].pc = "import_next"
  BY <1>1 DEF ImportUpsert, Step, TypeOK, Process
<1>9. HoldsNewOnly(p)'
  BY <1>8, EmptyHanded DEF Holding
<1> QED
  BY <1>4, <1>5, <1>6, <1>7, <1>9, UnclaimedStep DEF Step

(* Recording a status leaves the actions of all items as they are. *)
LEMMA StatusOnly ==
    ASSUME TypeOK, Owned, pre' = pre, NEW r \in Runs, NEW k \in Keys, NEW v,
           items' = [items EXCEPT ![r][k].status = v]
    PROVE  Owned'
<1>1. items[r][k] \in Item
  BY DEF TypeOK
<1>2. [items[r][k] EXCEPT !.status = v].action = items[r][k].action
  BY <1>1 DEF Item, NoItem
<1>3. \A s \in Runs, j \in Keys : items'[s][j].action = items[s][j].action
  BY <1>2 DEF TypeOK
<1> QED
  BY <1>3 DEF Owned

LEMMA UnclaimedMark ==
    ASSUME TypeOK, Unclaimed, NEW p \in Procs, CheckMark(p) \/ RollbackMark(p)
    PROVE  Unclaimed'
<1> DEFINE me == proc[p]
<1>1. me \in Process /\ StageOK(p)
  BY DEF TypeOK
<1>2. UNCHANGED <<svc, wire, pre>>
  BY DEF CheckMark, RollbackMark, world, history
<1>3. Surviving' /\ \A q \in wire' : Harmless(q)'
  BY <1>2 DEF Unclaimed, Surviving, Harmless
<1>4. CASE CheckMark(p)
  <2> DEFINE r == [me EXCEPT !.cur = NoKey, !.pc = "check_next"]
  <2>1. me.cur \in Keys /\ me.run \in Runs
    BY <1>1, <1>4 DEF CheckMark, At, StageOK
  <2>2. Owned'
    <3>1. items' = [items EXCEPT ![me.run][me.cur].status = "validated"]
      BY <1>4 DEF CheckMark
    <3> HIDE DEF me
    <3> QED
      BY <2>1, <3>1, <1>2, StatusOnly DEF Unclaimed
  <2>3. Step(p, r)
    BY <1>4 DEF CheckMark
  <2>4. r.pc = "check_next"
    BY <1>1 DEF Process
  <2> HIDE DEF r
  <2>5. proc'[p] = r => HoldsNewOnly(p)'
    BY <2>4, EmptyHanded DEF Holding
  <2> QED
    BY <1>2, <1>3, <2>2, <2>3, <2>5, UnclaimedStep DEF Step
<1>5. CASE RollbackMark(p)
  <2> DEFINE r == [me EXCEPT !.cur = NoKey, !.ans = "none", !.pc = "rb_next"]
  <2>1. me.cur \in Keys /\ me.run \in Runs /\ me.pc = "rb_mark"
    BY <1>1, <1>5 DEF RollbackMark, At, StageOK
  <2>2. Owned'
    <3>1. CASE Marks(p)
      <4>1. items' = [items EXCEPT ![me.run][me.cur].status = me.ans]
        BY <1>5, <3>1 DEF RollbackMark
      <4> HIDE DEF me
      <4> QED
        BY <2>1, <4>1, <1>2, StatusOnly DEF Unclaimed
    <3>2. CASE ~ Marks(p)
      BY <3>2, <1>2, <1>5 DEF RollbackMark, Unclaimed, Owned
    <3> QED
      BY <3>1, <3>2
  <2>3. Step(p, r)
    BY <1>5 DEF RollbackMark
  <2>4. r.pc = "rb_next" /\ r.cursor = me.cursor
    BY <1>1 DEF Process
  <2>5. \A k \in Pending(p) : pre[k] = Absent
    BY <2>1 DEF Unclaimed, HoldsNewOnly
  <2> HIDE DEF r
  <2>6. proc'[p] = r => HoldsNewOnly(p)'
    BY <2>4, <2>5, <1>2 DEF HoldsNewOnly, At, Pending
  <2> QED
    BY <1>2, <1>3, <2>2, <2>3, <2>6, UnclaimedStep DEF Step
<1> QED
  BY <1>4, <1>5

(* A rollback asks for the items with action created, and for no others. *)
LEMMA UnclaimedRollbackOpen ==
    ASSUME TypeOK, Unclaimed, NEW p \in Procs, RollbackOpen(p) \/ SalesDone(p)
    PROVE  Unclaimed'
<1> DEFINE me == proc[p]
<1>1. me \in Process /\ StageOK(p)
  BY DEF TypeOK
<1>2. UNCHANGED <<svc, items, wire, pre>>
  BY DEF RollbackOpen, SalesDone, world, store, history
<1>3. CASE RollbackOpen(p)
  <2> DEFINE c == Select(me.ent, CreatedItems(me.run))
             r == [me EXCEPT !.cursor = c, !.pc = "rb_next"]
  <2>1. me.run \in Runs
    BY <1>1, <1>3 DEF RollbackOpen, At, StageOK
  <2>2. \A k \in Keys : c[k] # Absent => items[me.run][k].action = "created"
    BY DEF Select, CreatedItems
  <2>3. \A k \in Keys : c[k] # Absent => pre[k] = Absent
    BY <2>1, <2>2 DEF Unclaimed, Owned
  <2>4. Step(p, r)
    BY <1>3 DEF RollbackOpen
  <2> HIDE DEF c
  <2>5. r.pc = "rb_next" /\ r.cursor = c
    BY <1>1 DEF Process
  <2> HIDE DEF r
  <2>6. proc'[p] = r => HoldsNewOnly(p)'
    BY <2>3, <2>5, <1>2 DEF HoldsNewOnly, At, Pending
  <2> QED
    BY <1>2, <2>4, <2>6, UnclaimedLocal
<1>4. CASE SalesDone(p)
  <2> DEFINE r == [me EXCEPT !.ent = "user", !.pc = "rb_open"]
  <2>1. Step(p, r) /\ r.pc = "rb_open"
    BY <1>1, <1>4 DEF SalesDone, Process
  <2> HIDE DEF r
  <2>2. proc'[p] = r => HoldsNewOnly(p)'
    BY <2>1, EmptyHanded DEF Holding
  <2> QED
    BY <1>2, <2>1, <2>2, UnclaimedLocal
<1> QED
  BY <1>3, <1>4

(* The row a rollback takes in hand is one its cursor had left. *)
LEMMA UnclaimedRollbackRead ==
    ASSUME TypeOK, Unclaimed, NEW p \in Procs, RollbackRead(p) \/ RollbackReadLost(p)
    PROVE  Unclaimed'
<1> DEFINE me == proc[p]
           new(k, a, b, pc) == [me EXCEPT !.cur = k, !.cursor = Drop(p, k), !.ans = a,
                                          !.bad = b, !.pc = pc]
<1>1. /\ me \in Process /\ me.pc = "rb_next" /\ UNCHANGED <<svc, items, wire, pre>>
  BY DEF TypeOK, RollbackRead, RollbackReadLost, At, world, store, history
<1>2. \A k \in Pending(p) : pre[k] = Absent
  BY <1>1 DEF Unclaimed, HoldsNewOnly
<1>3. ASSUME NEW k \in Keys, IsNext(p, k), NEW a, NEW b, NEW pc \in {"rb_mark", "delete"},
             Step(p, new(k, a, b, pc))
      PROVE  Unclaimed'
  <2> DEFINE d == Drop(p, k)
             r == [me EXCEPT !.cur = k, !.cursor = d, !.ans = a, !.bad = b, !.pc = pc]
  <2>1. pre[k] = Absent
    BY <1>1, <1>2, <1>3, NextLemma
  <2>2. \A j \in Keys : d[j] # Absent => pre[j] = Absent
    BY <1>1, <1>2 DEF Drop, Pending, Process
  <2> HIDE DEF d
  <2>3. r.pc = pc /\ r.cur = k /\ r.cursor = d
    BY <1>1 DEF Process
  <2>4. Step(p, r)
    BY <1>3 DEF d
  <2> HIDE DEF r
  <2>5. proc'[p] = r => HoldsNewOnly(p)'
    BY <2>1, <2>2, <2>3, <1>1, <1>3 DEF HoldsNewOnly, At, Pending
  <2> QED
    BY <1>1, <2>4, <2>5, UnclaimedLocal
<1>4. CASE RollbackRead(p)
  <2>1. PICK k \in Keys :
          /\ IsNext(p, k)
          /\ Step(p, new(k, Decision(p, k), me.bad \/ Decision(p, k) = "rollback_conflict",
                         IF Decision(p, k) # "none" \/ Dry(p) THEN "rb_mark" ELSE "delete"))
    BY <1>4 DEF RollbackRead
  <2> DEFINE a == Decision(p, k)
             b == me.bad \/ a = "rollback_conflict"
             pc == IF a # "none" \/ Dry(p) THEN "rb_mark" ELSE "delete"
  <2>2. pc \in {"rb_mark", "delete"} /\ Step(p, new(k, a, b, pc)) /\ IsNext(p, k)
    BY <2>1
  <2> HIDE DEF a, b, pc, new
  <2> QED
    BY <2>2, <1>3
<1>5. CASE RollbackReadLost(p)
  <2>1. PICK k \in Keys :
          IsNext(p, k) /\ Step(p, new(k, "rollback_failed", TRUE, "rb_mark"))
    BY <1>5 DEF RollbackReadLost
  <2> HIDE DEF new
  <2> QED
    BY <2>1, <1>3
<1> QED
  BY <1>4, <1>5

(* A DELETE names the row in hand, which is one the run was first to insert. *)
LEMMA UnclaimedDelete ==
    ASSUME TypeOK, Unclaimed, NEW p \in Procs,
           DeleteAnswered(p) \/ DeleteLost(p) \/ RollbackConfirm(p) \/ RemovalFailed(p)
    PROVE  Unclaimed'
<1> DEFINE me == proc[p]
           q == DeleteRequest(p)
           failed == [me EXCEPT !.ans = "rollback_failed", !.bad = TRUE, !.tries = 0,
                                !.pc = "rb_mark"]
<1>1. /\ me \in Process /\ StageOK(p) /\ me.pc \in {"delete", "confirm"}
      /\ items' = items /\ pre' = pre
  BY DEF TypeOK, DeleteAnswered, DeleteLost, RollbackConfirm, RemovalFailed, At, store, history
<1>2. me.run \in Runs /\ me.cur \in Keys
  BY <1>1 DEF StageOK
<1>3. \A k \in Pending(p) : pre[k] = Absent
  BY <1>1 DEF Unclaimed, HoldsNewOnly
<1>4. ASSUME NEW r, r.cursor = me.cursor, r.pc \in {"delete", "confirm", "rb_mark"},
             r.pc = "delete" => r.cur = me.cur /\ me.pc = "delete"
      PROVE  proc'[p] = r => HoldsNewOnly(p)'
  <2>1. me.pc = "delete" => pre[me.cur] = Absent
    BY DEF Unclaimed, HoldsNewOnly, At
  <2> QED
    BY <2>1, <1>1, <1>3, <1>4 DEF HoldsNewOnly, At, Pending
<1>5. (Unresolved(p) <=> Step(p, failed)) /\ (proc'[p] = failed => HoldsNewOnly(p)')
  <2>1. failed.cursor = me.cursor /\ failed.pc = "rb_mark"
    BY <1>1 DEF Process
  <2>2. Unresolved(p) <=> Step(p, failed)
    BY DEF Unresolved
  <2> HIDE DEF failed
  <2> QED
    BY <2>1, <2>2, <1>4
<1> HIDE DEF failed
<1>6. CASE DeleteAnswered(p) \/ DeleteLost(p)
  <2>1. me.pc = "delete" /\ pre[me.cur] = Absent
    BY <1>6 DEF DeleteAnswered, DeleteLost, At, Unclaimed, HoldsNewOnly
  <2>2. q \in Request
    BY <1>2 DEF DeleteRequest, Request, Contents
  <2>3. Harmless(q)
    BY <2>1 DEF DeleteRequest, Harmless
  <2>4. CASE DeleteAnswered(p)
    <3> DEFINE r == [me EXCEPT !.tries = 0, !.pc = "confirm"]
    <3>1. r.cursor = me.cursor /\ r.pc = "confirm"
      BY <1>1 DEF Process
    <3>2. Step(p, r) /\ Answer(p, q)
      BY <2>4 DEF DeleteAnswered
    <3> HIDE DEF r, q
    <3> QED
      BY <3>1, <3>2, <2>2, <2>3, <1>1, <1>4, UnclaimedCall
  <2>5. CASE DeleteLost(p) /\ Exhausted(p)
    <3>1. Step(p, failed) /\ Lose(p, q)
      BY <2>5, <1>5 DEF DeleteLost
    <3> HIDE DEF q
    <3> QED
      BY <3>1, <2>2, <2>3, <1>1, <1>5, UnclaimedCall
  <2>6. CASE DeleteLost(p) /\ ~ Exhausted(p)
    <3> DEFINE r == [me EXCEPT !.tries = me.tries + 1]
    <3>1. r.cursor = me.cursor /\ r.pc = me.pc /\ r.cur = me.cur
      BY <1>1 DEF Process
    <3>2. Step(p, r) /\ Lose(p, q)
      BY <2>6 DEF DeleteLost
    <3> HIDE DEF r, q
    <3> QED
      BY <3>1, <3>2, <2>1, <2>2, <2>3, <1>1, <1>4, UnclaimedCall
  <2> QED
    BY <2>4, <2>5, <2>6, <1>6
<1>7. CASE RollbackConfirm(p) \/ RemovalFailed(p)
  <2>1. UNCHANGED <<svc, items, wire, pre>>
    BY <1>7 DEF RollbackConfirm, RemovalFailed, world, store, history
  <2>2. CASE Step(p, failed)
    BY <2>1, <2>2, <1>5, UnclaimedLocal
  <2>3. CASE Step(p, [me EXCEPT !.ans = "rolled_back", !.pc = "rb_mark"])
    <3> DEFINE r == [me EXCEPT !.ans = "rolled_back", !.pc = "rb_mark"]
    <3>1. Step(p, r) /\ r.cursor = me.cursor /\ r.pc = "rb_mark"
      BY <2>3, <1>1 DEF Process
    <3> HIDE DEF r
    <3> QED
      BY <3>1, <2>1, <1>4, UnclaimedLocal
  <2> QED
    BY <2>2, <2>3, <1>5, <1>7 DEF RollbackConfirm, RemovalFailed
<1> QED
  BY <1>6, <1>7

(***************************************************************************)
(* The invariant.                                                          *)
(***************************************************************************)
LEMMA UnclaimedElsewhere ==
    ASSUME TypeOK, Unclaimed, Elsewhere, drift' = drift
    PROVE  Unclaimed'
<1>1. proc' = proc /\ items' = items /\ pre' = pre
  BY DEF Elsewhere, Arrive, LegacyWrite, ServiceWrite, store
<1>2. (\A p \in Procs : HoldsNewOnly(p)') /\ Owned'
  BY <1>1, HoldsKept DEF Unclaimed, Owned
<1>3. CASE \E q \in wire : Arrive(q)
  <2>1. PICK q \in wire : Arrive(q)
    BY <1>3
  <2>2. q \in Request /\ Harmless(q) /\ Run(q) /\ wire' \subseteq wire
    BY <2>1 DEF TypeOK, Unclaimed, Arrive
  <2> QED
    BY <2>2, <1>1, <1>2, RunSurvives DEF Unclaimed, Harmless
<1>4. CASE \E k \in Keys, v \in Contents : LegacyWrite(k, v)
  BY <1>1, <1>2, <1>4 DEF LegacyWrite, Unclaimed, Surviving, Harmless
<1>5. ASSUME NEW k \in Keys, NEW v \in Contents, ServiceWrite(k, v) PROVE FALSE
  BY <1>5 DEF ServiceWrite, TypeOK
<1> QED
  BY <1>3, <1>4, <1>5 DEF Elsewhere

LEMMA UnclaimedNext ==
    ASSUME TypeOK, Unclaimed, [Next]_vars, drift' = drift
    PROVE  Unclaimed'
<1>1. ASSUME NEW p \in Procs, Advance(p) PROVE Unclaimed'
  BY <1>1, UnclaimedSnapshot, UnclaimedExit, UnclaimedPost, UnclaimedUpsert, UnclaimedMark,
     UnclaimedRollbackOpen, UnclaimedRollbackRead, UnclaimedDelete
     DEF Advance, SnapshotStep, RollbackStep
<1>2. ASSUME NEW p \in Procs, Trouble(p) PROVE Unclaimed'
  BY <1>2, UnclaimedSnapshot, UnclaimedExit, UnclaimedPost, UnclaimedRollbackRead,
     UnclaimedDelete DEF Trouble, SnapshotTrouble, RollbackTrouble
<1>3. CASE UNCHANGED vars
  BY <1>3, HoldsKept
     DEF vars, world, store, history, Unclaimed, Surviving, Owned, Harmless
<1> QED
  BY <1>1, <1>2, <1>3, UnclaimedStart, UnclaimedElsewhere DEF Next

(* The number of writes of other clients never goes down. *)
LEMMA DriftGrows ==
    ASSUME TypeOK, [Next]_vars, drift' = 0
    PROVE  drift' = drift
<1>1. ASSUME NEW p \in Procs, Start(p) \/ Advance(p) \/ Trouble(p) PROVE drift' = drift
  <2>1. CASE Start(p)
    BY <2>1 DEF Start, SnapshotStart, RollbackStart, StartSnapshot, StartResume,
                StartValidate, StartRollback, budget
  <2>2. CASE Advance(p)
    BY <2>2 DEF Advance, SnapshotStep, RollbackStep, budget,
         ImportOpen, ImportSkip, ImportBegin, PostAnswered, ImportUpsert, ImportEnd,
         CountLegacy, CheckOpen, CheckRow, CheckItem, CheckMark, CheckEnd, RefsOpen, RefsGet,
         RefsEnd,
         Finalize, Report, RollbackOpen, RollbackRead, DeleteAnswered, RollbackConfirm,
         RollbackMark, SalesDone, RollbackEnd
  <2>3. CASE Trouble(p)
    BY <2>3 DEF Trouble, SnapshotTrouble, RollbackTrouble, Crash,
         PostLost, PostRefused, CheckRowLost, RefsGetLost, Abort,
         RollbackReadLost, DeleteLost, RemovalFailed
  <2> QED
    BY <1>1, <2>1, <2>2, <2>3
<1>2. CASE Elsewhere
  <2>1. ASSUME NEW q \in wire, Arrive(q) PROVE drift' = drift
    BY <2>1 DEF Arrive, budget
  <2>2. ASSUME NEW k \in Keys, NEW v \in Contents, LegacyWrite(k, v) PROVE drift' = drift
    BY <2>2 DEF LegacyWrite
  <2>3. ASSUME NEW k \in Keys, NEW v \in Contents, ServiceWrite(k, v) PROVE drift' = drift
    BY <2>3 DEF ServiceWrite, TypeOK
  <2> QED
    BY <1>2, <2>1, <2>2, <2>3 DEF Elsewhere
<1>3. CASE UNCHANGED vars
  BY <1>3 DEF vars, budget
<1> QED
  BY <1>1, <1>2, <1>3 DEF Next

(* Nothing that leads to a DELETE ever names a row that was in the services
   before the first command, for any number of rows, runs and processes. *)
THEOREM NothingClaimedHolds == Spec => []NothingClaimed
<1>1. Init => NothingClaimed
  <2> SUFFICES ASSUME Init PROVE Unclaimed
    BY UnclaimedLemma
  <2>1. Surviving /\ Owned /\ \A q \in wire : Harmless(q)
    BY DEF Init, Surviving, Owned, NoItem
  <2>2. \A p \in Procs : HoldsNewOnly(p)
    BY DEF Init, IdleProcess, HoldsNewOnly, At
  <2> QED
    BY <2>1, <2>2 DEF Unclaimed
<1>2. ASSUME TypeOK, NothingClaimed, [Next]_vars PROVE NothingClaimed'
  <2> SUFFICES ASSUME drift' = 0 PROVE Unclaimed'
    BY DEF NothingClaimed, Unclaimed, PreexistingSurvive, CreatedIsNew, Surviving, Owned,
           Harmless
  <2>1. drift = 0 /\ drift' = drift
    BY <1>2, DriftGrows
  <2> QED
    BY <2>1, <1>2, UnclaimedLemma, UnclaimedNext
<1> QED
  BY <1>1, <1>2, TypeCorrect, PTL DEF Spec

(* A row that was there before the first command keeps its contents while no
   other client writes in the services. *)
THEOREM PreexistingSurviveHolds == Spec => []PreexistingSurvive
<1>1. NothingClaimed => PreexistingSurvive
  BY DEF NothingClaimed, PreexistingSurvive
<1> QED
  BY <1>1, NothingClaimedHolds, PTL

(* No run records as created a row that was there before. *)
THEOREM CreatedIsNewHolds == Spec => []CreatedIsNew
<1>1. NothingClaimed => CreatedIsNew
  BY DEF NothingClaimed, CreatedIsNew
<1> QED
  BY <1>1, NothingClaimedHolds, PTL
=============================================================================
