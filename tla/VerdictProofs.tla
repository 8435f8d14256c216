---------------------------- MODULE VerdictProofs ----------------------------
(***************************************************************************)
(* What a verdict means: VerdictSound and SalesAfterUsers, for any number  *)
(* of processes, runs and rows. The invariant says, stage by stage, which  *)
(* rows a command has compared so far, and that among the rows nobody else *)
(* wrote since it began they still are in their service as in the legacy   *)
(* database.                                                               *)
(***************************************************************************)
EXTENDS StepProofs

Copied(k) == legacy[k] # Absent => svc[k] = legacy[k]

Looping == {"import_next", "post", "upsert", "check_next", "check_item", "check_mark"}
Comparing == {"check_next", "check_item", "check_mark"}
Early == {"import_open", "import_next", "post", "upsert", "count", "check_open"}
Compared == {"refs_open", "refs_next", "complete", "report"}

(* The rows the validators have compared in this command: the users before the
   sales, the rows of a table before those still pending, all when both are done. *)
Earlier(p) == IF proc[p].ent = "sale" THEN Users ELSE {}
Checked(p) ==
    IF proc[p].pc \in Early THEN Earlier(p)
    ELSE IF proc[p].pc \in Comparing THEN Earlier(p) \union (Rows(proc[p].ent) \ Pending(p))
    ELSE IF proc[p].pc \in Compared THEN Keys
    ELSE {}

(* A loop handles the rows of its own table. *)
OwnTable(p) == proc[p].pc \in Looping => Pending(p) \subseteq Rows(proc[p].ent)

(* No mismatch so far: the compared rows agree. *)
CheckedAgree(p) ==
    ~ proc[p].bad => \A k \in Checked(p) \intersect Settled(p) : Copied(k)

(* An import goes on to the sales only with all users there. *)
UsersThere(p) ==
    Imports(p) /\ proc[p].ent = "sale" /\ proc[p].pc # "fail" =>
        \A u \in Users \intersect Settled(p) : Copied(u)

(* The rows still to be compared are as the query returned them. *)
CursorCurrent(p) ==
    proc[p].pc \in Comparing =>
        \A k \in Pending(p) \intersect Settled(p) : proc[p].cursor[k] = legacy[k]

(* Every user a sale refers to was found, is known to be missing or is pending. *)
Resolved(p, s) ==
    \/ svc[UserOf[s]] # Absent
    \/ proc[p].pc = "refs_next" /\ UserOf[s] \in proc[p].refs \union proc[p].missing
RefsResolved(p) ==
    ~ proc[p].bad /\ proc[p].pc \in {"refs_next", "complete", "report"} =>
        \A s \in Sales \intersect Settled(p) :
            legacy[s] # Absent /\ UserOf[s] \in Settled(p) => Resolved(p, s)

VerdictOK(p) ==
    OwnTable(p) /\ CheckedAgree(p) /\ UsersThere(p) /\ CursorCurrent(p) /\ RefsResolved(p)
VerdictInv == \A p \in Procs : VerdictOK(p)

(* Two bookkeeping facts: a stage belongs to one group; a row to one table. *)
LEMMA Groups ==
    /\ Comparing \intersect Early = {} /\ Compared \intersect Early = {}
    /\ Compared \intersect Comparing = {} /\ Comparing \subseteq Looping
    /\ "idle" \notin Early \union Comparing \union Compared \union Looping
    /\ "fail" \notin Early \union Comparing \union Compared \union Looping
BY DEF Comparing, Early, Compared, Looping

LEMMA RowsSplit == Keys = Users \union Sales /\ Rows("user") = Users /\ Rows("sale") = Sales
BY DEF Keys, Rows

(* What others do leaves the invariant of p alone. *)
LEMMA VerdictKept ==
    ASSUME TypeOK, NEW p \in Procs, VerdictOK(p), proc'[p] = proc[p], Undisturbed(p)
    PROVE  VerdictOK(p)'
<1>1. Pending(p)' = Pending(p) /\ Checked(p)' = Checked(p) /\ Imports(p)' = Imports(p)
  BY SameCursor DEF Checked, Earlier, Pending, Imports
<1>2. Checked(p) \subseteq Keys /\ Settled(p)' \subseteq Settled(p)
  BY RowsSplit DEF Checked, Earlier, Undisturbed, Rows
<1>3. \A k \in Settled(p)' : Copied(k) => Copied(k)'
  BY DEF Undisturbed, Copied
<1>4. OwnTable(p)' /\ CheckedAgree(p)' /\ UsersThere(p)'
  BY <1>1, <1>2, <1>3 DEF VerdictOK, OwnTable, CheckedAgree, UsersThere
<1>5. CursorCurrent(p)'
  BY <1>1, <1>2 DEF VerdictOK, CursorCurrent, Undisturbed
<1>6. RefsResolved(p)'
  BY <1>2 DEF VerdictOK, RefsResolved, Resolved, Undisturbed
<1> QED
  BY <1>4, <1>5, <1>6 DEF VerdictOK

(* A command that is not comparing anything. *)
LEMMA VerdictIdle ==
    ASSUME NEW p \in Procs, proc'[p].pc \notin Early \union Looping \union Compared,
           proc'[p].cmd # "snapshot" \/ proc'[p].pc = "fail" \/ proc'[p].ent = "user"
    PROVE  VerdictOK(p)'
BY Groups DEF VerdictOK, OwnTable, CheckedAgree, UsersThere, CursorCurrent, RefsResolved,
              Checked, Imports, Compared

LEMMA VerdictStart ==
    ASSUME TypeOK, NEW p \in Procs, Start(p)
    PROVE  VerdictOK(p)'
<1>1. PICK cmd, r, ent, stage :
        /\ Begin(p, cmd, r, ent, stage)
        /\ \/ cmd # "snapshot" /\ stage = "rb_open"
           \/ ent = "user" /\ stage \in {"import_open", "count"}
  BY StartDoes
<1>2. proc'[p].cmd = cmd /\ proc'[p].ent = ent /\ proc'[p].pc = stage /\ Pending(p)' = {}
  BY <1>1, BeginDoes
<1>3. CASE cmd # "snapshot" /\ stage = "rb_open"
  BY <1>2, <1>3, VerdictIdle DEF Early, Looping, Compared
<1>4. CASE ent = "user" /\ stage \in {"import_open", "count"}
  BY <1>2, <1>4 DEF VerdictOK, OwnTable, CheckedAgree, UsersThere, CursorCurrent,
                    RefsResolved, Checked, Earlier, Comparing, Early
<1> QED
  BY <1>1, <1>3, <1>4

(* A step of p itself, which leaves the rows alone. *)
LEMMA OwnStep ==
    ASSUME NEW p \in Procs, Silent
    PROVE  /\ Settled(p)' = Settled(p) /\ legacy' = legacy /\ svc' = svc
           /\ \A k \in Keys : Copied(k)' <=> Copied(k)
BY DEF Silent, SameRows, Settled, Copied

LEMMA VerdictImport ==
    ASSUME TypeOK, NEW p \in Procs, VerdictOK(p),
           \/ ImportOpen(p) \/ ImportSkip(p) \/ ImportBegin(p) \/ PostRefused(p)
           \/ ImportUpsert(p)
    PROVE  VerdictOK(p)'
<1>1. /\ SameCommand(p) /\ Silent
      /\ proc[p].pc \in Early /\ proc'[p].pc \in {"import_next", "post", "upsert"}
      /\ ~ proc'[p].bad => ~ proc[p].bad
      /\ proc[p].pc # "fail"
  BY ImportOpenDoes, ImportSkipDoes, ImportBeginDoes, PostRefusedDoes, ImportUpsertDoes
     DEF Early, At
<1>2. Pending(p)' \subseteq Rows(proc[p].ent)
  <2>1. CASE ImportOpen(p)
    BY <2>1, ImportOpenDoes, Selects, Typed
  <2>2. CASE ImportSkip(p) \/ ImportUpsert(p)
    <3>1. \E k : proc'[p].cursor = Drop(p, k)
      BY <2>2, ImportSkipDoes, ImportUpsertDoes
    <3>2. proc[p].pc \in Looping
      BY <2>2, ImportSkipDoes, ImportUpsertDoes DEF Looping, At
    <3> QED
      BY <3>1, <3>2, DropsOne DEF VerdictOK, OwnTable
  <2>3. CASE ImportBegin(p) \/ PostRefused(p)
    <3>1. proc[p].pc \in Looping /\ Pending(p)' = Pending(p)
      BY <2>3, ImportBeginDoes, PostRefusedDoes, SameCursor DEF Looping, At
    <3> QED
      BY <3>1 DEF VerdictOK, OwnTable
  <2> QED
    BY <2>1, <2>2, <2>3
<1>3. Checked(p)' = Checked(p) /\ Checked(p) \subseteq Keys
  BY <1>1, RowsSplit DEF Checked, Early, Earlier, SameCommand
<1> QED
  BY <1>1, <1>2, <1>3, OwnStep, RowsSplit
     DEF VerdictOK, OwnTable, CheckedAgree, UsersThere, CursorCurrent, RefsResolved,
         SameCommand, Imports, Comparing

(* A row is sent while its own table is imported: in the sales phase no user is. *)
LEMMA VerdictPost ==
    ASSUME TypeOK, NEW p \in Procs, VerdictOK(p), PostAnswered(p) \/ PostLost(p)
    PROVE  VerdictOK(p)'
<1>1. /\ SameCommand(p) /\ Attempted(p) /\ proc'[p].bad = proc[p].bad
      /\ proc[p].pc = "post" /\ proc'[p].pc \in {"post", "upsert"}
      /\ Pending(p)' = Pending(p)
  BY PostAnsweredDoes, PostLostDoes, SameCursor DEF At
<1>2. proc[p].cur \in Rows(proc[p].ent)
  <2>1. proc[p].cur \in Pending(p)
    BY <1>1, Typed, ValuesAssumption DEF StageOK, Pending
  <2> QED
    BY <1>1, <2>1 DEF VerdictOK, OwnTable, Looping
<1>3. proc[p].ent = "sale" => \A u \in Users : u # proc[p].cur
  BY <1>2, KeysAssumption DEF Rows
<1>4. Settled(p)' = Settled(p) /\ (proc[p].ent = "sale" => \A u \in Users : Copied(u)' <=> Copied(u))
  BY <1>1, <1>3, RowsSplit DEF Attempted, Settled, Copied
<1>5. Checked(p)' = Checked(p) /\ Checked(p) = Earlier(p)
  BY <1>1 DEF Checked, Early, Earlier, SameCommand
<1> QED
  BY <1>1, <1>4, <1>5
     DEF VerdictOK, OwnTable, CheckedAgree, UsersThere, CursorCurrent, RefsResolved,
         SameCommand, Imports, Comparing, Earlier, Looping

LEMMA VerdictCount ==
    ASSUME TypeOK, NEW p \in Procs, VerdictOK(p), ImportEnd(p) \/ CountLegacy(p)
    PROVE  VerdictOK(p)'
<1>1. /\ SameCommand(p) /\ Silent /\ proc'[p].bad = proc[p].bad
      /\ proc[p].pc \in Early /\ proc[p].pc # "fail"
      /\ proc'[p].pc \in {"fail", "count", "check_open"}
  BY ImportEndDoes, CountLegacyDoes DEF Early, At
<1>2. CASE proc'[p].pc = "fail"
  BY <1>2, VerdictIdle, Groups
<1>3. CASE proc'[p].pc \in {"count", "check_open"}
  <2>1. Checked(p)' = Checked(p) /\ Checked(p) \subseteq Keys
    BY <1>1, <1>3, RowsSplit DEF Checked, Early, Earlier, SameCommand
  <2> QED
    BY <1>1, <1>3, <2>1, OwnStep, RowsSplit
       DEF VerdictOK, OwnTable, CheckedAgree, UsersThere, CursorCurrent, RefsResolved,
           SameCommand, Imports, Comparing, Looping
<1> QED
  BY <1>1, <1>2, <1>3

(* A table is compared row by row: a row leaves the cursor when it agrees or the
   verdict is spoiled. *)
LEMMA VerdictCheck ==
    ASSUME TypeOK, NEW p \in Procs, VerdictOK(p),
           CheckOpen(p) \/ CheckRow(p) \/ CheckRowLost(p) \/ CheckItem(p) \/ CheckMark(p)
    PROVE  VerdictOK(p)'
<1>1. /\ SameCommand(p) /\ Silent /\ proc[p].pc # "fail"
      /\ proc[p].pc \in {"check_open", "check_next", "check_item", "check_mark"}
      /\ proc'[p].pc \in Comparing /\ (~ proc'[p].bad => ~ proc[p].bad)
  BY CheckOpenDoes, CheckRowDoes, CheckRowLostDoes, CheckItemDoes, CheckMarkDoes DEF Comparing, At
<1>2. /\ Pending(p)' \subseteq Rows(proc[p].ent)
      /\ \A k \in Pending(p)' \intersect Settled(p) : proc'[p].cursor[k] = legacy[k]
  <2>1. CASE CheckOpen(p)
    BY <2>1, CheckOpenDoes, Selects, Typed
  <2>2. CASE ~ CheckOpen(p)
    <3>1. proc[p].pc \in Comparing
      BY <2>2, CheckRowDoes, CheckRowLostDoes, CheckItemDoes, CheckMarkDoes DEF Comparing, At
    <3>2. (\E k : proc'[p].cursor = Drop(p, k)) \/ proc'[p].cursor = proc[p].cursor
      BY <2>2, CheckRowDoes, CheckRowLostDoes, CheckItemDoes, CheckMarkDoes
    <3>3. Pending(p)' \subseteq Pending(p)
          /\ \A k \in Pending(p)' : proc'[p].cursor[k] = proc[p].cursor[k]
      BY <3>2, DropsOne, SameCursor
    <3> QED
      BY <3>1, <3>3, Groups DEF VerdictOK, OwnTable, CursorCurrent
  <2> QED
    BY <2>1, <2>2
<1>3. ASSUME ~ proc'[p].bad, NEW k \in Rows(proc[p].ent) \intersect Settled(p),
             k \notin Pending(p)'
      PROVE  Copied(k)
  <2>1. k \in Keys
    BY RowsSplit DEF Settled
  <2>2. CASE CheckOpen(p)
    BY <2>1, <2>2, <1>3, CheckOpenDoes, Selects, Typed DEF Copied
  <2>3. CASE CheckRow(p) /\ k \in Pending(p)
    <3>1. svc[k] = proc[p].cursor[k]
      BY <2>3, <1>3, CheckRowDoes, DropsOne
    <3> QED
      BY <3>1, <2>3, <1>3, CheckRowDoes DEF VerdictOK, CursorCurrent, Comparing, At, Copied
  <2>4. CASE (CheckRow(p) \/ CheckItem(p) \/ CheckMark(p)) /\ k \notin Pending(p)
    <3>1. proc[p].pc \in Comparing
      BY <2>4, CheckRowDoes, CheckItemDoes, CheckMarkDoes DEF Comparing, At
    <3>2. k \in Checked(p)
      BY <3>1, <2>4, Groups DEF Checked
    <3> QED
      BY <3>2, <1>1, <1>3 DEF VerdictOK, CheckedAgree
  <2>5. CASE (CheckItem(p) \/ CheckMark(p)) /\ k \in Pending(p)
    BY <2>5, <1>3, CheckItemDoes, CheckMarkDoes, SameCursor
  <2>6. CASE CheckRowLost(p)
    BY <2>6, <1>3, CheckRowLostDoes
  <2> QED
    BY <2>2, <2>3, <2>4, <2>5, <2>6
<1>4. ~ proc'[p].bad => \A k \in Earlier(p) \intersect Settled(p) : Copied(k)
  <2>1. Earlier(p) \subseteq Checked(p)
    BY <1>1, Groups DEF Checked, Early, Comparing
  <2> QED
    BY <1>1, <2>1 DEF VerdictOK, CheckedAgree
<1>5. Checked(p)' = Earlier(p) \union (Rows(proc[p].ent) \ Pending(p)')
  BY <1>1, Groups DEF Checked, Earlier, SameCommand
<1>6. Checked(p)' \subseteq Keys
  BY <1>5, RowsSplit DEF Earlier, Rows
<1>7. CheckedAgree(p)'
  BY <1>3, <1>4, <1>5, <1>6, OwnStep, <1>1 DEF CheckedAgree
<1>8. OwnTable(p)' /\ CursorCurrent(p)'
  BY <1>1, <1>2, OwnStep DEF OwnTable, CursorCurrent, SameCommand
<1>9. UsersThere(p)'
  BY <1>1, OwnStep, RowsSplit DEF VerdictOK, UsersThere, SameCommand, Imports
<1>10. RefsResolved(p)'
  BY <1>1 DEF RefsResolved, Comparing
<1> QED
  BY <1>7, <1>8, <1>9, <1>10 DEF VerdictOK

(* The end of a comparison: every row of the table was compared. *)
LEMMA VerdictCheckEnd ==
    ASSUME TypeOK, NEW p \in Procs, VerdictOK(p), CheckEnd(p)
    PROVE  VerdictOK(p)'
<1>1. /\ Silent /\ Pending(p) = {} /\ proc[p].pc = "check_next" /\ proc[p].pc \in Comparing
      /\ proc'[p].cmd = proc[p].cmd /\ proc'[p].ent = "sale"
      /\ proc'[p].pc \in {"fail", "refs_open", "import_open", "count"}
  BY CheckEndDoes DEF At, Comparing
<1>2. /\ proc'[p].pc = "refs_open" => proc[p].ent = "sale"
      /\ Imports(p) /\ proc'[p].pc # "fail" => ~ proc'[p].bad
      /\ ~ proc'[p].bad => ~ proc[p].bad
  BY CheckEndDoes DEF Mismatch
<1>3. Checked(p) = Earlier(p) \union Rows(proc[p].ent)
  BY <1>1, Groups DEF Checked
<1>4. proc[p].ent \in {"user", "sale"}
  BY Typed DEF Process, EntityType
<1>5. Users \subseteq Checked(p) /\ (proc[p].ent = "sale" => Checked(p) = Keys)
  BY <1>3, <1>4, RowsSplit DEF Earlier
<1>6. ~ proc'[p].bad => \A k \in Checked(p) \intersect Settled(p) : Copied(k)
  BY <1>2 DEF VerdictOK, CheckedAgree
<1>7. CASE proc'[p].pc = "fail"
  BY <1>7, VerdictIdle, Groups
<1>8. CASE proc'[p].pc # "fail"
  <2>1. Checked(p)' \subseteq Checked(p)
    BY <1>1, <1>2, <1>5, <1>8 DEF Checked, Early, Compared, Earlier, Comparing
  <2>2. Checked(p) \subseteq Keys
    BY <1>3, RowsSplit DEF Earlier, Rows
  <2>3. CheckedAgree(p)'
    BY <1>1, <1>6, <2>1, <2>2, OwnStep DEF CheckedAgree
  <2>4. UsersThere(p)'
    BY <1>1, <1>2, <1>5, <1>6, <1>8, OwnStep, RowsSplit DEF UsersThere, Imports
  <2> QED
    BY <1>1, <1>8, <2>3, <2>4
       DEF VerdictOK, OwnTable, CursorCurrent, RefsResolved, Looping, Comparing
<1> QED
  BY <1>7, <1>8

(* The users the sales refer to, one by one. *)
LEMMA VerdictRefs ==
    ASSUME TypeOK, NEW p \in Procs, VerdictOK(p),
           RefsOpen(p) \/ RefsGet(p) \/ RefsGetLost(p) \/ RefsEnd(p)
    PROVE  VerdictOK(p)'
<1>1. /\ SameCommand(p) /\ Silent
      /\ proc[p].pc \in {"refs_open", "refs_next"} /\ proc[p].pc \in Compared
      /\ proc'[p].pc \in {"refs_next", "fail", "complete", "report"}
      /\ ~ proc'[p].bad => ~ proc[p].bad
      /\ proc[p].pc # "fail"
  BY RefsOpenDoes, RefsGetDoes, RefsGetLostDoes, RefsEndDoes DEF Compared, At
<1>2. CASE proc'[p].pc = "fail"
  BY <1>2, VerdictIdle, Groups
<1>3. CASE proc'[p].pc # "fail"
  <2>1. proc'[p].pc \in Compared
    BY <1>1, <1>3 DEF Compared
  <2>2. Checked(p) = Keys /\ Checked(p)' = Keys
    BY <1>1, <2>1, Groups DEF Checked
  <2>3. CheckedAgree(p)'
    BY <1>1, <2>2, OwnStep DEF VerdictOK, CheckedAgree
  <2>4. UsersThere(p)'
    BY <1>1, OwnStep, RowsSplit DEF VerdictOK, UsersThere, SameCommand, Imports
  <2>5. ASSUME ~ proc'[p].bad, NEW s \in Sales \intersect Settled(p), legacy[s] # Absent,
               UserOf[s] \in Settled(p)
        PROVE  Resolved(p, s)'
    <3>1. CASE RefsOpen(p)
      <4>1. UserOf[s] \in LegacyRefs
        BY <2>5 DEF LegacyRefs
      <4> QED
        BY <3>1, <4>1, RefsOpenDoes DEF Resolved
    <3>2. CASE ~ RefsOpen(p)
      <4>1. proc[p].pc = "refs_next"
        BY <3>2, RefsGetDoes, RefsGetLostDoes, RefsEndDoes DEF At
      <4>2. Resolved(p, s)
        BY <4>1, <2>5, <1>1 DEF VerdictOK, RefsResolved
      <4>3. CASE RefsGet(p)
        BY <4>2, <4>3, RefsGetDoes, OwnStep DEF Resolved
      <4>4. CASE RefsGetLost(p)
        BY <4>4, <2>5, RefsGetLostDoes
      <4>5. CASE RefsEnd(p)
        <5>1. proc[p].refs = {} /\ s \notin Orphans(p)
          BY <4>5, <2>5, RefsEndDoes
        <5>2. UserOf[s] \notin proc[p].missing
          BY <5>1, <2>5 DEF Orphans
        <5> QED
          BY <4>2, <5>1, <5>2, <1>1, OwnStep DEF Resolved
      <4> QED
        BY <3>2, <4>3, <4>4, <4>5
    <3> QED
      BY <3>1, <3>2
  <2>6. RefsResolved(p)'
    BY <1>1, <2>5, OwnStep DEF RefsResolved
  <2> QED
    BY <1>1, <1>3, <2>3, <2>4, <2>6
       DEF VerdictOK, OwnTable, CursorCurrent, Looping, Comparing
<1> QED
  BY <1>2, <1>3

LEMMA VerdictEnd ==
    ASSUME TypeOK, NEW p \in Procs,
           Finalize(p) \/ Report(p) \/ Abort(p) \/ Crash(p) \/ RollbackEnd(p)
    PROVE  VerdictOK(p)'
BY EndDoes, VerdictIdle, Groups DEF IdleProcess

(* A rollback compares nothing with the legacy database. *)
LEMMA VerdictRollback ==
    ASSUME TypeOK, TypeOK', NEW p \in Procs,
           \/ RollbackOpen(p) \/ RollbackRead(p) \/ RollbackReadLost(p) \/ DeleteAnswered(p)
           \/ DeleteLost(p) \/ RollbackConfirm(p) \/ RemovalFailed(p) \/ RollbackMark(p)
           \/ SalesDone(p)
    PROVE  VerdictOK(p)'
<1>1. proc'[p].pc \in {"rb_open", "rb_next", "delete", "confirm", "rb_mark"}
  BY RollbackOpenDoes, RollbackReadDoes, RollbackReadLostDoes, DeleteAnsweredDoes,
     DeleteLostDoes, RollbackConfirmDoes, RemovalFailedDoes, RollbackMarkDoes, SalesDoneDoes
<1>2. proc'[p].cmd # "snapshot"
  BY <1>1 DEF TypeOK, StageOK
<1> QED
  BY <1>1, <1>2, VerdictIdle DEF Early, Looping, Compared

LEMMA VerdictInit == Init => VerdictInv
BY VerdictIdle, Groups
   DEF Init, IdleProcess, VerdictInv, VerdictOK, OwnTable, CheckedAgree, UsersThere,
       CursorCurrent, RefsResolved, Checked, Imports, Compared

LEMMA VerdictStep == ASSUME TypeOK, VerdictInv, [Next]_vars PROVE VerdictInv'
<1>1. TypeOK'
  BY TypeStep
<1>2. ASSUME NEW q \in Procs, Start(q) \/ Advance(q) \/ Trouble(q), NEW p \in Procs
      PROVE  VerdictOK(p)'
  <2>1. CASE p # q
    BY <1>2, <2>1, OthersKeep, VerdictKept DEF VerdictInv
  <2>2. CASE p = q
    <3>1. VerdictOK(p)
      BY DEF VerdictInv
    <3>2. CASE Start(p)
      BY <3>2, VerdictStart
    <3>3. CASE Advance(p)
      BY <1>1, <3>1, <3>3, VerdictImport, VerdictPost, VerdictCount, VerdictCheck,
         VerdictCheckEnd, VerdictRefs, VerdictEnd, VerdictRollback
         DEF Advance, SnapshotStep, RollbackStep
    <3>4. CASE Trouble(p)
      BY <1>1, <3>1, <3>4, VerdictImport, VerdictPost, VerdictCheck, VerdictRefs, VerdictEnd,
         VerdictRollback DEF Trouble, SnapshotTrouble, RollbackTrouble
    <3> QED
      BY <1>2, <2>2, <3>2, <3>3, <3>4
  <2> QED
    BY <2>1, <2>2
<1>3. CASE \E q \in Procs : Start(q) \/ Advance(q) \/ Trouble(q)
  BY <1>2, <1>3 DEF VerdictInv
<1>4. CASE Elsewhere
  BY <1>4, ElsewhereKeeps, VerdictKept DEF VerdictInv
<1>5. CASE UNCHANGED vars
  BY <1>5, QuietDisturbs, VerdictKept DEF VerdictInv, vars, world, history
<1> QED
  BY <1>3, <1>4, <1>5 DEF Next

LEMMA VerdictAlways == Spec => [](TypeOK /\ VerdictInv)
<1>1. Init => TypeOK /\ VerdictInv
  BY TypeInit, VerdictInit
<1>2. TypeOK /\ VerdictInv /\ [Next]_vars => (TypeOK /\ VerdictInv)'
  BY TypeStep, VerdictStep
<1> QED
  BY <1>1, <1>2, PTL DEF Spec

(* A run becomes COMPLETED, and validate reports VALIDATED, only when every legacy
   row nobody else wrote since the command began is in its service unchanged, and so
   is the user of every such sale: for any rows, runs, processes and bounds. *)
THEOREM VerdictSoundHolds == Spec => []VerdictSound
<1>1. ASSUME VerdictInv, NEW p \in Procs, proc[p].pc \in {"complete", "report"},
             ~ proc[p].bad, NEW k \in Settled(p), legacy[k] # Absent
      PROVE  /\ svc[k] = legacy[k]
             /\ k \in Sales /\ UserOf[k] \in Settled(p) => svc[UserOf[k]] # Absent
  <2>1. VerdictOK(p)
    BY <1>1 DEF VerdictInv
  <2>2. Checked(p) = Keys /\ k \in Keys
    BY <1>1 DEF Checked, Early, Comparing, Compared, Settled
  <2>3. svc[k] = legacy[k]
    BY <1>1, <2>1, <2>2 DEF VerdictOK, CheckedAgree, Copied
  <2>4. k \in Sales /\ UserOf[k] \in Settled(p) => svc[UserOf[k]] # Absent
    BY <1>1, <2>1 DEF VerdictOK, RefsResolved, Resolved
  <2> QED
    BY <2>3, <2>4
<1>2. VerdictInv => VerdictSound
  BY <1>1 DEF VerdictSound
<1> QED
  BY <1>2, VerdictAlways, PTL

(* A sale is sent only when every legacy user nobody else wrote since the command
   began is in the User Service unchanged: for any rows, runs, processes and bounds. *)
THEOREM SalesAfterUsersHolds == Spec => []SalesAfterUsers
<1>1. ASSUME TypeOK, VerdictInv, NEW p \in Procs, At(p, "post"), proc[p].ent = "sale",
             NEW u \in Users \intersect Settled(p), legacy[u] # Absent
      PROVE  svc[u] = legacy[u]
  <2>1. Imports(p)
    BY <1>1, Typed DEF StageOK, At, Imports
  <2> QED
    BY <1>1, <2>1 DEF VerdictInv, VerdictOK, UsersThere, At, Copied
<1>2. TypeOK /\ VerdictInv => SalesAfterUsers
  BY <1>1 DEF SalesAfterUsers
<1> QED
  BY <1>2, VerdictAlways, PTL
=============================================================================
