-------------------------- MODULE OneCommandProofs --------------------------
(***************************************************************************)
(* What the tool guarantees when the operator runs one command at a time:  *)
(* what a rollback removes, what a COMPLETED run records, which rows and   *)
(* items belong to a run, and the run statuses, for any number of rows and *)
(* runs and any bounds. With two commands at once these properties fail,   *)
(* so the theorems have the hypothesis that there is one process.          *)
(***************************************************************************)
EXTENDS VerdictProofs

(* The operator runs one command at a time. *)
OneCommand == \A p, q \in Procs : p = q

(* A step is one of p, or it is none of the tool's. *)
LEMMA OneStep ==
    ASSUME OneCommand, TypeOK, [Next]_vars, NEW p \in Procs
    PROVE  \/ Start(p) \/ Advance(p) \/ Trouble(p)
           \/ UNCHANGED <<proc, status, items>> /\ Undisturbed(p)
<1>1. CASE \E q \in Procs : Start(q) \/ Advance(q) \/ Trouble(q)
  BY <1>1 DEF OneCommand
<1>2. CASE Elsewhere
  BY <1>2, ElsewhereKeeps
<1>3. CASE UNCHANGED vars
  BY <1>3, QuietDisturbs DEF vars, world, store, history
<1> QED
  BY <1>1, <1>2, <1>3 DEF Next

(* What every proof below starts from. *)
Base == TypeOK /\ Control /\ VerdictInv

LEMMA BaseAlways == Spec => []Base
BY ControlAlways, VerdictAlways, PTL DEF Base

LEMMA BaseStep == ASSUME Base, [Next]_vars PROVE Base'
BY TypeStep, ControlStep, VerdictStep DEF Base

(***************************************************************************)
(* What a rollback removes.                                                *)
(***************************************************************************)
Undoing == {"rb_next", "delete", "confirm", "rb_mark"}

Created(p, k) == items[proc[p].run][k].action = "created"
Payload(p, k) == items[proc[p].run][k].payload

(* As a rollback, or a dry run, wants to leave a row: gone, or safe to delete. *)
Fine(p, k) == svc[k] = Absent \/ (Dry(p) /\ svc[k] = Payload(p, k))

(* The rows of the table the loop is through with. *)
Handled(p) ==
    {k \in Rows(proc[p].ent) :
        /\ k \notin Pending(p)
        /\ proc[p].pc \in {"delete", "confirm"} => k # proc[p].cur}

(* The loop handles created items of its table, with the payload the run sent. *)
OwnItems(p) ==
    proc[p].pc \in Undoing =>
        \A k \in Pending(p) : /\ k \in Rows(proc[p].ent) /\ Created(p, k)
                              /\ proc[p].cursor[k] = Payload(p, k)

(* The row about to be deleted was seen as the run sent it. *)
HandMatches(p) ==
    At(p, "delete") /\ proc[p].cur \in Settled(p) =>
        svc[proc[p].cur] \in {Payload(p, proc[p].cur), Absent}

(* Users are handled only when all sales are fine. *)
SalesFine(p) ==
    proc[p].cmd \in {"rollback", "dry"} /\ proc[p].ent = "user" =>
        \A s \in Sales \intersect Settled(p) : Created(p, s) => Fine(p, s)

(* Nothing unresolved so far: the handled rows are fine. *)
HandledFine(p) ==
    proc[p].pc \in Undoing /\ ~ proc[p].bad =>
        \A k \in Handled(p) \intersect Settled(p) : Created(p, k) => Fine(p, k)

RollbackOK(p) == OwnItems(p) /\ HandMatches(p) /\ SalesFine(p) /\ HandledFine(p)

LEMMA RollbackElsewhere ==
    ASSUME TypeOK, NEW p \in Procs, RollbackOK(p), UNCHANGED <<proc, items>>, Undisturbed(p)
    PROVE  RollbackOK(p)'
<1>1. /\ Pending(p)' = Pending(p) /\ Handled(p)' = Handled(p) /\ Dry(p)' = Dry(p)
      /\ \A k \in Keys : Created(p, k)' = Created(p, k) /\ Payload(p, k)' = Payload(p, k)
  BY DEF Handled, Pending, Dry, Created, Payload
<1>2. \A k \in Settled(p)' : Fine(p, k) => Fine(p, k)'
  BY <1>1 DEF Undisturbed, Fine, Settled
<1>3. Settled(p)' \subseteq Settled(p) /\ Settled(p)' \subseteq Keys
  BY DEF Undisturbed, Settled
<1>4. OwnItems(p)' /\ HandMatches(p)'
  BY <1>1, <1>3 DEF RollbackOK, OwnItems, HandMatches, Undisturbed, At, Created, Payload
<1>5. SalesFine(p)' /\ HandledFine(p)'
  BY <1>1, <1>2, <1>3 DEF RollbackOK, SalesFine, HandledFine
<1> QED
  BY <1>4, <1>5 DEF RollbackOK

(* A process that undoes nothing. *)
LEMMA RollbackIdle ==
    ASSUME NEW p \in Procs, proc'[p].pc \notin Undoing,
           proc'[p].cmd \notin {"rollback", "dry"} \/ proc'[p].ent # "user"
    PROVE  RollbackOK(p)'
BY DEF RollbackOK, OwnItems, HandMatches, SalesFine, HandledFine, Undoing, At

(* What stays of an item and of a row during a step of a rollback. *)
LEMMA UndoKeeps ==
    ASSUME TypeOK, NEW p \in Procs, Advance(p) \/ Trouble(p),
           proc[p].cmd \in {"rollback", "dry"}, proc'[p].cmd = proc[p].cmd,
           proc'[p].run = proc[p].run
    PROVE  \A k \in Keys :
             /\ Created(p, k)' = Created(p, k) /\ Payload(p, k)' = Payload(p, k)
             /\ svc'[k] = svc[k] => (Fine(p, k) => Fine(p, k)')
             /\ svc'[k] = Absent => Fine(p, k)'
<1>1. proc[p].run \in Runs /\ ~ ImportUpsert(p)
  BY Typed DEF StageOK, ImportUpsert, At
<1>2. \A k \in Keys : Created(p, k)' = Created(p, k) /\ Payload(p, k)' = Payload(p, k)
  BY <1>1, ActionsKept DEF Created, Payload
<1> QED
  BY <1>2 DEF Fine, Dry

LEMMA RollbackLoops ==
    ASSUME TypeOK, NEW p \in Procs, RollbackOK(p), InCommand(p),
           RollbackOpen(p) \/ RollbackRead(p) \/ RollbackReadLost(p) \/ RollbackMark(p)
    PROVE  RollbackOK(p)'
<1>1. /\ SameCommand(p) /\ Silent /\ Settled(p)' = Settled(p)
      /\ proc[p].cmd \in {"rollback", "dry"} /\ (~ proc'[p].bad => ~ proc[p].bad)
      /\ proc[p].run \in Runs /\ items \in [Runs -> [Keys -> Item]]
      /\ proc[p].pc \in {"rb_open", "rb_next", "rb_mark"}
  <2>1. /\ SameCommand(p) /\ Silent /\ (~ proc'[p].bad => ~ proc[p].bad)
        /\ proc[p].pc \in {"rb_open", "rb_next", "rb_mark"}
    BY RollbackOpenDoes, RollbackReadDoes, RollbackReadLostDoes, RollbackMarkDoes DEF At
  <2>2. proc[p].cmd \in {"rollback", "dry"}
    BY <2>1, CommandOf
  <2> QED
    BY <2>1, <2>2, Typed DEF StageOK, Silent, Settled
<1>2. \A k \in Keys :
        /\ Created(p, k)' = Created(p, k) /\ Payload(p, k)' = Payload(p, k)
        /\ svc'[k] = svc[k] /\ (Fine(p, k) => Fine(p, k)')
        /\ svc[k] = Absent => Fine(p, k)'
  BY <1>1, UndoKeeps DEF Silent, SameRows, SameCommand, Advance, Trouble, RollbackStep,
                         RollbackTrouble
<1>3. SalesFine(p)'
  BY <1>1, <1>2, RowsSplit DEF RollbackOK, SalesFine, SameCommand
<1>4. CASE RollbackOpen(p)
  <2>1. CreatedItems(proc[p].run) \in Tables
    BY <1>1 DEF CreatedItems, Item, NoItem, Tables, Contents
  <2>2. /\ Pending(p)' = {k \in Keys : k \in Rows(proc[p].ent)
                                       /\ CreatedItems(proc[p].run)[k] # Absent}
        /\ \A k \in Pending(p)' : proc'[p].cursor[k] = CreatedItems(proc[p].run)[k]
        /\ proc'[p].pc = "rb_next"
    BY <1>4, <2>1, RollbackOpenDoes, Selects
  <2>3. \A k \in Keys : CreatedItems(proc[p].run)[k] =
                           IF Created(p, k) THEN Payload(p, k) ELSE Absent
    BY DEF CreatedItems, Created, Payload
  <2>4. \A k \in Keys : Created(p, k) => Payload(p, k) # Absent
    BY <1>1, ValuesAssumption DEF Created, Payload, Item, NoItem
  <2>5. OwnItems(p)'
    BY <1>1, <1>2, <2>2, <2>3 DEF OwnItems, SameCommand
  <2>6. HandledFine(p)'
    <3>1. ASSUME NEW k \in Rows(proc[p].ent), k \notin Pending(p)' PROVE ~ Created(p, k)'
      BY <3>1, <1>2, <2>2, <2>3, <2>4, RowsSplit DEF Rows
    <3> QED
      BY <3>1, <1>1 DEF HandledFine, Handled, SameCommand
  <2>7. HandMatches(p)'
    BY <2>2 DEF HandMatches, At
  <2> QED
    BY <1>3, <2>5, <2>6, <2>7 DEF RollbackOK
<1>5. CASE RollbackRead(p) \/ RollbackReadLost(p)
  <2>1. PICK k \in Pending(p) :
          /\ proc'[p].cur = k /\ proc'[p].cursor = Drop(p, k) /\ At(p, "rb_next")
          /\ \/ proc'[p].bad /\ proc'[p].pc = "rb_mark"
             \/ /\ proc'[p].pc = IF Decision(p, k) # "none" \/ Dry(p) THEN "rb_mark" ELSE "delete"
                /\ ~ proc'[p].bad => Decision(p, k) # "rollback_conflict"
    BY <1>5, RollbackReadDoes, RollbackReadLostDoes
  <2>2. /\ Pending(p)' = Pending(p) \ {k}
        /\ \A j \in Pending(p)' : proc'[p].cursor[j] = proc[p].cursor[j]
        /\ Pending(p) \subseteq Keys
    BY <2>1, DropsOne DEF Pending
  <2>3. Created(p, k) /\ proc[p].cursor[k] = Payload(p, k) /\ k \in Rows(proc[p].ent)
    BY <2>1 DEF RollbackOK, OwnItems, Undoing, At
  <2>4. OwnItems(p)'
    BY <1>1, <1>2, <2>1, <2>2 DEF RollbackOK, OwnItems, Undoing, At, SameCommand
  <2>5. \/ svc[k] = Absent
        \/ svc[k] = Payload(p, k) /\ Decision(p, k) = "none"
        \/ Decision(p, k) = "rollback_conflict"
    BY <2>3 DEF Decision, Matches
  <2>6. HandMatches(p)'
    BY <1>2, <2>1, <2>2, <2>5 DEF HandMatches, At
  <2>7. ASSUME ~ proc'[p].bad, NEW j \in Handled(p)', j \in Settled(p), Created(p, j)
        PROVE  Fine(p, j)'
    <3>1. CASE j = k
      <4>1. proc'[p].pc = "rb_mark"
        BY <2>1, <2>7, <3>1 DEF Handled
      <4>2. svc[k] = Absent \/ (svc[k] = Payload(p, k) /\ Dry(p))
        BY <4>1, <2>1, <2>5, <2>7
      <4> QED
        BY <4>2, <3>1, <1>1, <1>2, <2>2 DEF Fine, Dry, SameCommand
    <3>2. CASE j # k
      <4>1. j \in Handled(p)
        BY <2>1, <2>2, <2>7, <3>2, <1>1 DEF Handled, At, SameCommand
      <4>2. Fine(p, j) /\ j \in Keys
        BY <4>1, <2>1, <2>7, <1>1 DEF RollbackOK, HandledFine, Undoing, At, Settled
      <4> QED
        BY <4>2, <1>2
    <3> QED
      BY <3>1, <3>2
  <2>8. HandledFine(p)'
    BY <2>7, <1>1, <1>2 DEF HandledFine, Settled
  <2> QED
    BY <1>3, <2>4, <2>6, <2>8 DEF RollbackOK
<1>6. CASE RollbackMark(p)
  <2>1. /\ proc[p].pc = "rb_mark" /\ proc'[p].pc = "rb_next" /\ proc'[p].bad = proc[p].bad
        /\ proc'[p].cursor = proc[p].cursor /\ Pending(p)' = Pending(p)
    BY <1>6, RollbackMarkDoes, SameCursor DEF At
  <2>2. Handled(p)' = Handled(p) /\ Handled(p) \subseteq Keys /\ Pending(p) \subseteq Keys
    BY <1>1, <2>1, RowsSplit DEF Handled, SameCommand, Rows, Pending
  <2>3. OwnItems(p)' /\ HandMatches(p)'
    BY <1>1, <1>2, <2>1, <2>2 DEF RollbackOK, OwnItems, HandMatches, Undoing, SameCommand, At
  <2>4. HandledFine(p)'
    BY <1>1, <1>2, <2>1, <2>2 DEF RollbackOK, HandledFine, Undoing
  <2> QED
    BY <1>3, <2>3, <2>4 DEF RollbackOK
<1> QED
  BY <1>4, <1>5, <1>6

LEMMA RollbackRemoves ==
    ASSUME TypeOK, NEW p \in Procs, RollbackOK(p), InCommand(p),
           DeleteAnswered(p) \/ DeleteLost(p) \/ RollbackConfirm(p) \/ RemovalFailed(p)
    PROVE  RollbackOK(p)'
<1>1. /\ SameCommand(p) /\ (~ proc'[p].bad => ~ proc[p].bad)
      /\ proc[p].cmd = "rollback" /\ proc[p].pc \in {"delete", "confirm"}
      /\ proc[p].cur \in Keys
      /\ proc'[p].pc \in {"delete", "confirm", "rb_mark"}
      /\ proc'[p].cursor = proc[p].cursor /\ proc'[p].cur = proc[p].cur
  BY DeleteAnsweredDoes, DeleteLostDoes, RollbackConfirmDoes, RemovalFailedDoes, Typed, CommandOf
     DEF At, StageOK
<1>2. /\ Settled(p)' = Settled(p) /\ Pending(p)' = Pending(p) /\ Pending(p) \subseteq Keys
      /\ \A k \in Keys : svc'[k] = svc[k] \/ svc'[k] = Absent
  BY <1>1, SameCursor, DeleteAnsweredDoes, DeleteLostDoes, RollbackConfirmDoes,
     RemovalFailedDoes DEF Attempted, Silent, SameRows, Settled, Pending
<1>3. \A k \in Keys :
        /\ Created(p, k)' = Created(p, k) /\ Payload(p, k)' = Payload(p, k)
        /\ Fine(p, k) => Fine(p, k)'
        /\ svc'[k] = Absent => Fine(p, k)'
  BY <1>1, <1>2, UndoKeeps DEF SameCommand, Advance, Trouble, RollbackStep, RollbackTrouble
<1>4. OwnItems(p)'
  BY <1>1, <1>2, <1>3 DEF RollbackOK, OwnItems, Undoing, SameCommand
<1>5. SalesFine(p)'
  BY <1>1, <1>2, <1>3, RowsSplit DEF RollbackOK, SalesFine, SameCommand
<1>6. HandMatches(p)'
  <2>1. proc'[p].pc = "delete" => At(p, "delete")
    BY DeleteAnsweredDoes, DeleteLostDoes, RollbackConfirmDoes, RemovalFailedDoes
  <2> QED
    BY <1>1, <1>2, <1>3, <2>1 DEF RollbackOK, HandMatches, At
<1>7. ASSUME ~ proc'[p].bad, NEW k \in Handled(p)', k \in Settled(p), Created(p, k)
      PROVE  Fine(p, k)'
  <2>1. CASE k = proc[p].cur
    <3>1. proc'[p].pc = "rb_mark"
      BY <1>1, <1>7, <2>1 DEF Handled
    <3>2. RollbackConfirm(p) /\ svc[k] = Absent /\ svc' = svc
      BY <1>7, <2>1, <3>1, DeleteAnsweredDoes, DeleteLostDoes, RollbackConfirmDoes,
         RemovalFailedDoes DEF Silent, SameRows
    <3> QED
      BY <3>2, <2>1, <1>1, <1>3
  <2>2. CASE k # proc[p].cur
    <3>1. k \in Handled(p) /\ k \in Keys
      BY <1>1, <1>2, <1>7, <2>2 DEF Handled, SameCommand, Settled
    <3>2. Fine(p, k)
      BY <3>1, <1>1, <1>7 DEF RollbackOK, HandledFine, Undoing
    <3> QED
      BY <3>1, <3>2, <1>3
  <2> QED
    BY <2>1, <2>2
<1>8. HandledFine(p)'
  BY <1>2, <1>3, <1>7 DEF HandledFine, Settled
<1> QED
  BY <1>4, <1>5, <1>6, <1>8 DEF RollbackOK

LEMMA RollbackSalesDone ==
    ASSUME TypeOK, NEW p \in Procs, RollbackOK(p), InCommand(p), SalesDone(p)
    PROVE  RollbackOK(p)'
<1>1. /\ Silent /\ Settled(p)' = Settled(p) /\ Pending(p) = {} /\ ~ proc[p].bad
      /\ proc[p].pc = "rb_next" /\ proc[p].ent = "sale" /\ proc'[p].pc = "rb_open"
      /\ proc'[p].cmd = proc[p].cmd /\ proc'[p].run = proc[p].run
      /\ proc[p].cmd \in {"rollback", "dry"}
  BY SalesDoneDoes, CommandOf DEF At, Silent, Settled
<1>2. \A k \in Keys : /\ Created(p, k)' = Created(p, k)
                      /\ Fine(p, k) => Fine(p, k)'
  BY <1>1, UndoKeeps DEF Silent, SameRows, Advance, RollbackStep
<1>3. Handled(p) = Sales /\ Sales \subseteq Keys
  BY <1>1, RowsSplit DEF Handled
<1>4. \A s \in Sales \intersect Settled(p) : Created(p, s)' => Fine(p, s)'
  BY <1>1, <1>2, <1>3 DEF RollbackOK, HandledFine, Undoing
<1> QED
  BY <1>1, <1>4 DEF RollbackOK, OwnItems, HandMatches, SalesFine, HandledFine, Undoing, At

LEMMA RollbackInvStep ==
    ASSUME OneCommand, Base, [Next]_vars, NEW p \in Procs, RollbackOK(p)
    PROVE  RollbackOK(p)'
<1>1. TypeOK /\ InCommand(p) /\ TypeOK' /\ InCommand(p)'
  BY BaseStep DEF Base, Control
<1>2. CASE UNCHANGED <<proc, status, items>> /\ Undisturbed(p)
  BY <1>1, <1>2, RollbackElsewhere
<1>3. CASE Start(p)
  <2>1. PICK cmd, r, ent, stage : /\ Begin(p, cmd, r, ent, stage)
                                  /\ stage \in {"import_open", "count", "rb_open"}
                                  /\ cmd \notin {"rollback", "dry"} \/ ent # "user"
    BY <1>1, <1>3, StartDoes
  <2> QED
    BY <2>1, <1>1, BeginDoes, RollbackIdle DEF Undoing
<1>4. CASE \/ RollbackOpen(p) \/ RollbackRead(p) \/ RollbackReadLost(p) \/ RollbackMark(p)
           \/ DeleteAnswered(p) \/ DeleteLost(p) \/ RollbackConfirm(p) \/ RemovalFailed(p)
           \/ SalesDone(p)
  BY <1>1, <1>4, RollbackLoops, RollbackRemoves, RollbackSalesDone
<1>5. CASE Finalize(p) \/ Report(p) \/ Abort(p) \/ Crash(p) \/ RollbackEnd(p)
  BY <1>1, <1>5, EndDoes, RollbackIdle DEF IdleProcess, Undoing
<1>6. CASE SnapshotStep(p) \/ SnapshotTrouble(p)
  <2>1. CASE Finalize(p) \/ Report(p) \/ Abort(p)
    BY <1>5, <2>1
  <2>2. CASE ~ (Finalize(p) \/ Report(p) \/ Abort(p))
    <3>1. proc'[p].pc \notin {"idle", "rb_open"} \union Undoing
      <4>1. CASE \/ ImportOpen(p) \/ ImportSkip(p) \/ ImportBegin(p) \/ PostAnswered(p)
                 \/ PostLost(p) \/ PostRefused(p) \/ ImportUpsert(p) \/ ImportEnd(p)
        BY <1>1, <4>1, ImportStepDoes, ImportEndDoes DEF Undoing
      <4>2. CASE \/ CountLegacy(p) \/ CheckOpen(p) \/ CheckRow(p) \/ CheckRowLost(p)
                 \/ CheckItem(p) \/ CheckMark(p) \/ CheckEnd(p)
        BY <1>1, <4>2, CountLegacyDoes, CheckOpenDoes, CheckRowDoes, CheckRowLostDoes,
           CheckItemDoes, CheckMarkDoes, CheckEndDoes DEF Undoing
      <4>3. CASE RefsOpen(p) \/ RefsGet(p) \/ RefsGetLost(p) \/ RefsEnd(p)
        BY <1>1, <4>3, RefsOpenDoes, RefsGetDoes, RefsGetLostDoes, RefsEndDoes DEF Undoing
      <4> QED
        BY <1>6, <2>2, <4>1, <4>2, <4>3 DEF SnapshotStep, SnapshotTrouble
    <3>2. proc'[p].cmd \notin {"rollback", "dry"}
      BY <1>1, <3>1 DEF InCommand, StagesOf, Undoing
    <3> QED
      BY <3>1, <3>2, RollbackIdle
  <2> QED
    BY <2>1, <2>2
<1>7. Start(p) \/ Advance(p) \/ Trouble(p) \/ (UNCHANGED <<proc, status, items>> /\ Undisturbed(p))
  BY <1>1, OneStep
<1> QED
  BY <1>2, <1>3, <1>4, <1>5, <1>6, <1>7 DEF Advance, Trouble, RollbackStep, RollbackTrouble

RollbackInv == \A p \in Procs : RollbackOK(p)

LEMMA RollbackAlways == OneCommand => (Spec => [](Base /\ RollbackInv))
<1> SUFFICES ASSUME OneCommand PROVE Spec => [](Base /\ RollbackInv)
  OBVIOUS
<1>1. Init => RollbackInv
  BY DEF Init, IdleProcess, RollbackInv, RollbackOK, OwnItems, HandMatches, SalesFine,
         HandledFine, Undoing, At
<1>2. Base /\ RollbackInv /\ [Next]_vars => RollbackInv'
  BY RollbackInvStep DEF RollbackInv
<1> QED
  BY <1>1, <1>2, BaseAlways, PTL DEF Spec

(* A rollback or a dry run that ends with nothing unresolved leaves its rows fine. *)
LEMMA ResolvedIsFine ==
    ASSUME TypeOK, NEW p \in Procs, RollbackOK(p), RollbackEnd(p), ~ proc[p].bad,
           proc[p].cmd \in {"rollback", "dry"}, NEW k \in Settled(p), Created(p, k)
    PROVE  Fine(p, k)
<1>1. proc[p].pc = "rb_next" /\ Pending(p) = {} /\ proc[p].ent # "sale" /\ k \in Keys
  BY RollbackEndDoes DEF At, Settled
<1>2. proc[p].ent = "user"
  BY <1>1, Typed DEF Process, EntityType
<1>3. Handled(p) = Users
  BY <1>1, <1>2, RowsSplit DEF Handled
<1>4. CASE k \in Sales
  BY <1>2, <1>4 DEF RollbackOK, SalesFine
<1>5. CASE k \in Users
  BY <1>1, <1>3, <1>5 DEF RollbackOK, HandledFine, Undoing
<1> QED
  BY <1>1, <1>4, <1>5, RowsSplit

(* A rollback of one command at a time writes ROLLED_BACK only when no row its run
   created is left, but for rows others wrote since it began. *)
THEOREM RolledBackIsCleanHolds == OneCommand => (Spec => RolledBackIsClean)
<1> SUFFICES ASSUME OneCommand PROVE Spec => RolledBackIsClean
  OBVIOUS
<1>1. ASSUME Base, RollbackInv, [Next]_vars, NEW p \in Procs, proc[p].cmd = "rollback",
             status'[proc[p].run] = "ROLLED_BACK", status[proc[p].run] # "ROLLED_BACK",
             NEW k \in Settled(p), items[proc[p].run][k].action = "created"
      PROVE  svc[k] = Absent
  <2>1. TypeOK /\ InCommand(p) /\ RollbackOK(p) /\ k \in Keys /\ proc[p].run \in Runs
    BY <1>1, Typed DEF Base, Control, RollbackInv, Settled, StageOK
  <2>2. ~ Imports(p) /\ ~ At(p, "idle") /\ ~ Dry(p)
        /\ proc[p].pc \notin {"import_next", "check_next", "refs_next", "fail", "complete"}
    BY <1>1, <2>1, CommandOf DEF Imports, At, Dry, Verifying
  <2>3. ~ Start(p)
    BY <2>1, <2>2, StartDoes, BeginDoes
  <2>4. RollbackEnd(p)
    BY <1>1, <2>1, <2>2, <2>3, OneStep, WhoWrites, ImportEndDoes, CheckEndDoes, RefsEndDoes,
       FinalizeDoes, AbortDoes DEF At
  <2>5. ~ proc[p].bad
    BY <1>1, <2>1, <2>2, <2>4, RollbackEndDoes, Typed
  <2>6. Fine(p, k)
    BY <1>1, <2>1, <2>4, <2>5, ResolvedIsFine DEF Created
  <2> QED
    BY <2>2, <2>6 DEF Fine
<1>2. Base /\ RollbackInv /\ [Next]_vars =>
        [\A p \in Procs :
           /\ proc[p].cmd = "rollback"
           /\ status'[proc[p].run] = "ROLLED_BACK"
           /\ status[proc[p].run] # "ROLLED_BACK"
           => \A k \in Settled(p) :
                  items[proc[p].run][k].action = "created" => svc[k] = Absent]_vars
  BY <1>1
<1> QED
  BY <1>2, RollbackAlways, PTL DEF Spec, RolledBackIsClean

(* With one command at a time a user is deleted only when no sale its run created is
   left, but for sales others wrote since the rollback began. *)
THEOREM UsersDeletedLastHolds == OneCommand => (Spec => []UsersDeletedLast)
<1> SUFFICES ASSUME OneCommand PROVE Spec => []UsersDeletedLast
  OBVIOUS
<1>1. ASSUME Base, RollbackInv, NEW p \in Procs, At(p, "delete"), proc[p].ent = "user",
             NEW s \in Sales \intersect Settled(p), items[proc[p].run][s].action = "created"
      PROVE  svc[s] = Absent
  <2>1. proc[p].cmd = "rollback"
    BY <1>1, CommandOf DEF Base, Control, At
  <2>2. Fine(p, s)
    BY <1>1, <2>1 DEF RollbackInv, RollbackOK, SalesFine, Created
  <2> QED
    BY <2>1, <2>2 DEF Fine, Dry
<1>2. Base /\ RollbackInv => UsersDeletedLast
  BY <1>1 DEF UsersDeletedLast
<1> QED
  BY <1>2, RollbackAlways, PTL

(* With one command at a time every attempt to delete a row nobody else wrote since the
   rollback began finds it as the run sent it, or already gone. *)
THEOREM DriftedRowsStayHolds == OneCommand => (Spec => []DriftedRowsStay)
<1> SUFFICES ASSUME OneCommand PROVE Spec => []DriftedRowsStay
  OBVIOUS
<1>1. Base /\ RollbackInv => DriftedRowsStay
  BY DEF DriftedRowsStay, RollbackInv, RollbackOK, HandMatches, Payload
<1> QED
  BY <1>1, RollbackAlways, PTL

(* With one command at a time a dry run that ends with nothing unresolved leaves no
   conflict to the rollback that follows, but for rows others wrote since it began. *)
THEOREM DryRunForetellsHolds == OneCommand => (Spec => DryRunForetells)
<1> SUFFICES ASSUME OneCommand PROVE Spec => DryRunForetells
  OBVIOUS
<1>1. ASSUME Base, RollbackInv, NEW p \in Procs, Dry(p), RollbackEnd(p), ~ proc[p].bad,
             NEW k \in Settled(p), items[proc[p].run][k].action = "created"
      PROVE  svc[k] \in {items[proc[p].run][k].payload, Absent}
  <2>1. TypeOK /\ RollbackOK(p)
    BY <1>1 DEF Base, RollbackInv
  <2>2. Fine(p, k)
    BY <1>1, <2>1, ResolvedIsFine DEF Created, Dry
  <2> QED
    BY <2>2 DEF Fine, Payload
<1>2. Base /\ RollbackInv /\ [Next]_vars =>
        [\A p \in Procs :
           Dry(p) /\ RollbackEnd(p) /\ ~ proc[p].bad =>
             \A k \in Settled(p) :
                 LET item == items[proc[p].run][k] IN
                 item.action = "created" => svc[k] \in {item.payload, Absent}]_vars
  BY <1>1
<1> QED
  BY <1>2, RollbackAlways, PTL DEF Spec, DryRunForetells

(***************************************************************************)
(* What a COMPLETED run records.                                           *)
(***************************************************************************)
IsValidated(p, k) ==
    /\ items[proc[p].run][k].status = "validated"
    /\ items[proc[p].run][k].action \in {"created", "unchanged"}
Done(p, k) == AlreadyDone(items[proc[p].run][k])

(* The rows the import of the table has handled; the rows that were marked after
   they were found to agree, the users before the sales. *)
Taken(p) ==
    IF proc[p].pc \in {"import_next", "post", "upsert"} THEN Rows(proc[p].ent) \ Pending(p)
    ELSE IF proc[p].pc \in {"count", "check_open", "check_next", "check_item", "check_mark"}
    THEN Rows(proc[p].ent)
    ELSE {}
Marking == {"check_item", "check_mark"}
ToMark(p) == IF proc[p].pc \in Marking THEN {proc[p].cur} ELSE {}
Marked(p) ==
    IF proc[p].pc \in Early THEN Earlier(p)
    ELSE IF proc[p].pc \in Comparing
    THEN Earlier(p) \union ((Rows(proc[p].ent) \ Pending(p)) \ ToMark(p))
    ELSE IF proc[p].pc \in Compared THEN Keys
    ELSE {}

TakenDone(p) ==
    Imports(p) /\ ~ proc[p].bad =>
        \A k \in Taken(p) \intersect Settled(p) : legacy[k] # Absent => Done(p, k)
MarkedValidated(p) ==
    Imports(p) /\ ~ proc[p].bad =>
        \A k \in Marked(p) \intersect Settled(p) : legacy[k] # Absent => IsValidated(p, k)
HandInTable(p) ==
    Imports(p) /\ proc[p].pc \in Marking => proc[p].cur \in Rows(proc[p].ent)
CompleteIsGood(p) == At(p, "complete") => ~ proc[p].bad

RecordedOK(p) == TakenDone(p) /\ MarkedValidated(p) /\ HandInTable(p) /\ CompleteIsGood(p)

(* A process that has marked and imported nothing. *)
LEMMA RecordedIdle ==
    ASSUME NEW p \in Procs, proc'[p].pc # "complete",
           \/ proc'[p].cmd # "snapshot" \/ proc'[p].pc = "fail"
           \/ proc'[p].pc = "import_open" /\ proc'[p].ent = "user"
    PROVE  RecordedOK(p)'
BY Groups
   DEF RecordedOK, TakenDone, MarkedValidated, HandInTable, CompleteIsGood, Taken, Marked,
       Marking, Earlier, Imports, At, Early

LEMMA RecordedElsewhere ==
    ASSUME TypeOK, NEW p \in Procs, RecordedOK(p), UNCHANGED <<proc, items>>, Undisturbed(p)
    PROVE  RecordedOK(p)'
<1>1. /\ Taken(p)' = Taken(p) /\ Marked(p)' = Marked(p) /\ Imports(p)' = Imports(p)
      /\ \A k \in Keys : Done(p, k)' = Done(p, k) /\ IsValidated(p, k)' = IsValidated(p, k)
  BY SameCursor DEF Taken, Marked, ToMark, Marking, Earlier, Pending, Imports, At, Done,
     IsValidated,
                        AlreadyDone
<1>2. Settled(p)' \subseteq Settled(p) /\ Settled(p)' \subseteq Keys
      /\ \A k \in Settled(p)' : legacy'[k] = legacy[k]
  BY DEF Undisturbed, Settled
<1>3. TakenDone(p)' /\ MarkedValidated(p)'
  BY <1>1, <1>2 DEF RecordedOK, TakenDone, MarkedValidated
<1>4. HandInTable(p)' /\ CompleteIsGood(p)'
  BY DEF RecordedOK, HandInTable, CompleteIsGood, Marking, At, Imports
<1> QED
  BY <1>3, <1>4 DEF RecordedOK

(* An import step of p: what it imported and marked stays so, but for the item it
   writes after a row was sent. *)
LEMMA RecordsKept ==
    ASSUME TypeOK, NEW p \in Procs, Imports(p), Imports(p)', proc'[p].run = proc[p].run,
           Advance(p) \/ Trouble(p), NEW k \in Keys, ~ (ImportUpsert(p) /\ k = proc[p].cur)
    PROVE  /\ Done(p, k) => Done(p, k)'
           /\ IsValidated(p, k) => IsValidated(p, k)'
<1>1. proc[p].run \in Runs
  BY Typed DEF StageOK, Imports
<1>2. ~ RollbackMark(p)
  BY Typed DEF StageOK, RollbackMark, At, Imports
<1>3. \/ items'[proc[p].run][k] = items[proc[p].run][k]
      \/ /\ items'[proc[p].run][k].status = "validated"
         /\ items'[proc[p].run][k].action = items[proc[p].run][k].action
  BY <1>1, <1>2, ItemAfter
<1> QED
  BY <1>3 DEF Done, IsValidated, AlreadyDone

(* The rows p relies on change in no step of its own command. *)
LEMMA OwnRows ==
    ASSUME TypeOK, NEW p \in Procs, Advance(p) \/ Trouble(p), ~ Start(p)
    PROVE  Settled(p)' = Settled(p) /\ legacy' = legacy
<1>1. CASE Sends(p)
  BY <1>1, PostAnsweredDoes, PostLostDoes, DeleteAnsweredDoes, DeleteLostDoes
     DEF Sends, Attempted, Settled
<1>2. CASE ~ Sends(p)
  BY <1>2, WhoWrites DEF SameRows, Settled
<1> QED
  BY <1>1, <1>2

(* What is left to show of a step: which rows it adds to the two sets. *)
LEMMA RecordedGrows ==
    ASSUME TypeOK, NEW p \in Procs, RecordedOK(p), Advance(p) \/ Trouble(p), ~ Start(p),
           proc'[p].cmd = proc[p].cmd, proc'[p].run = proc[p].run,
           ~ proc'[p].bad => ~ proc[p].bad,
           \A k \in Settled(p) : ~ proc'[p].bad /\ legacy[k] # Absent =>
               /\ k \in Taken(p)' =>
                      Done(p, k)' \/ (k \in Taken(p) /\ ~ (ImportUpsert(p) /\ k = proc[p].cur))
               /\ k \in Marked(p)' =>
                      \/ IsValidated(p, k)'
                      \/ k \in Marked(p) /\ ~ (ImportUpsert(p) /\ k = proc[p].cur)
    PROVE  TakenDone(p)' /\ MarkedValidated(p)'
<1>1. Settled(p)' = Settled(p) /\ legacy' = legacy /\ Settled(p) \subseteq Keys
      /\ Imports(p)' = Imports(p)
  BY OwnRows DEF Settled, Imports
<1>2. ASSUME Imports(p), ~ proc'[p].bad, NEW k \in Settled(p), legacy[k] # Absent
      PROVE  /\ k \in Taken(p)' => Done(p, k)'
             /\ k \in Marked(p)' => IsValidated(p, k)'
  <2>1. /\ k \in Taken(p) => Done(p, k)
        /\ k \in Marked(p) => IsValidated(p, k)
    BY <1>2 DEF RecordedOK, TakenDone, MarkedValidated
  <2> QED
    BY <1>1, <1>2, <2>1, RecordsKept
<1> QED
  BY <1>1, <1>2 DEF TakenDone, MarkedValidated

LEMMA RecordedImport ==
    ASSUME TypeOK, NEW p \in Procs, RecordedOK(p), VerdictOK(p),
           \/ ImportOpen(p) \/ ImportSkip(p) \/ ImportBegin(p) \/ PostAnswered(p) \/ PostLost(p)
           \/ PostRefused(p) \/ ImportUpsert(p)
    PROVE  RecordedOK(p)'
<1>1. /\ SameCommand(p) /\ (~ proc'[p].bad => ~ proc[p].bad)
      /\ proc[p].pc \in {"import_open", "import_next", "post", "upsert"}
      /\ proc'[p].pc \in {"import_next", "post", "upsert"}
  BY ImportStepDoes
<1>2. ~ Start(p) /\ (Advance(p) \/ Trouble(p))
  BY <1>1, StartDoes, BeginDoes
     DEF At, Advance, Trouble, SnapshotStep, SnapshotTrouble
<1>3. Marked(p)' = Marked(p) /\ Marked(p) = Earlier(p)
  BY <1>1 DEF Marked, Early, Earlier, SameCommand
<1>4. Taken(p)' = Rows(proc[p].ent) \ Pending(p)'
  BY <1>1 DEF Taken, SameCommand
<1>5. proc[p].pc # "import_open" => Taken(p) = Rows(proc[p].ent) \ Pending(p)
  BY <1>1 DEF Taken
<1>6. ASSUME NEW k \in Keys, ~ proc'[p].bad, legacy[k] # Absent, k \in Taken(p)'
      PROVE  Done(p, k)' \/ (k \in Taken(p) /\ ~ (ImportUpsert(p) /\ k = proc[p].cur))
  <2>1. k \in Rows(proc[p].ent) /\ k \notin Pending(p)'
    BY <1>4, <1>6
  <2>2. CASE ImportOpen(p)
    BY <2>1, <2>2, <1>6, ImportOpenDoes, Selects, Typed
  <2>3. CASE ImportSkip(p)
    <3>1. PICK j \in Pending(p) : AlreadyDone(items[proc[p].run][j]) /\ proc'[p].cursor = Drop(p, j)
      BY <2>3, ImportSkipDoes
    <3>2. CASE j = k
      BY <3>1, <3>2, <2>3, ImportSkipDoes DEF Done, SameCommand
    <3>3. CASE j # k
      <4>1. ~ ImportUpsert(p) /\ proc[p].pc # "import_open"
        BY <2>3, ImportSkipDoes, ImportUpsertDoes DEF At
      <4> QED
        BY <4>1, <3>1, <3>3, <2>1, <1>5, DropsOne
    <3> QED
      BY <3>2, <3>3
  <2>4. CASE ImportBegin(p) \/ PostAnswered(p) \/ PostLost(p) \/ PostRefused(p)
    <3>1. /\ Pending(p)' = Pending(p) /\ ~ ImportUpsert(p) /\ proc[p].pc # "import_open"
      BY <2>4, ImportBeginDoes, PostAnsweredDoes, PostLostDoes, PostRefusedDoes, SameCursor,
         ImportUpsertDoes DEF At
    <3> QED
      BY <3>1, <2>1, <1>5
  <2>5. CASE ImportUpsert(p)
    <3>1. /\ proc'[p].cursor = Drop(p, proc[p].cur) /\ proc[p].pc # "import_open"
          /\ proc[p].ans \notin {"conflict", "failed"} /\ proc[p].ans \in ImportAction
          /\ proc[p].run \in Runs
      BY <2>5, <1>6, ImportUpsertDoes, Typed DEF At, StageOK
    <3>2. CASE k = proc[p].cur
      <4> DEFINE new == UpsertedItem(proc[p].ans, proc[p].cursor[proc[p].cur])
      <4>1. items' = [items EXCEPT ![proc[p].run][proc[p].cur] = new]
        BY <2>5, ImportUpsertDoes
      <4>2. AlreadyDone(new)
        BY <3>1 DEF UpsertedItem, AlreadyDone, ImportAction
      <4> HIDE DEF new
      <4>3. items'[proc[p].run][k] = new
        BY <3>1, <3>2, <4>1, Typed
      <4> QED
        BY <4>2, <4>3, <1>1 DEF Done, SameCommand
    <3>3. CASE k # proc[p].cur
      BY <3>1, <3>3, <2>1, <1>5, DropsOne
    <3> QED
      BY <3>2, <3>3
  <2> QED
    BY <2>2, <2>3, <2>4, <2>5
<1>7. ASSUME NEW k \in Marked(p) PROVE ~ (ImportUpsert(p) /\ k = proc[p].cur)
  <2>1. k \in Users /\ proc[p].ent = "sale"
    BY <1>3, <1>7 DEF Earlier
  <2>2. ImportUpsert(p) => proc[p].cur \in Pending(p)
    BY ImportUpsertDoes, Typed, ValuesAssumption DEF StageOK, Pending, At
  <2>3. ImportUpsert(p) => Pending(p) \subseteq Sales
    BY <2>1, ImportUpsertDoes, RowsSplit DEF VerdictOK, OwnTable, Looping, At
  <2> QED
    BY <2>1, <2>2, <2>3, KeysAssumption
<1>8. TakenDone(p)' /\ MarkedValidated(p)'
  <2>1. Settled(p) \subseteq Keys
    BY DEF Settled
  <2> QED
    BY <2>1, <1>1, <1>2, <1>3, <1>6, <1>7, RecordedGrows DEF SameCommand
<1> QED
  BY <1>1, <1>8 DEF RecordedOK, HandInTable, CompleteIsGood, Marking, At

LEMMA RecordedCheck ==
    ASSUME TypeOK, NEW p \in Procs, RecordedOK(p), VerdictOK(p), Imports(p),
           \/ ImportEnd(p) \/ CountLegacy(p) \/ CheckOpen(p) \/ CheckRow(p) \/ CheckRowLost(p)
           \/ CheckItem(p) \/ CheckMark(p)
    PROVE  RecordedOK(p)'
<1>1. /\ SameCommand(p) /\ (~ proc'[p].bad => ~ proc[p].bad) /\ Silent
      /\ proc[p].pc \in {"import_next", "count", "check_open", "check_next"} \union Marking
      /\ proc'[p].pc \in {"fail", "count", "check_open", "check_next"} \union Marking
  BY ImportEndDoes, CountLegacyDoes, CheckOpenDoes, CheckRowDoes, CheckRowLostDoes,
     CheckItemDoes, CheckMarkDoes DEF At, Marking
<1>2. ~ Start(p) /\ (Advance(p) \/ Trouble(p)) /\ ~ ImportUpsert(p)
  BY <1>1, StartDoes, BeginDoes
     DEF At, Marking, Advance, Trouble, SnapshotStep, SnapshotTrouble, ImportUpsert
<1>3. CASE proc'[p].pc = "fail"
  BY <1>3, RecordedIdle
<1>4. CASE proc'[p].pc # "fail"
  <2>1. Taken(p)' = Taken(p)
    <3>1. Taken(p)' = Rows(proc[p].ent)
      BY <1>1, <1>4 DEF Taken, Marking, SameCommand
    <3>2. proc[p].pc = "import_next" => Pending(p) = {}
      BY <1>1, ImportEndDoes, CountLegacyDoes, CheckOpenDoes, CheckRowDoes, CheckRowLostDoes,
         CheckItemDoes, CheckMarkDoes DEF At
    <3>3. Taken(p) = Rows(proc[p].ent)
      BY <1>1, <3>2 DEF Taken, Marking
    <3> QED
      BY <3>1, <3>3
  <2>2. ASSUME NEW k \in Settled(p), k \in Keys, ~ proc'[p].bad, legacy[k] # Absent,
               k \in Marked(p)'
        PROVE  IsValidated(p, k)' \/ k \in Marked(p)
    <3>1. CASE ImportEnd(p) \/ CountLegacy(p)
      <4>1. proc[p].pc \in Early /\ proc'[p].pc \in Early
        BY <3>1, <1>4, ImportEndDoes, CountLegacyDoes DEF Early, At
      <4> QED
        BY <4>1, <2>2, <1>1 DEF Marked, Earlier, SameCommand
    <3>2. CASE CheckOpen(p)
      <4>1. /\ proc[p].pc \in Early /\ proc'[p].pc = "check_next"
            /\ Pending(p)' = {j \in Keys : j \in Rows(proc[p].ent) /\ legacy[j] # Absent}
        BY <3>2, CheckOpenDoes, Selects, Typed DEF Early, At
      <4>2. k \in Earlier(p)
        BY <4>1, <2>2, <1>1, Groups DEF Marked, Earlier, SameCommand, Comparing, Early
      <4> QED
        BY <4>1, <4>2 DEF Marked
    <3>3. CASE CheckRow(p)
      <4>1. PICK j \in Pending(p) :
              /\ proc'[p].cursor = Drop(p, j)
              /\ proc'[p].pc = "check_item" /\ proc'[p].cur = j /\ At(p, "check_next")
        BY <3>3, <2>2, CheckRowDoes
      <4>2. Pending(p)' = Pending(p) \ {j}
        BY <4>1, DropsOne
      <4> QED
        BY <4>1, <4>2, <2>2, <1>1, Groups
           DEF Marked, ToMark, Marking, Earlier, SameCommand, At, Comparing
    <3>4. CASE CheckRowLost(p)
      BY <3>4, <2>2, CheckRowLostDoes
    <3>5. (CheckItem(p) \/ CheckMark(p)) /\ k = proc[p].cur => Done(p, k)
      <4>1. CheckItem(p) \/ CheckMark(p) => proc[p].pc \in Marking
        BY CheckItemDoes, CheckMarkDoes DEF Marking, At
      <4>2. (CheckItem(p) \/ CheckMark(p)) /\ k = proc[p].cur => k \in Taken(p)
        BY <4>1 DEF RecordedOK, HandInTable, Taken, Marking
      <4> QED
        BY <4>2, <2>2, <1>1 DEF RecordedOK, TakenDone
    <3>6. proc[p].run \in Runs
      BY Typed DEF StageOK, Imports
    <3>7. CASE CheckItem(p)
      <4>1. /\ proc[p].pc = "check_item" /\ Pending(p)' = Pending(p)
            /\ \/ proc'[p].pc = "check_mark" /\ proc'[p].cur = proc[p].cur
               \/ proc'[p].pc = "check_next" /\ ~ Markable(proc[p].run, proc[p].cur)
        BY <3>7, CheckItemDoes, SameCursor DEF At
      <4>2. Done(p, k) => Markable(proc[p].run, k)
        BY <3>6, RunsAssumption DEF Done, AlreadyDone, Markable
      <4>3. CASE proc'[p].pc = "check_mark"
        BY <4>1, <4>3, <2>2, <1>1, Groups
           DEF Marked, ToMark, Marking, Earlier, SameCommand, Comparing
      <4>4. CASE proc'[p].pc = "check_next"
        <5>1. k # proc[p].cur
          BY <4>1, <4>2, <4>4, <3>5, <3>7
        <5> QED
          BY <4>1, <4>4, <5>1, <2>2, <1>1, Groups
             DEF Marked, ToMark, Marking, Earlier, SameCommand, Comparing
      <4> QED
        BY <4>1, <4>3, <4>4
    <3>8. CASE CheckMark(p)
      <4>1. /\ proc'[p].pc = "check_next" /\ proc[p].pc = "check_mark" /\ Pending(p)' = Pending(p)
            /\ Records(proc[p].run, proc[p].cur, "validated")
        BY <3>8, CheckMarkDoes, SameCursor DEF At
      <4>2. k \in Marked(p) \/ k = proc[p].cur
        BY <4>1, <2>2, <1>1, Groups
           DEF Marked, ToMark, Marking, Earlier, SameCommand, Comparing
      <4>3. CASE k = proc[p].cur
        <5>1. /\ items'[proc[p].run][k].action = items[proc[p].run][k].action
              /\ items'[proc[p].run][k].status = "validated"
          BY <2>2, <3>6, <4>1, <4>3, MarkKeeps
        <5> QED
          BY <3>5, <3>8, <4>3, <5>1, <1>1 DEF Done, AlreadyDone, IsValidated, SameCommand
      <4> QED
        BY <4>2, <4>3
    <3> QED
      BY <3>1, <3>2, <3>3, <3>4, <3>7, <3>8
  <2>3. TakenDone(p)' /\ MarkedValidated(p)'
    <3>1. Settled(p) \subseteq Keys
      BY DEF Settled
    <3> QED
      BY <3>1, <1>1, <1>2, <2>1, <2>2, RecordedGrows DEF SameCommand
  <2>4. HandInTable(p)'
    <3>1. CASE proc'[p].pc \in Marking
      <4>1. \/ proc'[p].cur \in Pending(p) /\ proc[p].pc = "check_next"
            \/ proc'[p].cur = proc[p].cur /\ proc[p].pc \in Marking
        BY <3>1, ImportEndDoes, CountLegacyDoes, CheckOpenDoes, CheckRowDoes, CheckRowLostDoes,
           CheckItemDoes, CheckMarkDoes DEF At, Marking
      <4>2. CASE proc'[p].cur \in Pending(p) /\ proc[p].pc = "check_next"
        BY <4>2, <1>1 DEF VerdictOK, OwnTable, Looping, HandInTable, SameCommand
      <4>3. CASE proc'[p].cur = proc[p].cur /\ proc[p].pc \in Marking
        BY <4>3, <1>1 DEF RecordedOK, HandInTable, SameCommand
      <4> QED
        BY <4>1, <4>2, <4>3
    <3>2. CASE proc'[p].pc \notin Marking
      BY <3>2 DEF HandInTable
    <3> QED
      BY <3>1, <3>2
  <2> QED
    BY <1>1, <2>3, <2>4 DEF RecordedOK, CompleteIsGood, Marking, At
<1> QED
  BY <1>3, <1>4

LEMMA RecordedCheckEnd ==
    ASSUME TypeOK, NEW p \in Procs, RecordedOK(p), Imports(p), CheckEnd(p)
    PROVE  RecordedOK(p)'
<1>1. /\ proc[p].pc = "check_next" /\ Pending(p) = {} /\ proc'[p].ent = "sale"
      /\ proc'[p].cmd = proc[p].cmd /\ proc'[p].run = proc[p].run /\ ~ ImportUpsert(p)
      /\ proc'[p].pc = IF Mismatch(p) THEN "fail"
                       ELSE IF proc[p].ent = "sale" THEN "refs_open" ELSE "import_open"
      /\ ~ proc'[p].bad => ~ proc[p].bad
  BY CheckEndDoes DEF At, ImportUpsert, Mismatch
<1>2. ~ Start(p) /\ Advance(p)
  BY <1>1, StartDoes, BeginDoes DEF At, Advance, SnapshotStep
<1>3. CASE proc'[p].pc = "fail"
  BY <1>3, RecordedIdle
<1>4. CASE proc'[p].pc # "fail"
  <2>1. proc[p].ent \in {"user", "sale"}
    BY Typed DEF Process, EntityType
  <2>2. Marked(p) = Earlier(p) \union Rows(proc[p].ent)
    BY <1>1, Groups DEF Marked, ToMark, Marking, At, Comparing
  <2>3. Marked(p)' \subseteq Marked(p) /\ Taken(p)' = {}
    <3>1. CASE proc[p].ent = "sale"
      BY <1>1, <1>4, <2>2, <3>1, Groups, RowsSplit DEF Marked, Taken, Compared, Earlier
    <3>2. CASE proc[p].ent = "user"
      BY <1>1, <1>4, <2>2, <3>2, RowsSplit DEF Marked, Taken, Early, Earlier
    <3> QED
      BY <2>1, <3>1, <3>2
  <2>4. TakenDone(p)' /\ MarkedValidated(p)'
    BY <1>1, <1>2, <2>3, RecordedGrows
  <2> QED
    BY <1>1, <2>4 DEF RecordedOK, HandInTable, CompleteIsGood, Marking, At
<1> QED
  BY <1>3, <1>4

LEMMA RecordedRefs ==
    ASSUME TypeOK, NEW p \in Procs, RecordedOK(p), Imports(p),
           RefsOpen(p) \/ RefsGet(p) \/ RefsGetLost(p) \/ RefsEnd(p)
    PROVE  RecordedOK(p)'
<1>1. /\ SameCommand(p) /\ (~ proc'[p].bad => ~ proc[p].bad)
      /\ proc[p].pc \in {"refs_open", "refs_next"}
      /\ \/ proc'[p].pc \in {"refs_next", "fail"}
         \/ proc'[p].pc = "complete" /\ ~ proc'[p].bad
  BY RefsOpenDoes, RefsGetDoes, RefsGetLostDoes, RefsEndDoes DEF At
<1>2. ~ Start(p) /\ (Advance(p) \/ Trouble(p)) /\ ~ ImportUpsert(p)
  BY <1>1, StartDoes, BeginDoes
     DEF At, Advance, Trouble, SnapshotStep, SnapshotTrouble, ImportUpsert
<1>3. CASE proc'[p].pc = "fail"
  BY <1>3, RecordedIdle
<1>4. CASE proc'[p].pc # "fail"
  <2>1. Marked(p) = Keys /\ Taken(p)' = {}
    BY <1>1, <1>4, Groups DEF Marked, Taken, Compared
  <2>2. TakenDone(p)' /\ MarkedValidated(p)'
    BY <1>1, <1>2, <2>1, RecordedGrows DEF SameCommand, Settled
  <2> QED
    BY <1>1, <2>2 DEF RecordedOK, HandInTable, CompleteIsGood, Marking, At
<1> QED
  BY <1>3, <1>4

LEMMA RecordedStep ==
    ASSUME OneCommand, Base, [Next]_vars, NEW p \in Procs, RecordedOK(p)
    PROVE  RecordedOK(p)'
<1>1. TypeOK /\ InCommand(p) /\ VerdictOK(p) /\ InCommand(p)'
  BY BaseStep DEF Base, Control, VerdictInv
<1>2. CASE UNCHANGED <<proc, status, items>> /\ Undisturbed(p)
  BY <1>1, <1>2, RecordedElsewhere
<1>3. CASE Start(p)
  <2>1. PICK cmd, r, ent, stage : /\ Begin(p, cmd, r, ent, stage)
                                  /\ stage \in {"import_open", "count", "rb_open"}
                                  /\ cmd # "snapshot" \/ (stage = "import_open" /\ ent = "user")
    BY <1>1, <1>3, StartDoes
  <2> QED
    BY <2>1, <1>1, BeginDoes, RecordedIdle
<1>4. CASE Stops(p)
  BY <1>1, <1>4, EndDoes, RecordedIdle DEF Stops, IdleProcess
<1>5. CASE /\ Advance(p) \/ Trouble(p)
           /\ ~ Stops(p) /\ ~ Start(p)
  <2>1. proc'[p].cmd = proc[p].cmd
    BY <1>1, <1>5, SameJob
  <2>2. CASE Imports(p)
    <3>1. ~ RollbackStep(p) /\ ~ RollbackTrouble(p)
      BY <1>1, <2>2, CommandOf
         DEF Imports, RollbackStep, RollbackTrouble, RollbackOpen, RollbackRead, DeleteAnswered,
             RollbackConfirm, RollbackMark, SalesDone, RollbackEnd, RollbackReadLost, DeleteLost,
             RemovalFailed, At
    <3> QED
      BY <1>1, <1>5, <2>2, <3>1, RecordedImport, RecordedCheck, RecordedCheckEnd, RecordedRefs
         DEF Advance, Trouble, SnapshotStep, SnapshotTrouble, Stops
  <2>3. CASE ~ Imports(p)
    <3>1. proc'[p].pc # "complete"
      <4>1. proc[p].cmd \in {"idle", "validate", "rollback", "dry"}
        BY <1>1, <2>3, Typed DEF Process, Imports
      <4> QED
        BY <1>1, <2>1, <4>1 DEF InCommand, StagesOf, Verifying
    <3> QED
      BY <2>1, <2>3, <3>1, RecordedIdle DEF Imports
  <2> QED
    BY <2>2, <2>3
<1> QED
  BY <1>1, <1>2, <1>3, <1>4, <1>5, OneStep

RecordedInv == \A p \in Procs : RecordedOK(p)

LEMMA RecordedAlways == OneCommand => (Spec => [](Base /\ RecordedInv))
<1> SUFFICES ASSUME OneCommand PROVE Spec => [](Base /\ RecordedInv)
  OBVIOUS
<1>1. Init => RecordedInv
  BY DEF Init, IdleProcess, RecordedInv, RecordedOK, TakenDone,
     MarkedValidated, HandInTable, CompleteIsGood, Marking, Imports, At
<1>2. Base /\ RecordedInv /\ [Next]_vars => RecordedInv'
  BY RecordedStep DEF RecordedInv
<1> QED
  BY <1>1, <1>2, BaseAlways, PTL DEF Spec

(* With one command at a time a run that becomes COMPLETED accounts for the legacy: an
   item, validated and created or unchanged, for every row nobody else wrote since. *)
THEOREM CompletedIsRecordedHolds == OneCommand => (Spec => []CompletedIsRecorded)
<1> SUFFICES ASSUME OneCommand PROVE Spec => []CompletedIsRecorded
  OBVIOUS
<1>1. ASSUME Base, RecordedInv, NEW p \in Procs, At(p, "complete"), NEW k \in Settled(p),
             legacy[k] # Absent
      PROVE  IsValidated(p, k)
  <2>1. Imports(p) /\ RecordedOK(p) /\ k \in Keys
    BY <1>1, CommandOf DEF Base, Control, RecordedInv, At, Imports, Settled
  <2>2. Marked(p) = Keys
    BY <1>1, Groups DEF Marked, At, Compared
  <2> QED
    BY <1>1, <2>1, <2>2 DEF RecordedOK, MarkedValidated, CompleteIsGood
<1>2. Base /\ RecordedInv => CompletedIsRecorded
  BY <1>1 DEF CompletedIsRecorded, IsValidated
<1> QED
  BY <1>2, RecordedAlways, PTL

(***************************************************************************)
(* Which rows and items belong to a run.                                   *)
(***************************************************************************)

(* A row is sent only while its item is not done. *)
SendsUndone(p) ==
    proc[p].pc \in {"post", "upsert"} => ~ AlreadyDone(items[proc[p].run][proc[p].cur])

(* What keeps a run from being driven, or rolled back, once more holds from the
   moment the command begins until it ends. *)
RunOpen(p) ==
    /\ proc[p].cmd = "snapshot" => status[proc[p].run] \notin ResumeBlocked \union {"none"}
    /\ proc[p].cmd = "rollback" => status[proc[p].run] \notin {"none", "ROLLED_BACK"}

(* What a rollback records of an item. *)
Undone == {"rolled_back", "rollback_conflict", "rollback_failed"}
MarksUndone(p) == At(p, "rb_mark") /\ ~ Dry(p) => proc[p].ans \in Undone

HolderOK(p) == SendsUndone(p) /\ RunOpen(p) /\ MarksUndone(p)
HolderInv == \A p \in Procs : HolderOK(p)

LEMMA SendsStep ==
    ASSUME TypeOK, TypeOK', NEW p \in Procs, SendsUndone(p), Start(p) \/ Advance(p) \/ Trouble(p)
    PROVE  SendsUndone(p)'
<1>1. CASE proc'[p].pc \in {"post", "upsert"}
  <2>1. ImportBegin(p) \/ PostAnswered(p) \/ PostLost(p) \/ PostRefused(p)
    BY <1>1, WhoSends
  <2>2. items' = items /\ proc'[p].run = proc[p].run
    BY <2>1, ImportBeginDoes, PostAnsweredDoes, PostLostDoes, PostRefusedDoes
       DEF SameCommand, Attempted
  <2>3. CASE ImportBegin(p)
    BY <2>2, <2>3, ImportBeginDoes DEF SendsUndone
  <2>4. CASE PostAnswered(p) \/ PostLost(p) \/ PostRefused(p)
    <3>1. proc'[p].cur = proc[p].cur /\ proc[p].pc = "post"
      BY <2>4, PostAnsweredDoes, PostLostDoes, PostRefusedDoes DEF At
    <3> QED
      BY <2>2, <3>1 DEF SendsUndone
  <2> QED
    BY <2>1, <2>3, <2>4
<1>2. CASE proc'[p].pc \notin {"post", "upsert"}
  BY <1>2 DEF SendsUndone
<1> QED
  BY <1>1, <1>2

LEMMA RunOpenStep ==
    ASSUME TypeOK, TypeOK', NEW p \in Procs, InCommand(p), RunOpen(p),
           Start(p) \/ Advance(p) \/ Trouble(p)
    PROVE  RunOpen(p)'
<1>1. CASE Start(p)
  <2>1. PICK r \in Runs \union {NoRun} :
             \/ /\ Begin(p, "snapshot", r, "user", "import_open") /\ r \in Runs
                /\ status[r] = "none" /\ status' = [status EXCEPT ![r] = "STARTED"]
             \/ /\ Begin(p, "snapshot", r, "user", "import_open") /\ r \in Runs
                /\ status[r] \notin ResumeBlocked \union {"none"} /\ status' = status
             \/ Begin(p, "validate", r, "user", "count") /\ status' = status
             \/ /\ \/ Begin(p, "rollback", r, "sale", "rb_open")
                   \/ Begin(p, "dry", r, "sale", "rb_open")
                /\ r \in Runs /\ status[r] \notin {"none", "ROLLED_BACK"} /\ status' = status
    BY <1>1, StartDoes
  <2>2. r \in Runs /\ status' = [status EXCEPT ![r] = "STARTED"] => status'[r] = "STARTED"
    BY Typed
  <2>3. "STARTED" \notin ResumeBlocked \union {"none"}
    BY DEF ResumeBlocked
  <2> QED
    BY <2>1, <2>2, <2>3, BeginDoes DEF RunOpen
<1>2. CASE Stops(p)
  BY <1>2, EndDoes DEF Stops, IdleProcess, RunOpen
<1>3. CASE (Advance(p) \/ Trouble(p)) /\ ~ Stops(p)
  <2>1. proc'[p].cmd = proc[p].cmd /\ proc'[p].run = proc[p].run
    BY <1>3, SameJob
  <2>2. CASE proc[p].run \in Runs
    <3>1. \/ status'[proc[p].run] = status[proc[p].run]
          \/ proc[p].cmd = "snapshot" /\ status'[proc[p].run] \notin ResumeBlocked \union {"none"}
      BY <1>3, <2>2, StatusAfter DEF Stops
    <3> QED
      BY <2>1, <3>1 DEF RunOpen
  <2>3. CASE proc[p].run \notin Runs
    BY <2>1, <2>3, Typed DEF StageOK, RunOpen
  <2> QED
    BY <2>2, <2>3
<1> QED
  BY <1>1, <1>2, <1>3

LEMMA MarksStep ==
    ASSUME TypeOK, NEW p \in Procs, InCommand(p)', Start(p) \/ Advance(p) \/ Trouble(p)
    PROVE  MarksUndone(p)'
<1>1. CASE \/ RollbackRead(p) \/ RollbackReadLost(p) \/ DeleteLost(p) \/ RollbackConfirm(p)
           \/ RemovalFailed(p)
  BY <1>1, RollbackReadDoes, RollbackReadLostDoes, DeleteLostDoes, RollbackConfirmDoes,
     RemovalFailedDoes DEF MarksUndone, Undone, Decision, At, Dry, SameCommand
<1>2. CASE RollbackOpen(p) \/ RollbackMark(p) \/ SalesDone(p) \/ DeleteAnswered(p)
  BY <1>2, RollbackOpenDoes, RollbackMarkDoes, SalesDoneDoes, DeleteAnsweredDoes
     DEF MarksUndone, At
<1>3. CASE Start(p)
  BY <1>3, StartDoes, BeginDoes DEF MarksUndone, At
<1>4. CASE Stops(p)
  BY <1>4, EndDoes DEF Stops, IdleProcess, MarksUndone, At
<1>5. CASE (SnapshotStep(p) \/ SnapshotTrouble(p)) /\ ~ Stops(p)
  <2>1. CASE \/ ImportOpen(p) \/ ImportSkip(p) \/ ImportBegin(p) \/ PostAnswered(p)
             \/ PostLost(p) \/ PostRefused(p) \/ ImportUpsert(p) \/ ImportEnd(p)
    BY <2>1, ImportStepDoes, ImportEndDoes DEF MarksUndone, At
  <2>2. CASE \/ CountLegacy(p) \/ CheckOpen(p) \/ CheckRow(p) \/ CheckRowLost(p)
             \/ CheckItem(p) \/ CheckMark(p) \/ CheckEnd(p)
    BY <2>2, CountLegacyDoes, CheckOpenDoes, CheckRowDoes, CheckRowLostDoes,
       CheckItemDoes, CheckMarkDoes, CheckEndDoes DEF MarksUndone, At
  <2>3. CASE RefsOpen(p) \/ RefsGet(p) \/ RefsGetLost(p) \/ RefsEnd(p)
    BY <2>3, RefsOpenDoes, RefsGetDoes, RefsGetLostDoes, RefsEndDoes DEF MarksUndone, At
  <2> QED
    BY <1>5, <2>1, <2>2, <2>3 DEF SnapshotStep, SnapshotTrouble, Stops
<1> QED
  BY <1>1, <1>2, <1>3, <1>4, <1>5 DEF Advance, Trouble, RollbackStep, RollbackTrouble, Stops

LEMMA HolderStep ==
    ASSUME OneCommand, Base, [Next]_vars, NEW p \in Procs, HolderOK(p)
    PROVE  HolderOK(p)'
<1>1. TypeOK /\ TypeOK' /\ InCommand(p) /\ InCommand(p)'
  BY BaseStep DEF Base, Control
<1>2. CASE UNCHANGED <<proc, status, items>>
  BY <1>2 DEF HolderOK, SendsUndone, RunOpen, MarksUndone, At, Dry, AlreadyDone
<1>3. CASE Start(p) \/ Advance(p) \/ Trouble(p)
  BY <1>1, <1>3, SendsStep, RunOpenStep, MarksStep DEF HolderOK
<1> QED
  BY <1>1, <1>2, <1>3, OneStep

LEMMA HolderAlways == OneCommand => (Spec => [](Base /\ HolderInv))
<1> SUFFICES ASSUME OneCommand PROVE Spec => [](Base /\ HolderInv)
  OBVIOUS
<1>1. Init => HolderInv
  BY DEF Init, IdleProcess, HolderInv, HolderOK, SendsUndone, RunOpen, MarksUndone, At
<1>2. Base /\ HolderInv /\ [Next]_vars => HolderInv'
  BY HolderStep DEF HolderInv
<1> QED
  BY <1>1, <1>2, BaseAlways, PTL DEF Spec

(* With one command at a time no attempt, crash or retry takes the ownership of a row
   away from a run while no rollback has handled it. *)
THEOREM OwnershipKeptHolds == OneCommand => (Spec => OwnershipKept)
<1> SUFFICES ASSUME OneCommand PROVE Spec => OwnershipKept
  OBVIOUS
<1>1. ASSUME Base, HolderInv, [Next]_vars, NEW r \in Runs, NEW k \in Keys,
             items[r][k].action = "created", items[r][k].status \in {"imported", "validated"}
      PROVE  items'[r][k].action = "created"
  <2>1. CASE UNCHANGED vars \/ Elsewhere
    BY <1>1, <2>1, ElsewhereKeeps
       DEF vars, store, Base, Elsewhere, Arrive, LegacyWrite, ServiceWrite
  <2>2. ASSUME NEW p \in Procs, Start(p) \/ Advance(p) \/ Trouble(p)
        PROVE  items'[r][k].action = "created"
    <3>1. TypeOK /\ SendsUndone(p)
      BY <1>1 DEF Base, HolderInv, HolderOK
    <3>2. CASE ImportUpsert(p) /\ r = proc[p].run /\ k = proc[p].cur
      BY <1>1, <3>1, <3>2, ImportUpsertDoes DEF SendsUndone, AlreadyDone, At
    <3>3. CASE ~ (ImportUpsert(p) /\ r = proc[p].run /\ k = proc[p].cur)
      BY <1>1, <2>2, <3>1, <3>3, ItemAfter
    <3> QED
      BY <3>2, <3>3
  <2> QED
    BY <1>1, <2>1, <2>2 DEF Next
<1>2. Base /\ HolderInv /\ [Next]_vars =>
        [\A r \in Runs, k \in Keys :
           /\ items[r][k].action = "created"
           /\ items[r][k].status \in {"imported", "validated"}
           => items'[r][k].action = "created"]_vars
  BY <1>1
<1> QED
  BY <1>2, HolderAlways, PTL DEF Spec, OwnershipKept

(* While nothing was lost: no request is under way on its own, an item created was
   imported, and an item a rollback handled belongs to a run whose rollback is under
   way or was reported. *)
CreatedImported ==
    \A r \in Runs, k \in Keys : items[r][k].action = "created" => items[r][k].status # "failed"
RolledBackBy(r) ==
    \/ status[r] \in {"ROLLED_BACK", "ROLLBACK_FAILED"}
    \/ \E p \in Procs : proc[p].cmd = "rollback" /\ proc[p].run = r
UndoneByRollback ==
    \A r \in Runs, k \in Keys : items[r][k].status \in Undone => RolledBackBy(r)
NothingLost == faults = 0 => wire = {} /\ UndoneByRollback

OwnedInv == CreatedImported /\ NothingLost /\ InsertedIsOwned

LEMMA CreatedImportedStep ==
    ASSUME TypeOK, CreatedImported, HolderInv, [Next]_vars
    PROVE  CreatedImported'
<1>1. CASE UNCHANGED vars \/ Elsewhere
  <2>1. items' = items
    BY <1>1, ElsewhereKeeps
       DEF vars, store, Elsewhere, Arrive, LegacyWrite, ServiceWrite
  <2> QED
    BY <2>1 DEF CreatedImported
<1>2. ASSUME NEW p \in Procs, Start(p) \/ Advance(p) \/ Trouble(p), NEW r \in Runs,
             NEW k \in Keys, items'[r][k].action = "created"
      PROVE  items'[r][k].status # "failed"
  <2>1. CASE items'[r][k] = items[r][k]
    BY <1>2, <2>1 DEF CreatedImported
  <2>2. CASE items'[r][k] = UpsertedItem(proc[p].ans, proc[p].cursor[proc[p].cur])
    BY <1>2, <2>2 DEF UpsertedItem
  <2>3. CASE items'[r][k].status = "validated"
    BY <2>3
  <2>4. CASE RollbackMark(p) /\ ~ Dry(p) /\ items'[r][k].status = proc[p].ans
    BY <2>4, RollbackMarkDoes DEF HolderInv, HolderOK, MarksUndone, Undone
  <2> QED
    BY <1>2, <2>1, <2>2, <2>3, <2>4, ItemAfter
<1> QED
  BY <1>1, <1>2 DEF Next, CreatedImported

(* A step of a process that loses nothing: the services change by an answer only. *)
LEMMA CleanStep ==
    ASSUME TypeOK, NEW p \in Procs, Start(p) \/ Advance(p) \/ Trouble(p), faults' = 0
    PROVE  /\ faults = 0 /\ wire' = wire /\ drift' = drift
           /\ Start(p) \/ Advance(p)
           /\ PostAnswered(p) \/ DeleteAnswered(p) \/ UNCHANGED <<svc, origin>>
<1>1. ~ Trouble(p) /\ faults = 0 /\ drift' = drift
  BY FaultsCounted DEF TypeOK
<1>2. ~ PostLost(p) /\ ~ DeleteLost(p)
  BY <1>1 DEF Trouble, SnapshotTrouble, RollbackTrouble
<1>3. PostAnswered(p) \/ DeleteAnswered(p) => wire' = wire
  BY DEF PostAnswered, DeleteAnswered, Answer
<1> QED
  BY <1>1, <1>2, <1>3, WhoWrites DEF Sends, SameRows

LEMMA CleanElsewhere ==
    ASSUME TypeOK, Elsewhere, faults' = 0, drift' = 0, NothingLost
    PROVE  faults = 0 /\ drift = 0 /\ UNCHANGED <<svc, origin, wire, proc, items, status>>
<1>1. faults = 0 /\ drift = 0
  BY FaultsCounted DEF TypeOK
<1>2. ASSUME NEW q \in wire PROVE FALSE
  BY <1>1, <1>2 DEF NothingLost
<1>3. ASSUME NEW k \in Keys, NEW v \in Contents, ServiceWrite(k, v) PROVE FALSE
  BY <1>1, <1>3 DEF ServiceWrite
<1>4. \E k \in Keys, v \in Contents : LegacyWrite(k, v)
  BY <1>2, <1>3 DEF Elsewhere
<1> QED
  BY <1>1, <1>4 DEF LegacyWrite, store

(* A POST that is answered: the row is the run's, or as it was. *)
LEMMA PostOwns ==
    ASSUME TypeOK, NEW p \in Procs, PostAnswered(p)
    PROVE  LET k == proc[p].cur IN
           \/ proc'[p].ans = "created" /\ origin'[k] = proc[p].run
           \/ svc'[k] = svc[k] /\ origin'[k] = origin[k]
<1> DEFINE k == proc[p].cur
           v == proc[p].cursor[k]
<1>1. k \in Keys /\ v \in Values /\ proc'[p].ans = Reply(svc[k], v)
  BY PostAnsweredDoes, Typed DEF StageOK, At
<1>2. svc'[k] = Stored(svc[k], v)
  BY <1>1, Typed DEF PostAnswered, Answer, Run, PostRequest, Tables
<1>3. origin'[k] = IF svc'[k] = svc[k] THEN origin[k] ELSE proc[p].run
  BY <1>1 DEF PostAnswered, Answer, Run, PostRequest, TypeOK
<1> QED
  BY <1>2, <1>3, <1>1 DEF Stored

(* While nothing was lost, a row is sent only for an item the run does not own. *)
LEMMA SendsUnowned ==
    ASSUME OneCommand, TypeOK, CreatedImported, NothingLost, HolderInv, faults = 0,
           NEW p \in Procs, At(p, "upsert")
    PROVE  items[proc[p].run][proc[p].cur].action # "created"
<1> DEFINE item == items[proc[p].run][proc[p].cur]
<1>1. /\ proc[p].run \in Runs /\ proc[p].cur \in Keys /\ proc[p].cmd = "snapshot"
      /\ item \in Item
  BY Typed DEF StageOK, At
<1>2. ~ AlreadyDone(item) /\ status[proc[p].run] \notin ResumeBlocked
  BY <1>1 DEF HolderInv, HolderOK, SendsUndone, RunOpen, At
<1>3. ~ RolledBackBy(proc[p].run)
  BY <1>1, <1>2 DEF RolledBackBy, ResumeBlocked, OneCommand
<1>4. item.status \notin Undone
  BY <1>1, <1>3 DEF NothingLost, UndoneByRollback
<1>5. item.action = "created" => item.status \in ItemStatus /\ item.status # "failed"
  BY <1>1 DEF Item, NoItem, CreatedImported
<1> QED
  BY <1>2, <1>4, <1>5 DEF AlreadyDone, ItemStatus, Undone

LEMMA NothingLostStep ==
    ASSUME OneCommand, Base, HolderInv, NothingLost, [Next]_vars
    PROVE  NothingLost'
<1>1. TypeOK
  BY DEF Base
<1>2. CASE UNCHANGED vars
  BY <1>2 DEF vars, world, store, budget, NothingLost, UndoneByRollback, RolledBackBy
<1>3. CASE Elsewhere
  <2>1. /\ faults' = faults /\ UNCHANGED <<proc, items, status>>
    BY <1>1, <1>3, FaultsCounted DEF Elsewhere, Arrive, LegacyWrite, ServiceWrite, store
  <2>2. faults = 0 => wire' = wire
    BY <1>3 DEF NothingLost, Elsewhere, Arrive, LegacyWrite, ServiceWrite
  <2> QED
    BY <2>1, <2>2 DEF NothingLost, UndoneByRollback, RolledBackBy
<1>4. ASSUME NEW p \in Procs, Start(p) \/ Advance(p) \/ Trouble(p), faults' = 0
      PROVE  wire' = {} /\ UndoneByRollback'
  <2>1. faults = 0 /\ wire' = {} /\ UndoneByRollback /\ (Start(p) \/ Advance(p))
    BY <1>1, <1>4, CleanStep DEF NothingLost
  <2>2. ASSUME NEW r \in Runs, NEW k \in Keys, items'[r][k].status \in Undone
        PROVE  RolledBackBy(r)'
    <3>1. RolledBackBy(r) \/ (proc[p].run = r /\ RollbackMark(p) /\ ~ Dry(p))
      <4>1. CASE items'[r][k] = items[r][k]
        BY <2>1, <2>2, <4>1 DEF UndoneByRollback
      <4>2. CASE \/ items'[r][k] = UpsertedItem(proc[p].ans, proc[p].cursor[proc[p].cur])
                 \/ items'[r][k].status = "validated"
        BY <2>2, <4>2 DEF Undone, UpsertedItem
      <4>3. CASE RollbackMark(p) /\ ~ Dry(p) /\ r = proc[p].run
        BY <4>3
      <4> QED
        BY <1>1, <1>4, <4>1, <4>2, <4>3, ItemAfter
    <3>2. CASE RollbackMark(p) /\ ~ Dry(p) /\ proc[p].run = r
      <4>1. proc[p].cmd = "rollback"
        BY <1>1, <3>2, CommandOf, RollbackMarkDoes DEF Base, Control, Dry, At
      <4> QED
        BY <1>1, <3>2, <4>1, RollbackMarkDoes DEF SameCommand, RolledBackBy
    <3>3. CASE RolledBackBy(r)
      <4>1. InCommand(p) /\ RunOpen(p)
        BY DEF Base, Control, HolderInv, HolderOK
      <4>2. CASE Start(p)
        <5>1. PICK c, s, ent, stage : /\ Begin(p, c, s, ent, stage)
                                      /\ \/ status' = status
                                         \/ status[s] = "none" /\ status' = [status EXCEPT ![s] = "STARTED"]
          BY <1>1, <4>2, StartDoes
        <5>2. proc[p].cmd = "idle"
          BY <1>1, <4>1, <5>1, BeginDoes, CommandOf DEF At
        <5>3. status[r] \in {"ROLLED_BACK", "ROLLBACK_FAILED"}
          BY <3>3, <5>2 DEF RolledBackBy, OneCommand
        <5>4. status'[r] = status[r]
          BY <1>1, <5>1, <5>3, Typed
        <5> QED
          BY <5>3, <5>4 DEF RolledBackBy
      <4>3. CASE Advance(p) /\ ~ Stops(p)
        <5>1. proc'[p].cmd = proc[p].cmd /\ proc'[p].run = proc[p].run
          BY <1>1, <4>3, SameJob
        <5>2. status'[r] = status[r] \/ (r = proc[p].run /\ proc[p].cmd = "snapshot")
          BY <1>1, <4>1, <4>3, StatusAfter DEF Stops
        <5>3. CASE r = proc[p].run /\ proc[p].cmd = "snapshot"
          BY <3>3, <4>1, <5>3 DEF RolledBackBy, OneCommand, RunOpen, ResumeBlocked
        <5> QED
          BY <3>3, <5>1, <5>2, <5>3 DEF RolledBackBy, OneCommand
      <4>4. CASE Advance(p) /\ Stops(p)
        <5>1. CASE RollbackEnd(p)
          <6>1. CASE proc[p].cmd = "rollback" /\ proc[p].run = r
            BY <6>1, <5>1, <1>1, RollbackEndDoes, Typed DEF Dry, RolledBackBy
          <6>2. CASE ~ (proc[p].cmd = "rollback" /\ proc[p].run = r)
            <7>1. status[r] \in {"ROLLED_BACK", "ROLLBACK_FAILED"}
              BY <3>3, <6>2 DEF RolledBackBy, OneCommand
            <7>2. status'[r] \in {"ROLLED_BACK", "ROLLBACK_FAILED"}
              BY <7>1, <5>1, <1>1, RollbackEndDoes, Typed
            <7> QED
              BY <7>2 DEF RolledBackBy
          <6> QED
            BY <6>1, <6>2
        <5>2. CASE Finalize(p)
          <6>1. proc[p].cmd = "snapshot"
            BY <1>1, <4>1, <5>2, FinalizeDoes, CommandOf
          <6>2. status[r] \in {"ROLLED_BACK", "ROLLBACK_FAILED"} /\ r # proc[p].run
            BY <3>3, <4>1, <6>1 DEF RolledBackBy, OneCommand, RunOpen, ResumeBlocked
          <6> QED
            BY <6>2, <5>2, <1>1, FinalizeDoes, Typed DEF RolledBackBy
        <5>3. CASE Report(p)
          <6>1. proc[p].cmd = "validate" /\ status' = status
            BY <1>1, <4>1, <5>3, StopsQuietly, CommandOf DEF Report, At
          <6> QED
            BY <3>3, <6>1 DEF RolledBackBy, OneCommand
        <5>4. ~ Abort(p) /\ ~ Crash(p)
          BY <1>1, <1>4, <2>1, FaultsCounted DEF Trouble, SnapshotTrouble
        <5> QED
          BY <4>4, <5>1, <5>2, <5>3, <5>4 DEF Stops
      <4> QED
        BY <2>1, <4>2, <4>3, <4>4
    <3> QED
      BY <3>1, <3>2, <3>3
  <2> QED
    BY <2>1, <2>2 DEF UndoneByRollback
<1> QED
  BY <1>2, <1>3, <1>4 DEF Next, NothingLost

(* A row k of run r is accounted for. *)
OwnedBy(r, k) ==
    \/ items[r][k].action = "created"
    \/ \E p \in Procs : /\ At(p, "upsert") /\ proc[p].ans = "created"
                        /\ proc[p].run = r /\ proc[p].cur = k

LEMMA InsertedStep ==
    ASSUME OneCommand, Base, HolderInv, OwnedInv, [Next]_vars
    PROVE  InsertedIsOwned'
<1>1. TypeOK
  BY DEF Base
<1>2. CASE UNCHANGED vars
  BY <1>2 DEF vars, world, store, budget, history, OwnedInv, InsertedIsOwned, At
<1>3. CASE Elsewhere
  BY <1>1, <1>3, CleanElsewhere DEF OwnedInv, InsertedIsOwned, At
<1>4. ASSUME NEW p \in Procs, Start(p) \/ Advance(p) \/ Trouble(p), faults' = 0, drift' = 0,
             NEW k \in Keys, svc'[k] # Absent, origin'[k] # NoRun
      PROVE  OwnedBy(origin[k], k)'
  <2>1. /\ faults = 0 /\ drift = 0 /\ origin'[k] \in Runs
        /\ Start(p) \/ Advance(p)
        /\ PostAnswered(p) \/ DeleteAnswered(p) \/ UNCHANGED <<svc, origin>>
    BY <1>1, <1>4, CleanStep, TypeStep DEF TypeOK
  <2>2. CASE PostAnswered(p) /\ k = proc[p].cur /\ proc'[p].ans = "created"
             /\ origin'[k] = proc[p].run
    BY <1>1, <2>2, PostAnsweredDoes DEF SameCommand, OwnedBy, At
  <2>3. CASE svc'[k] = svc[k] /\ origin'[k] = origin[k]
    <3>1. OwnedBy(origin[k], k)
      BY <1>4, <2>1, <2>3 DEF OwnedInv, InsertedIsOwned, OwnedBy
    <3>2. CASE At(p, "upsert") /\ proc[p].ans = "created" /\ proc[p].run = origin[k]
               /\ proc[p].cur = k
      <4>1. ImportUpsert(p)
        <5>1. ~ Start(p) /\ ~ Stops(p)
          BY <1>1, <1>4, <2>1, <3>2, StartDoes, BeginDoes, FaultsCounted, FinalizeDoes,
             RollbackEndDoes DEF At, Stops, Report, Trouble, SnapshotTrouble
        <5> QED
          BY <2>1, <3>2, <5>1
             DEF Stops, Advance, SnapshotStep, RollbackStep, ImportOpen, ImportSkip, ImportBegin,
                 PostAnswered, ImportEnd, CountLegacy, CheckOpen, CheckRow, CheckItem, CheckMark,
                 CheckEnd,
                 RefsOpen, RefsGet, RefsEnd, RollbackOpen, RollbackRead, DeleteAnswered,
                 RollbackConfirm, RollbackMark, SalesDone, At
      <4> DEFINE new == UpsertedItem(proc[p].ans, proc[p].cursor[proc[p].cur])
      <4>2. items' = [items EXCEPT ![proc[p].run][proc[p].cur] = new]
        BY <1>1, <4>1, ImportUpsertDoes
      <4>3. new.action = "created"
        BY <3>2 DEF UpsertedItem
      <4> HIDE DEF new
      <4>4. items'[origin[k]][k] = new
        BY <1>1, <2>1, <2>3, <3>2, <4>2, Typed
      <4> QED
        BY <2>3, <4>3, <4>4 DEF OwnedBy
    <3>3. CASE items[origin[k]][k].action = "created"
      <4>1. CASE ImportUpsert(p)
        <5>1. ~ (origin[k] = proc[p].run /\ k = proc[p].cur)
          BY <1>1, <2>1, <3>3, <4>1, SendsUnowned, ImportUpsertDoes DEF OwnedInv
        <5>2. ~ CheckMark(p) /\ ~ RollbackMark(p)
          BY <4>1 DEF ImportUpsert, CheckMark, RollbackMark, At
        <5>3. items'[origin[k]][k] = items[origin[k]][k]
          BY <1>1, <1>4, <2>1, <2>3, <5>1, ItemAfter
        <5> QED
          BY <2>3, <3>3, <5>3 DEF OwnedBy
      <4>2. CASE ~ ImportUpsert(p)
        BY <1>1, <1>4, <2>1, <2>3, <3>3, <4>2, ActionsKept DEF OwnedBy
      <4> QED
        BY <4>1, <4>2
    <3> QED
      BY <3>1, <3>2, <3>3 DEF OwnedBy, OneCommand
  <2>4. CASE DeleteAnswered(p) /\ k = proc[p].cur
    BY <1>1, <1>4, <2>4, DeleteAnsweredDoes
  <2>5. CASE (PostAnswered(p) \/ DeleteAnswered(p)) /\ k # proc[p].cur
    BY <1>1, <2>3, <2>5, PostAnsweredDoes, DeleteAnsweredDoes DEF Attempted
  <2>6. CASE PostAnswered(p) /\ k = proc[p].cur
    BY <1>1, <2>2, <2>3, <2>6, PostOwns
  <2> QED
    BY <2>1, <2>3, <2>4, <2>5, <2>6
<1> QED
  BY <1>2, <1>3, <1>4 DEF Next, InsertedIsOwned, OwnedBy

(* With one command at a time, no fault and no other client, every row a run inserted
   and that is still there is recorded as created by that run, or its 201 answer is
   in the hands of the process about to record it. *)
THEOREM InsertedIsOwnedHolds == OneCommand => (Spec => []InsertedIsOwned)
<1> SUFFICES ASSUME OneCommand PROVE Spec => []InsertedIsOwned
  OBVIOUS
<1>1. Init => OwnedInv
  <2> SUFFICES ASSUME Init PROVE OwnedInv
    OBVIOUS
  <2>1. \A r \in Runs, k \in Keys : items[r][k].action = "none" /\ items[r][k].status = "none"
    BY DEF Init, NoItem
  <2>2. wire = {} /\ \A k \in Keys : origin[k] = NoRun
    BY DEF Init
  <2> QED
    BY <2>1, <2>2
       DEF OwnedInv, CreatedImported, NothingLost, UndoneByRollback, InsertedIsOwned, Undone
<1>2. Base /\ HolderInv /\ OwnedInv /\ [Next]_vars => OwnedInv'
  BY CreatedImportedStep, NothingLostStep, InsertedStep DEF OwnedInv, Base
<1>3. OwnedInv => InsertedIsOwned
  BY DEF OwnedInv
<1> QED
  BY <1>1, <1>2, <1>3, HolderAlways, PTL DEF Spec

(***************************************************************************)
(* The run statuses implement RunLifecycle.                                *)
(***************************************************************************)
Importing == {"import_open", "import_next", "post", "upsert"}
Checking == {"count", "check_open", "check_next"} \union Marking
Resolving == {"refs_open", "refs_next"}

(* The status a run shows at each stage of the attempt that drives it. *)
MilestoneOK(p) ==
    LET s == status[proc[p].run]
        pc == proc[p].pc
    IN  Imports(p) =>
          /\ pc \in Importing /\ proc[p].ent = "sale" => s = "USERS_VALIDATED"
          /\ pc \in Checking =>
                 s = IF proc[p].ent = "user" THEN "USERS_MIGRATED" ELSE "SALES_MIGRATED"
          /\ pc \in Resolving => s = "SALES_VALIDATED"
          /\ pc = "complete" => s = "VALIDATED"
          /\ pc = "fail" => s \in {"USERS_MIGRATED", "SALES_MIGRATED", "SALES_VALIDATED", "FAILED"}

(* A step inside a phase of an attempt. *)
Inside(p) ==
    /\ SameCommand(p) /\ status' = status
    /\ \E phase \in {Importing, Checking, Resolving} :
         proc[p].pc \in phase /\ proc'[p].pc \in phase

LEMMA PhaseLemma ==
    ASSUME TypeOK, NEW p \in Procs, Imports(p), InCommand(p), Advance(p) \/ Trouble(p),
           ~ Stops(p)
    PROVE  Inside(p) \/ ImportEnd(p) \/ CheckEnd(p) \/ RefsEnd(p)
<1>1. CASE \/ ImportOpen(p) \/ ImportSkip(p) \/ ImportBegin(p) \/ PostAnswered(p) \/ PostLost(p)
           \/ PostRefused(p) \/ ImportUpsert(p)
  <2>1. /\ SameCommand(p) /\ status' = status
        /\ proc[p].pc \in Importing /\ proc'[p].pc \in Importing
    BY <1>1, ImportStepDoes DEF Importing
  <2> QED
    BY <2>1 DEF Inside
<1>2. CASE \/ CountLegacy(p) \/ CheckOpen(p) \/ CheckRow(p) \/ CheckRowLost(p)
           \/ CheckItem(p) \/ CheckMark(p)
  <2>1. /\ SameCommand(p) /\ status' = status
        /\ proc[p].pc \in Checking /\ proc'[p].pc \in Checking
    BY <1>2, CountLegacyDoes, CheckOpenDoes, CheckRowDoes, CheckRowLostDoes, CheckItemDoes,
       CheckMarkDoes
       DEF Checking, Marking, At
  <2> QED
    BY <2>1 DEF Inside
<1>3. CASE RefsOpen(p) \/ RefsGet(p) \/ RefsGetLost(p)
  <2>1. /\ SameCommand(p) /\ status' = status
        /\ proc[p].pc \in Resolving /\ proc'[p].pc \in Resolving
    BY <1>3, RefsOpenDoes, RefsGetDoes, RefsGetLostDoes DEF Resolving, At
  <2> QED
    BY <2>1 DEF Inside
<1>4. ~ RollbackStep(p) /\ ~ RollbackTrouble(p)
  BY CommandOf
     DEF Imports, RollbackStep, RollbackTrouble, RollbackOpen, RollbackRead, DeleteAnswered,
         RollbackConfirm, RollbackMark, SalesDone, RollbackEnd, RollbackReadLost, DeleteLost,
         RemovalFailed, At
<1> QED
  BY <1>1, <1>2, <1>3, <1>4 DEF Advance, Trouble, SnapshotStep, SnapshotTrouble, Stops

LEMMA PhasesApart ==
    /\ Importing \intersect Checking = {} /\ Importing \intersect Resolving = {}
    /\ Checking \intersect Resolving = {}
    /\ "fail" \notin Importing \union Checking \union Resolving
    /\ "complete" \notin Importing \union Checking \union Resolving
BY DEF Importing, Checking, Marking, Resolving

LEMMA MilestoneStep ==
    ASSUME OneCommand, Base, [Next]_vars, NEW p \in Procs, MilestoneOK(p)
    PROVE  MilestoneOK(p)'
<1>1. TypeOK /\ InCommand(p)
  BY DEF Base, Control
<1>2. CASE UNCHANGED <<proc, status, items>>
  BY <1>2 DEF MilestoneOK, Imports
<1>3. CASE Start(p)
  <2>1. PICK cmd, r, ent, stage : /\ Begin(p, cmd, r, ent, stage)
                                  /\ \/ cmd # "snapshot"
                                     \/ stage = "import_open" /\ ent = "user"
    BY <1>1, <1>3, StartDoes
  <2> QED
    BY <2>1, <1>1, BeginDoes DEF MilestoneOK, Imports, Checking, Marking, Resolving
<1>4. CASE Stops(p)
  BY <1>1, <1>4, EndDoes DEF Stops, IdleProcess, MilestoneOK, Imports
<1>5. CASE (Advance(p) \/ Trouble(p)) /\ ~ Stops(p)
  <2>1. proc'[p].cmd = proc[p].cmd /\ proc'[p].run = proc[p].run
    BY <1>1, <1>5, SameJob
  <2>2. CASE ~ Imports(p)
    BY <2>1, <2>2 DEF MilestoneOK, Imports
  <2>3. CASE Imports(p) /\ Inside(p)
    BY <2>3, PhasesApart DEF Inside, MilestoneOK, SameCommand, Imports
  <2>4. CASE Imports(p) /\ ~ Inside(p)
    <3>1. proc[p].run \in Runs /\ proc[p].ent \in {"user", "sale"}
      BY <1>1, <2>4, Typed DEF StageOK, Imports, Process, EntityType
    <3>2. ASSUME NEW new, status' = [status EXCEPT ![proc[p].run] = new]
          PROVE  status'[proc[p].run] = new
      BY <1>1, <3>1, <3>2, Typed
    <3>3. CASE ImportEnd(p)
      <4>1. /\ proc'[p].pc \in {"fail", "count"} /\ proc'[p].ent = proc[p].ent
            /\ status'[proc[p].run] =
                 IF proc[p].ent = "user" THEN "USERS_MIGRATED" ELSE "SALES_MIGRATED"
        BY <1>1, <3>2, <3>3, ImportEndDoes DEF SameCommand
      <4> QED
        BY <2>1, <3>1, <4>1 DEF MilestoneOK, Importing, Checking, Marking, Resolving
    <3>4. CASE CheckEnd(p)
      <4>1. /\ At(p, "check_next") /\ proc'[p].ent = "sale"
            /\ proc'[p].pc = IF Mismatch(p) THEN "fail"
                             ELSE IF proc[p].ent = "sale" THEN "refs_open" ELSE "import_open"
            /\ status' = IF ~ Mismatch(p)
                         THEN [status EXCEPT ![proc[p].run] =
                                 IF proc[p].ent = "user" THEN "USERS_VALIDATED"
                                 ELSE "SALES_VALIDATED"]
                         ELSE IF proc[p].ent = "user"
                         THEN [status EXCEPT ![proc[p].run] = "FAILED"]
                         ELSE status
        BY <1>1, <2>4, <3>4, CheckEndDoes
      <4>2. status[proc[p].run] =
                 IF proc[p].ent = "user" THEN "USERS_MIGRATED" ELSE "SALES_MIGRATED"
        BY <2>4, <4>1 DEF MilestoneOK, Checking, Marking, At
      <4>3. CASE Mismatch(p) /\ proc[p].ent = "user"
        BY <2>1, <3>2, <4>1, <4>3 DEF MilestoneOK, Importing, Checking, Marking, Resolving
      <4>4. CASE Mismatch(p) /\ proc[p].ent = "sale"
        BY <2>1, <4>1, <4>2, <4>4 DEF MilestoneOK, Importing, Checking, Marking, Resolving
      <4>5. CASE ~ Mismatch(p)
        <5>1. status'[proc[p].run] =
                 IF proc[p].ent = "user" THEN "USERS_VALIDATED" ELSE "SALES_VALIDATED"
          BY <3>2, <4>1, <4>5
        <5> QED
          BY <2>1, <3>1, <4>1, <4>5, <5>1 DEF MilestoneOK, Importing, Checking, Marking, Resolving
      <4> QED
        BY <3>1, <4>3, <4>4, <4>5
    <3>5. CASE RefsEnd(p)
      <4>1. /\ At(p, "refs_next")
            /\ \/ proc'[p].pc = "fail" /\ status' = status
               \/ proc'[p].pc = "complete" /\ status'[proc[p].run] = "VALIDATED"
        BY <1>1, <2>4, <3>2, <3>5, RefsEndDoes
      <4>2. status[proc[p].run] = "SALES_VALIDATED"
        BY <2>4, <4>1 DEF MilestoneOK, Resolving, At
      <4> QED
        BY <2>1, <4>1, <4>2 DEF MilestoneOK, Importing, Checking, Marking, Resolving
    <3> QED
      BY <1>1, <1>5, <2>4, <3>3, <3>4, <3>5, PhaseLemma
  <2> QED
    BY <2>2, <2>3, <2>4
<1> QED
  BY <1>1, <1>2, <1>3, <1>4, <1>5, OneStep

(***************************************************************************)
(* What the refinement shows of the state.                                 *)
(***************************************************************************)
Drives(p) == proc[p].cmd = "snapshot" /\ ~ Concluded(p)
LevelIs(s, n) ==
    /\ s = "USERS_MIGRATED" => n = 1
    /\ s = "USERS_VALIDATED" => n = 2
    /\ s = "SALES_MIGRATED" => n = 3
    /\ s = "SALES_VALIDATED" => n = 4
    /\ s = "VALIDATED" => n = 5

ShownBy(p) ==
    /\ Driven = IF Drives(p) THEN proc[p].run ELSE NoRun
    /\ IF Drives(p) /\ ~ FirstImport(p) THEN LevelIs(status[proc[p].run], Reached)
       ELSE Reached = 0

LEMMA Shown == OneCommand => \A p \in Procs : ShownBy(p)
<1> SUFFICES ASSUME OneCommand, NEW p \in Procs PROVE ShownBy(p)
  OBVIOUS
<1>1. Driver = IF Drives(p) THEN {p} ELSE {}
  BY DEF Driver, Drives, OneCommand
<1>2. Driven = IF Drives(p) THEN proc[p].run ELSE NoRun
  <2>1. CASE Drives(p)
    <3>1. (CHOOSE q \in {p} : TRUE) = p
      OBVIOUS
    <3> QED
      BY <1>1, <2>1, <3>1 DEF Driven
  <2>2. CASE ~ Drives(p)
    BY <1>1, <2>2 DEF Driven
  <2> QED
    BY <2>1, <2>2
<1>3. (\E q \in Driver : ~ FirstImport(q)) <=> Drives(p) /\ ~ FirstImport(p)
  BY <1>1
<1>4. CASE Drives(p) /\ ~ FirstImport(p)
  <2>1. LevelIs(status[Driven], Reached)
    BY <1>3, <1>4 DEF Reached, LevelIs
  <2> QED
    BY <1>2, <1>4, <2>1 DEF ShownBy
<1>5. CASE ~ (Drives(p) /\ ~ FirstImport(p))
  BY <1>2, <1>3, <1>5 DEF ShownBy, Reached
<1> QED
  BY <1>4, <1>5

LEMMA ShownNext == (OneCommand => \A p \in Procs : ShownBy(p))'
BY Shown, PTL

LifecycleStep == [Lifecycle!Next]_(Lifecycle!vars)

LEMMA Unseen ==
    ASSUME status' = status, Driven' = Driven, Reached' = Reached
    PROVE  LifecycleStep
BY DEF LifecycleStep, Lifecycle!vars

LEMMA Milestones ==
    /\ Lifecycle!Milestone[1] = "USERS_MIGRATED" /\ Lifecycle!Milestone[2] = "USERS_VALIDATED"
    /\ Lifecycle!Milestone[3] = "SALES_MIGRATED" /\ Lifecycle!Milestone[4] = "SALES_VALIDATED"
    /\ Lifecycle!Milestone[5] = "VALIDATED"
BY DEF Lifecycle!Milestone

LEMMA Reaches ==
    ASSUME NEW n \in 1..5, Reached = n - 1, Reached' = n, Driven # NoRun, Driven' = Driven,
           status' = [status EXCEPT ![Driven] = Lifecycle!Milestone[n]]
    PROVE  LifecycleStep
<1>1. (n - 1) + 1 = n
  OBVIOUS
<1> QED
  BY <1>1 DEF LifecycleStep, Lifecycle!Next, Lifecycle!Reach

LEMMA Finishes ==
    ASSUME NEW outcome \in {"COMPLETED", "FAILED"}, outcome = "COMPLETED" => Reached = 5,
           Driven # NoRun, Driven' = NoRun, Reached' = 0,
           status' = [status EXCEPT ![Driven] = outcome]
    PROVE  LifecycleStep
BY DEF LifecycleStep, Lifecycle!Next, Lifecycle!Finish

LEMMA LifecycleStart ==
    ASSUME TypeOK, NEW p \in Procs, InCommand(p), ShownBy(p), ShownBy(p)', Start(p)
    PROVE  LifecycleStep
<1>1. PICK r \in Runs \union {NoRun} :
             \/ /\ Begin(p, "snapshot", r, "user", "import_open") /\ r \in Runs
                /\ status[r] = "none" /\ status' = [status EXCEPT ![r] = "STARTED"]
             \/ /\ Begin(p, "snapshot", r, "user", "import_open") /\ r \in Runs
                /\ status[r] \notin ResumeBlocked \union {"none"} /\ status' = status
             \/ Begin(p, "validate", r, "user", "count") /\ status' = status
             \/ /\ \/ Begin(p, "rollback", r, "sale", "rb_open")
                   \/ Begin(p, "dry", r, "sale", "rb_open")
                /\ r \in Runs /\ status[r] \notin {"none", "ROLLED_BACK"} /\ status' = status
  BY StartDoes
<1>2. proc[p].cmd = "idle"
  BY <1>1, BeginDoes, CommandOf DEF At
<1>3. Driven = NoRun /\ Reached = 0
  BY <1>2 DEF ShownBy, Drives
<1>4. CASE Begin(p, "snapshot", r, "user", "import_open")
  <2>1. r \in Runs
    BY <1>1, <1>4, BeginDoes
  <2>2. Driven' = r /\ Reached' = 0
    BY <1>4, BeginDoes DEF ShownBy, Drives, Concluded, FirstImport, At
  <2>3. Lifecycle!Create(r) \/ Lifecycle!Resume(r)
    BY <1>1, <1>3, <1>4, <2>1, <2>2, BeginDoes
       DEF Lifecycle!Create, Lifecycle!Resume, Lifecycle!Final, ResumeBlocked
  <2> QED
    BY <2>1, <2>3 DEF LifecycleStep, Lifecycle!Next
<1>5. CASE ~ Begin(p, "snapshot", r, "user", "import_open")
  <2>1. proc'[p].cmd # "snapshot" /\ status' = status
    BY <1>1, <1>5, BeginDoes
  <2>2. Driven' = NoRun /\ Reached' = 0
    BY <2>1 DEF ShownBy, Drives
  <2> QED
    BY <1>3, <2>1, <2>2, Unseen
<1> QED
  BY <1>4, <1>5

(* The milestones: a phase of the attempt p ends. *)
LEMMA LifecycleReach ==
    ASSUME TypeOK, NEW p \in Procs, MilestoneOK(p), ShownBy(p), ShownBy(p)',
           Imports(p), ImportEnd(p) \/ CheckEnd(p) \/ RefsEnd(p)
    PROVE  LifecycleStep
<1>1. /\ proc[p].run \in Runs /\ proc[p].ent \in {"user", "sale"} /\ proc[p].run # NoRun
      /\ proc'[p].cmd = "snapshot" /\ proc'[p].run = proc[p].run
  BY Typed, RunsAssumption, ImportEndDoes, CheckEndDoes, RefsEndDoes
     DEF StageOK, Imports, Process, EntityType, SameCommand
<1> DEFINE r == proc[p].run
           Becomes(new) == status' = [status EXCEPT ![r] = new]
<1>2. ASSUME NEW new, Becomes(new) PROVE status'[r] = new
  BY <1>1, <1>2, Typed
<1>3. proc[p].pc # "fail" => Driven = r
  BY <1>1 DEF ShownBy, Drives, Concluded, Imports, At
<1>4. status'[r] # "FAILED" => Driven' = r
  BY <1>1 DEF ShownBy, Drives, Concluded, At
<1>5. ASSUME NEW n \in 1..5, proc[p].pc # "fail", Reached = n - 1, NEW new, Becomes(new),
             new = Lifecycle!Milestone[n], ~ FirstImport(p)'
      PROVE  LifecycleStep
  <2>1. status'[r] = Lifecycle!Milestone[n]
    BY <1>2, <1>5
  <2>2. status'[r] # "FAILED" /\ (\A m : LevelIs(status'[r], m) => m = n)
    <3>1. n = 1 \/ n = 2 \/ n = 3 \/ n = 4 \/ n = 5
      OBVIOUS
    <3> QED
      BY <2>1, <3>1, Milestones DEF LevelIs
  <2>3. Driven' = r /\ Drives(p)'
    BY <1>1, <1>4, <2>2 DEF Drives, Concluded
  <2>4. Reached' = n
    BY <1>1, <1>5, <2>2, <2>3 DEF ShownBy
  <2> QED
    BY <1>1, <1>3, <1>5, <2>3, <2>4, Reaches
<1> HIDE DEF Becomes
<1>6. CASE ImportEnd(p)
  <2>1. /\ proc[p].pc = "import_next" /\ proc'[p].pc \in {"fail", "count"}
        /\ proc[p].ent = "user" => Becomes("USERS_MIGRATED")
        /\ proc[p].ent = "sale" => Becomes("SALES_MIGRATED")
    BY <1>6, ImportEndDoes DEF At, Becomes
  <2>2. ~ FirstImport(p)'
    BY <2>1 DEF FirstImport
  <2>3. CASE proc[p].ent = "user"
    <3>1. Reached = 0
      BY <2>1, <2>3 DEF ShownBy, FirstImport
    <3> QED
      BY <2>1, <2>2, <2>3, <3>1, <1>5, Milestones
  <2>4. CASE proc[p].ent = "sale"
    <3>1. Reached = 2
      <4>1. status[r] = "USERS_VALIDATED"
        BY <2>1, <2>4 DEF MilestoneOK, Importing
      <4>2. Drives(p) /\ ~ FirstImport(p)
        BY <2>1, <2>4 DEF Drives, Concluded, FirstImport, Imports, At
      <4> QED
        BY <4>1, <4>2 DEF ShownBy, LevelIs
    <3> QED
      BY <2>1, <2>2, <2>4, <3>1, <1>5, Milestones
  <2> QED
    BY <1>1, <2>3, <2>4
<1>7. CASE CheckEnd(p)
  <2>1. /\ proc[p].pc = "check_next" /\ proc'[p].ent = "sale"
        /\ proc'[p].pc = IF Mismatch(p) THEN "fail"
                         ELSE IF proc[p].ent = "sale" THEN "refs_open" ELSE "import_open"
        /\ IF ~ Mismatch(p)
           THEN /\ proc[p].ent = "user" => Becomes("USERS_VALIDATED")
                /\ proc[p].ent = "sale" => Becomes("SALES_VALIDATED")
           ELSE IF proc[p].ent = "user" THEN Becomes("FAILED") ELSE status' = status
    BY <1>7, CheckEndDoes DEF At, Becomes
  <2>2. /\ status[r] = IF proc[p].ent = "user" THEN "USERS_MIGRATED" ELSE "SALES_MIGRATED"
        /\ Drives(p) /\ ~ FirstImport(p) /\ ~ FirstImport(p)'
    BY <2>1 DEF MilestoneOK, Checking, Marking, Drives, Concluded, FirstImport, Imports, At
  <2>3. Reached = IF proc[p].ent = "user" THEN 1 ELSE 3
    BY <1>1, <2>2 DEF ShownBy, LevelIs
  <2>4. CASE ~ Mismatch(p) /\ proc[p].ent = "user"
    BY <2>1, <2>2, <2>3, <2>4, <1>5, Milestones
  <2>5. CASE ~ Mismatch(p) /\ proc[p].ent = "sale"
    BY <2>1, <2>2, <2>3, <2>5, <1>5, Milestones
  <2>6. CASE Mismatch(p) /\ proc[p].ent = "user"
    <3>1. Becomes("FAILED") /\ proc'[p].pc = "fail" /\ proc[p].pc # "fail"
      BY <2>1, <2>6
    <3>2. ~ Drives(p)'
      BY <1>1, <1>2, <3>1 DEF Drives, Concluded, At
    <3>3. Driven' = NoRun /\ Reached' = 0
      BY <3>2 DEF ShownBy
    <3> QED
      BY <1>1, <1>3, <3>1, <3>3, Finishes DEF Becomes
  <2>7. CASE Mismatch(p) /\ proc[p].ent = "sale"
    <3>1. status' = status /\ Driven' = Driven /\ Drives(p)'
      BY <1>1, <1>3, <1>4, <2>1, <2>2, <2>7 DEF Drives, Concluded
    <3>2. Reached' = Reached
      BY <1>1, <2>2, <2>3, <2>7, <3>1 DEF ShownBy, LevelIs
    <3> QED
      BY <3>1, <3>2, Unseen
  <2> QED
    BY <1>1, <2>4, <2>5, <2>6, <2>7
<1>8. CASE RefsEnd(p)
  <2>1. /\ proc[p].pc = "refs_next"
        /\ \/ proc'[p].pc = "fail" /\ status' = status
           \/ proc'[p].pc = "complete" /\ Becomes("VALIDATED")
    BY <1>8, RefsEndDoes DEF At, Becomes
  <2>2. /\ status[r] = "SALES_VALIDATED"
        /\ Drives(p) /\ ~ FirstImport(p) /\ ~ FirstImport(p)'
    BY <2>1 DEF MilestoneOK, Resolving, Drives, Concluded, FirstImport, Imports, At
  <2>3. Reached = 4
    BY <2>2 DEF ShownBy, LevelIs
  <2>4. CASE status' = status
    <3>1. Driven' = Driven /\ Drives(p)'
      BY <1>1, <1>3, <1>4, <2>1, <2>2, <2>4 DEF Drives, Concluded
    <3>2. Reached' = 4
      BY <1>1, <2>2, <2>4, <3>1 DEF ShownBy, LevelIs
    <3> QED
      BY <2>3, <2>4, <3>1, <3>2, Unseen
  <2>5. CASE Becomes("VALIDATED")
    BY <2>1, <2>2, <2>3, <2>5, <1>5, Milestones
  <2> QED
    BY <2>1, <2>4, <2>5
<1> QED
  BY <1>6, <1>7, <1>8

(* A command ends: an attempt is over, or broken off; a rollback reports. *)
LEMMA LifecycleEnd ==
    ASSUME TypeOK, NEW p \in Procs, InCommand(p), MilestoneOK(p), RunOpen(p), ShownBy(p),
           ShownBy(p)', Stops(p)
    PROVE  LifecycleStep
<1>1. proc'[p].cmd = "idle" /\ ~ At(p, "idle")
  BY EndDoes, FinalizeDoes, RollbackEndDoes, CommandOf
     DEF Stops, IdleProcess, Report, Abort, Crash, Imports, At
<1>2. Driven' = NoRun /\ Reached' = 0
  BY <1>1 DEF ShownBy, Drives
<1>3. Imports(p) => proc[p].run \in Runs /\ proc[p].run # NoRun
  BY Typed, RunsAssumption DEF StageOK, Imports
<1>4. CASE ~ Imports(p)
  <2>1. Driven = NoRun /\ Reached = 0
    BY <1>4 DEF ShownBy, Drives, Imports
  <2>2. ~ Finalize(p) /\ ~ Abort(p)
    BY <1>4, FinalizeDoes, AbortDoes, CommandOf DEF Imports
  <2>3. CASE Report(p) \/ Crash(p)
    BY <1>2, <2>1, <2>3, StopsQuietly, Unseen
  <2>4. CASE RollbackEnd(p) /\ Dry(p)
    BY <1>2, <2>1, <2>4, RollbackEndDoes, Unseen
  <2>5. CASE RollbackEnd(p) /\ ~ Dry(p)
    <3>1. proc[p].cmd = "rollback" /\ proc[p].run \in Runs
      BY <2>5, RollbackEndDoes, CommandOf, Typed DEF Dry, At, StageOK
    <3>2. PICK outcome \in {"ROLLED_BACK", "ROLLBACK_FAILED"} :
            status' = [status EXCEPT ![proc[p].run] = outcome]
      BY <2>5, RollbackEndDoes
    <3>3. Lifecycle!Undo(proc[p].run, outcome)
      BY <1>2, <2>1, <3>1, <3>2 DEF Lifecycle!Undo, RunOpen
    <3> QED
      BY <3>1, <3>3 DEF LifecycleStep, Lifecycle!Next
  <2> QED
    BY <2>2, <2>3, <2>4, <2>5 DEF Stops
<1>5. CASE Imports(p) /\ Concluded(p)
  <2>1. Driven = NoRun /\ Reached = 0
    BY <1>5 DEF ShownBy, Drives
  <2>2. status' = status \/ status' = [status EXCEPT ![proc[p].run] = "FAILED"]
    BY <1>5, FinalizeDoes, AbortDoes, StopsQuietly, RollbackEndDoes DEF Stops, Concluded, At
  <2>3. status[proc[p].run] = "FAILED"
    BY <1>5 DEF Concluded
  <2>4. status' = status
    BY <1>3, <1>5, <2>2, <2>3, Typed
  <2> QED
    BY <1>2, <2>1, <2>4, Unseen
<1>6. CASE Imports(p) /\ ~ Concluded(p)
  <2>1. Driven = proc[p].run /\ Driven # NoRun
    BY <1>3, <1>6 DEF ShownBy, Drives, Imports
  <2>2. CASE Finalize(p) /\ At(p, "complete")
    <3>1. status[proc[p].run] = "VALIDATED" /\ Drives(p) /\ ~ FirstImport(p)
      BY <1>6, <2>2 DEF MilestoneOK, Imports, Drives, FirstImport, At
    <3>2. Reached = 5
      BY <3>1 DEF ShownBy, LevelIs
    <3>3. status' = [status EXCEPT ![Driven] = "COMPLETED"]
      BY <2>1, <2>2, FinalizeDoes DEF At
    <3> QED
      BY <1>2, <2>1, <3>2, <3>3, Finishes
  <2>3. CASE (Finalize(p) /\ At(p, "fail")) \/ Abort(p)
    <3>1. status' = [status EXCEPT ![Driven] = "FAILED"]
      BY <2>1, <2>3, FinalizeDoes, AbortDoes
    <3> QED
      BY <1>2, <2>1, <3>1, Finishes
  <2>4. CASE Report(p) \/ Crash(p)
    BY <1>2, <2>1, <2>4, StopsQuietly
       DEF LifecycleStep, Lifecycle!Next, Lifecycle!Interrupt
  <2>5. ~ RollbackEnd(p)
    BY <1>6, RollbackEndDoes, CommandOf DEF At, Imports
  <2> QED
    BY <2>2, <2>3, <2>4, <2>5, FinalizeDoes DEF Stops, At
<1> QED
  BY <1>4, <1>5, <1>6

LEMMA LifecycleInside ==
    ASSUME TypeOK, NEW p \in Procs, InCommand(p), MilestoneOK(p), ShownBy(p), ShownBy(p)',
           Advance(p) \/ Trouble(p), ~ Stops(p), ~ Start(p)
    PROVE  LifecycleStep
<1>1. proc'[p].cmd = proc[p].cmd /\ proc'[p].run = proc[p].run
  BY SameJob
<1>2. CASE ~ Imports(p)
  <2>1. Driven = NoRun /\ Reached = 0 /\ Driven' = NoRun /\ Reached' = 0
    BY <1>1, <1>2 DEF ShownBy, Drives, Imports
  <2>2. status' = status
    <3>1. ~ ImportEnd(p)
      BY <1>2, ImportEndDoes, CommandOf DEF At, Imports
    <3>2. CheckEnd(p) \/ RefsEnd(p) => status' = status
      BY <1>2, CheckEndDoes, RefsEndDoes
    <3> QED
      BY <3>1, <3>2, WhoWrites DEF Stops
  <2> QED
    BY <2>1, <2>2, Unseen
<1>3. CASE Imports(p) /\ Inside(p)
  <2>1. /\ status' = status /\ proc'[p].ent = proc[p].ent
        /\ proc[p].pc \in Importing <=> proc'[p].pc \in Importing
        /\ proc[p].pc \in Checking <=> proc'[p].pc \in Checking
        /\ proc[p].pc # "fail" /\ proc'[p].pc # "fail"
        /\ proc[p].pc \in Importing \union Checking \union Resolving
    BY <1>3, PhasesApart DEF Inside, SameCommand
  <2>2. Drives(p) /\ Drives(p)' /\ (FirstImport(p)' <=> FirstImport(p))
    BY <1>1, <1>3, <2>1 DEF Drives, Concluded, FirstImport, Importing, Imports, At
  <2>3. Driven' = Driven
    BY <1>1, <2>2 DEF ShownBy
  <2>4. CASE FirstImport(p)
    BY <2>1, <2>2, <2>3, <2>4, Unseen DEF ShownBy
  <2>5. CASE ~ FirstImport(p)
    <3>1. proc[p].ent \in {"user", "sale"}
      BY Typed DEF Process, EntityType
    <3>2. status[proc[p].run] \in {"USERS_MIGRATED", "USERS_VALIDATED", "SALES_MIGRATED",
                                   "SALES_VALIDATED"}
      BY <1>3, <2>1, <2>5, <3>1 DEF MilestoneOK, FirstImport, Importing
    <3>3. LevelIs(status[proc[p].run], Reached) /\ LevelIs(status[proc[p].run], Reached')
      BY <1>1, <2>1, <2>2, <2>5 DEF ShownBy
    <3>4. Reached' = Reached
      BY <3>2, <3>3 DEF LevelIs
    <3> QED
      BY <2>1, <2>3, <3>4, Unseen
  <2> QED
    BY <2>4, <2>5
<1>4. CASE Imports(p) /\ ~ Inside(p)
  BY <1>4, PhaseLemma, LifecycleReach
<1> QED
  BY <1>2, <1>3, <1>4

MilestoneInv == \A p \in Procs : MilestoneOK(p)

(* With one command at a time the tool implements RunLifecycle: every attempt records
   its milestones in order, COMPLETED follows VALIDATED in the same attempt, and no
   command drives a run that is over - for any rows, runs and bounds. *)
THEOREM ImplementsLifecycle == OneCommand => (Spec => LifecycleSpec)
<1> SUFFICES ASSUME OneCommand PROVE Spec => LifecycleSpec
  OBVIOUS
<1>1. Init => MilestoneInv /\ Lifecycle!Init
  <2> SUFFICES ASSUME Init PROVE MilestoneInv /\ Lifecycle!Init
    OBVIOUS
  <2>1. \A p \in Procs : proc[p].cmd = "idle"
    BY DEF Init, IdleProcess
  <2>2. Driver = {} /\ status = [r \in Runs |-> "none"]
    BY <2>1 DEF Driver, Init
  <2>3. MilestoneInv
    BY <2>1 DEF MilestoneInv, MilestoneOK, Imports
  <2> QED
    BY <2>2, <2>3 DEF Lifecycle!Init, Driven, Reached
<1>2. Base /\ MilestoneInv /\ [Next]_vars => MilestoneInv'
  BY MilestoneStep DEF MilestoneInv
<1>3. ASSUME Base, HolderInv, MilestoneInv, [Next]_vars PROVE LifecycleStep
  <2>1. TypeOK
    BY <1>3 DEF Base
  <2>2. CASE UNCHANGED vars \/ Elsewhere
    <3>1. UNCHANGED <<proc, status>>
      BY <2>2 DEF vars, store, Elsewhere, Arrive, LegacyWrite, ServiceWrite
    <3>2. Driver' = Driver
      BY <3>1 DEF Driver, Concluded, At
    <3>3. Driven' = Driven
      BY <3>1, <3>2 DEF Driven
    <3>4. Reached' = Reached
      BY <3>1, <3>2, <3>3 DEF Reached, FirstImport
    <3> QED
      BY <3>1, <3>3, <3>4, Unseen
  <2>3. ASSUME NEW p \in Procs, Start(p) \/ Advance(p) \/ Trouble(p) PROVE LifecycleStep
    <3>1. InCommand(p) /\ MilestoneOK(p) /\ RunOpen(p) /\ ShownBy(p) /\ ShownBy(p)'
      BY <1>3, Shown, ShownNext DEF Base, Control, HolderInv, HolderOK, MilestoneInv
    <3> QED
      BY <2>1, <2>3, <3>1, LifecycleStart, LifecycleInside, LifecycleEnd
  <2> QED
    BY <1>3, <2>2, <2>3 DEF Next
<1>4. Base /\ HolderInv /\ MilestoneInv /\ [Next]_vars => [Lifecycle!Next]_(Lifecycle!vars)
  BY <1>3 DEF LifecycleStep
<1> QED
  BY <1>1, <1>2, <1>4, HolderAlways, PTL DEF Spec, LifecycleSpec, Lifecycle!Spec
=============================================================================
