------------------------ MODULE SessionSafetyProofs ------------------------
(***************************************************************************)
(* Two more invariants of the lifecycle, each inductive relative to        *)
(* LifecycleInv, SafetyInv and the one before it.  SlotInv: every slot     *)
(* belongs to a row, and every row but one that is in error for good, or   *)
(* about to be inserted or deleted, has one.  DrivenInv: a row in a        *)
(* transient state has a task that is going to move it on, whatever is     *)
(* cancelled, fails or times out in between.                               *)
(* The rest is what SessionServedProofs rests on: what a step writes, and  *)
(* what it does to a session, as a few kinds of event, and to each task.   *)
(***************************************************************************)
EXTENDS SessionInvariantProofs

-----------------------------------------------------------------------------
(***************************************************************************)
(* Rows and slots.                                                         *)
(***************************************************************************)
\* A row that is gone does not come back while a task refers to it.
LEMMA GoneRowStays ==
  ASSUME MoveInv, [Next]_vars, NEW s \in Sid, ~Exists(s), NEW t \in Task, task[t].sid = s
  PROVE  row'[s].state = "closed"
<1>1. StoreTypeOK /\ row \in [Sid -> Row]
  BY DEF MoveInv, TypeOK, StoreTypeOK
<1>2. ASSUME NEW u, Edited(u) \/ (u \in Sid /\ Delete(u)) PROVE row'[s].state = "closed"
  <2> DEFINE a == row'[s].alias
  <2>1. row'[s].state # "closed" => row[s].state # "closed"
    BY <1>1, <1>2, RowsShrink
  <2> QED
    BY <2>1 DEF Exists
<1>3. ASSUME NewSid \in FreeSid, NEW a, Insert(NewSid, a) PROVE row'[s].state = "closed"
  <2>1. NewSid # s /\ NewSid \in Sid
    BY <1>3 DEF FreeSid
  <2> QED
    BY <1>1, <1>3, <2>1 DEF Insert, Exists
<1> QED
  BY <1>2, <1>3, StepRows

\* A row appears by the insert of an open.
LEMMA InsertsNew ==
  ASSUME MoveInv, [Next]_vars, NEW s \in Sid, ~Exists(s), row'[s].state # "closed"
  PROVE  \E o \in Op : task'[o].pc = "inserted" /\ task'[o].sid = s
<1>1. StoreTypeOK /\ row \in [Sid -> Row] /\ task \in [Task -> TaskRecord]
  BY DEF MoveInv, TypeOK, StoreTypeOK
<1>2. ASSUME NEW u, Edited(u) \/ (u \in Sid /\ Delete(u)) PROVE FALSE
  <2>1. row'[s].state # "closed" => row[s].state # "closed"
    BY <1>1, <1>2, RowsShrink
  <2> QED
    BY <2>1 DEF Exists
<1>3. ASSUME NEW o \in Op, OpenChecks(o), NewSid \in FreeSid, Insert(NewSid, task[o].alias)
      PROVE  task'[o].pc = "inserted" /\ task'[o].sid = s
  <2> DEFINE n == NewSid
             q == [task[o] EXCEPT !.pc = "inserted", !.sid = n]
  <2>1. row' # row
    BY DEF Exists
  <2>2. Become(o, q)
    BY <1>3, <2>1 DEF OpenChecks
  <2>3. n = s
    <3>1. n # s => row'[s] = row[s]
      BY <1>1, <1>3 DEF Insert, FreeSid
    <3> QED
      BY <3>1 DEF Exists
  <2> HIDE DEF n
  <2>4. o \in Task /\ q.pc = "inserted" /\ q.sid = n
    BY <1>1, OpFacts DEF TaskRecord
  <2> HIDE DEF q
  <2> QED
    BY <1>1, <2>2, <2>3, <2>4 DEF Become
<1> QED
  BY <1>2, <1>3, StepRows

\* A task that has deleted a row, or found it gone, finds it gone when it goes on.
LEMMA LandsGone ==
  ASSUME MoveInv, [Next]_vars, NEW t \in Closers, Lands(t) \/ task'[t] = task[t],
         task'[t].sid = task[t].sid, task[t].sid \in Sid,
         DroppedRow(task[t]) => ~Exists(task[t].sid), DroppedRow(task'[t])
  PROVE  row'[task[t].sid].state = "closed"
<1> DEFINE s == task[t].sid
<1>1. s # None /\ t \in Task
  BY NoneAssumption DEF Closers, Task
<1>2. CASE task'[t] = task[t]
  BY <1>1, <1>2, GoneRowStays
<1>3. CASE Lands(t) /\ task'[t].pc \in {"deleted", "dropped"}
  BY <1>3 DEF Lands, NoRow
<1>4. CASE Lands(t) /\ task'[t].pc = "fresh" /\ task'[t].rec.state = "closed"
  <2>1. task'[t].rec = row[s]
    BY <1>1, <1>4 DEF Lands, Read
  <2> QED
    BY <1>1, <1>4, <2>1, GoneRowStays DEF Exists
<1> QED
  BY <1>2, <1>3, <1>4 DEF DroppedRow

\* A request.
LEMMA OpDropsRightly ==
  ASSUME LifecycleInv, LifecycleInv', InsertsAlone, Settled, DeletedIsGone, [Next]_vars,
         ~GatewayCrashes, NEW o \in Op, DroppedRow(task'[o])
  PROVE  row'[task'[o].sid].state = "closed"
<1>1. /\ MoveInv /\ RecoveryIsAlone /\ row' \in [Sid -> Row] /\ o \in Task /\ o # Boot
      /\ o \in Closers /\ task \in [Task -> TaskRecord]
  BY InvIsMoveInv, ServiceAssumption
     DEF LifecycleInv, TypeOK, StoreTypeOK, Task, Closers, MoveInv
<1>2. task'[o].pc \in {"fresh", "deleted"}
  <2>1. ShapeOK(o, task'[o])
    BY <1>1 DEF LifecycleInv, TaskShape
  <2>2. task'[o].kind \in {"none", "open", "close", "force", "retry"}
    BY <1>1, <2>1, ServiceAssumption DEF ShapeOK, KindOK
  <2>3. task'[o].pc # "dropped"
    BY <2>1, <2>2 DEF ShapeOK, Suspended, ClosePcs, RetryPcs, DoClosePcs, ReattachPcs
  <2> QED
    BY <2>3 DEF DroppedRow
<1>3. task'[o].pc \in SettledPcs
  BY <1>2 DEF SettledPcs, DoClosePcs
<1>4. task'[o].sid = task[o].sid /\ task[o].sid \in Sid
  BY <1>3, OpStaysSettled
<1>5. ASSUME NEW kind, NEW a, Request(o, kind, a) PROVE FALSE
  <2> DEFINE r == [IdleTask EXCEPT !.pc = "enter", !.kind = kind, !.alias = a]
  <2>1. Become(o, r)
    BY <1>5 DEF Request
  <2>2. r.pc = "enter"
    BY IdleTyped DEF TaskRecord
  <2> HIDE DEF r
  <2> QED
    BY <1>1, <1>2, <2>1, <2>2 DEF Become
<1>6. Lands(o) \/ task'[o] = task[o]
  BY <1>1, <1>5, ClosersChange, OpLands
<1>7. DroppedRow(task[o]) => ~Exists(task[o].sid)
  BY <1>1 DEF DeletedIsGone
<1> QED
  BY <1>1, <1>4, <1>6, <1>7, LandsGone

\* Recovery.
LEMMA BootDropsRightly ==
  ASSUME LifecycleInv, LifecycleInv', Settled, DeletedIsGone, [Next]_vars,
         ~GatewayCrashes, DroppedRow(task'[Boot])
  PROVE  row'[task'[Boot].sid].state = "closed"
<1>1. /\ MoveInv /\ RecoveryIsAlone /\ row' \in [Sid -> Row] /\ Boot \in Task
      /\ Boot \in Closers /\ task \in [Task -> TaskRecord] /\ Boot \notin Op
  BY InvIsMoveInv, ServiceAssumption
     DEF LifecycleInv, TypeOK, StoreTypeOK, Task, Closers, MoveInv
<1>2. task'[Boot].pc \in {"fresh", "deleted", "dropped"}
  BY DEF DroppedRow
<1>3. \A s \in Sid : ~Active(s)
  BY <1>1, <1>2, BootStaysSettled DEF Active
<1>4. ShapeOK(Boot, task'[Boot])
  BY <1>1 DEF LifecycleInv, TaskShape
<1>5. task'[Boot].sid \in Sid /\ task'[Boot].sid # None
  BY <1>2, <1>4, NoneAssumption DEF ShapeOK
<1>6. DroppedRow(task[Boot]) => ~Exists(task[Boot].sid)
  BY <1>1 DEF DeletedIsGone
<1>7. CASE task'[Boot] = task[Boot]
  BY <1>1, <1>5, <1>6, <1>7, LandsGone
<1>8. CASE RecoverRow(Boot)
  <2>1. /\ row' = row /\ task'[Boot].pc \notin {"deleted", "dropped"}
        /\ task'[Boot].pc = "fresh" => task'[Boot].rec = row[task'[Boot].sid]
    BY <1>1, <1>5, <1>8, RowBegins DEF Read
  <2> QED
    BY <1>2, <2>1 DEF DroppedRow
<1>9. CASE BootStep /\ ~RecoverRow(Boot)
  <2>1. task'[Boot].sid = task[Boot].sid
    BY <1>1, <1>2, <1>9, BootSids
  <2>2. ~Active(task[Boot].sid) /\ task[Boot].sid \in Sid
    BY <1>3, <1>5, <2>1
  <2>3. Lands(Boot)
    BY <1>1, <1>9, <2>2, RecoveryLands, DoCloseLands, ReattachLands DEF BootStep
  <2> QED
    BY <1>1, <1>6, <2>1, <2>2, <2>3, LandsGone
<1> QED
  BY <1>1, <1>7, <1>8, <1>9, ClosersChange

\* Every step keeps deleted rows gone.
LEMMA DeletedStep ==
  ASSUME LifecycleInv, LifecycleInv', SafetyInv, DeletedIsGone, [Next]_vars
  PROVE  DeletedIsGone'
<1>1. CASE GatewayCrashes
  <2>1. \A t \in Task : task'[t].pc \in {"idle", "next_row"}
    BY <1>1, IdleTyped, NextRowShape DEF GatewayCrashes, TaskRecord
  <2> QED
    BY <2>1 DEF DeletedIsGone, DroppedRow, Closers, Task
<1>2. CASE ~GatewayCrashes
  <2>1. \A t \in Closers : DroppedRow(task'[t]) => row'[task'[t].sid].state = "closed"
    BY <1>2, OpDropsRightly, BootDropsRightly DEF Closers, SafetyInv
  <2> QED
    BY <2>1 DEF DeletedIsGone, DroppedRow, Exists
<1> QED
  BY <1>1, <1>2

\* A task at work on a row just inserted is its open.
LEMMA InsertedAlone ==
  ASSUME RecoveryIsAlone, InsertsAlone, NEW o \in Op, At(o, "inserted"),
         NEW t \in Closers, Active(t), task[t].sid = task[o].sid
  PROVE  t = o
BY DEF RecoveryIsAlone, InsertsAlone, Closers, Active, At

\* The row an open has inserted is in the table.
LEMMA InsertCreates ==
  ASSUME LifecycleInv, NEW o \in Op, OpenChecks(o), task'[o].pc = "inserted"
  PROVE  row'[task'[o].sid].state # "closed"
<1> DEFINE n == NewSid
           w == NewRow(task[o].alias)
<1>1. /\ MoveInv /\ o \in Task /\ task \in [Task -> TaskRecord] /\ row \in [Sid -> Row]
      /\ IdleTask.pc = "idle"
  BY InvIsMoveInv, OpFacts, IdleTyped DEF LifecycleInv, TypeOK, StoreTypeOK
<1>2. ~End(o)
  BY <1>1 DEF End, Become
<1>3. row' = [row EXCEPT ![n] = w]
  BY <1>2 DEF OpenChecks, Insert
<1>4. n \in Sid /\ task'[o].sid = n
  BY <1>1, InsertsFresh DEF FreeSid
<1>5. w.state = "starting"
  BY DEF NewRow, NoRow
<1> HIDE DEF n, w
<1> QED
  BY <1>1, <1>3, <1>4, <1>5

\* No step deletes it but its open's.
LEMMA InsertedStep ==
  ASSUME LifecycleInv, LifecycleInv', SafetyInv, InsertedExists, [Next]_vars
  PROVE  InsertedExists'
<1>1. MoveInv /\ RecoveryIsAlone
  BY InvIsMoveInv
<1>2. CASE GatewayCrashes
  <2>1. \A t \in Task : task'[t].pc \in {"idle", "next_row"}
    BY <1>2, IdleTyped, NextRowShape DEF GatewayCrashes, TaskRecord
  <2> QED
    BY <2>1 DEF InsertedExists, At, Task
<1>3. CASE ~GatewayCrashes
  <2> SUFFICES ASSUME NEW o \in Op, task'[o].pc = "inserted"
               PROVE  row'[task'[o].sid].state # "closed"
    BY DEF InsertedExists, At, Exists
  <2>1. CASE OpenChecks(o)
    BY <2>1, InsertCreates
  <2>2. CASE task'[o] = task[o]
    <3> DEFINE s == task[o].sid
    <3>1. At(o, "inserted") /\ Exists(s)
      BY <2>2 DEF At, InsertedExists
    <3>2. s \in Sid
      BY <1>1, <3>1, OpFacts DEF At
    <3>3. ASSUME NEW t \in Closers, OpenStarts(t) \/ DoCloseFinishes(t) \/ RecoveryDrops(t),
                 task[t].sid = s
          PROVE  FALSE
      <4>1. task[t].pc \in {"inserted", "finish", "drop"}
        BY <3>3 DEF OpenStarts, DoCloseFinishes, RecoveryDrops, At
      <4>2. t = o
        BY <1>1, <3>1, <3>3, <4>1, InsertedAlone DEF SafetyInv, Active
      <4>3. OpenStarts(o)
        BY <3>1, <3>3, <4>2 DEF DoCloseFinishes, RecoveryDrops, At
      <4> QED
        BY <1>1, <4>3, OpenStartsEnds
    <3> QED
      BY <1>1, <2>2, <3>1, <3>2, <3>3, Deletions
  <2> QED
    BY <1>3, <2>1, <2>2, RequestsChange
<1> QED
  BY <1>2, <1>3

-----------------------------------------------------------------------------
\* _do_close and recovery give the slot of a row back once it is deleted.
LEMMA OwnedShrinks ==
  ASSUME MoveInv, [Next]_vars, ~GatewayCrashes, NEW s \in owned, s \notin owned'
  PROVE  \E t \in Closers : DroppedRow(task[t]) /\ task[t].sid = s
<1>1. ASSUME NEW t \in Closers, DoCloseStep(t)
      PROVE  DroppedRow(task[t]) /\ task[t].sid = s
  <2>1. DoCloseTakesTunnel(t) \/ DoCloseReleases(t)
    BY <1>1 DEF DoCloseStep, DoCloseReads, DoCloseStopsListener, DoCloseDials,
       DoCloseStopsRemote, DoCloseClosesConn, DoCloseForgets, DoCloseFinishes, memory
  <2>2. CASE DoCloseTakesTunnel(t)
    <3>1. /\ At(t, "fresh") /\ task[t].rec.state = "closed"
          /\ owned' = owned \ {task[t].sid}
      BY <2>2 DEF DoCloseTakesTunnel
    <3> QED
      BY <3>1 DEF DroppedRow, At
  <2>3. CASE DoCloseReleases(t)
    BY <2>3 DEF DoCloseReleases, DroppedRow, At
  <2> QED
    BY <2>1, <2>2, <2>3
<1>2. RecoveryStep(Boot) => DroppedRow(task[Boot]) /\ task[Boot].sid = s
  BY DEF RecoveryStep, RecoverRow, RecoveryReattaches, RecoveryEnds, RecoveryDials,
     RecoveryInspects, RecoveryChecked, RecoveryDrops, RecoveryReleases,
     RecoveryClearsLost, RecoveryMarks, memory, DroppedRow, At
<1>3. ASSUME NEW o \in Op, OpenStep(o) \/ CloseStep(o) \/ RetryStep(o) PROVE FALSE
  BY <1>3 DEF OpenStep, CloseStep, RetryStep, Enter, OpenChecks, OpenStarts,
     CloseRecordsIntent, CloseCancelsStart, CloseStarts, RetryBegins, RetryProceeds,
     RetryReopens, memory
<1>4. \A t : ~ReattachStep(t)
  BY ReattachMovesNoSlot
<1>5. \A u \in Sid : ~StartStep(u) /\ ~HelperStep(u)
  BY StartMovesNoSlot
<1>6. \A c \in Conn : ~WatcherStep(c)
  BY <1>4, WatchMovesNoSlot DEF WatcherStep
<1>7. ASSUME \/ \E o \in Op, kind \in Requests, a \in Alias : Request(o, kind, a)
             \/ Environment \/ UNCHANGED vars
      PROVE  owned' = owned
  BY <1>7 DEF Request, Environment, ProcessDies, PidReused, OnlyRemote, ConnectionLost,
     vars, memory
<1> QED
  BY <1>1, <1>2, <1>3, <1>4, <1>5, <1>6, <1>7
     DEF Next, Quiescent, OpStep, BootStep, Closers

\* The task that deletes a row goes on to give its slot back.
LEMMA DeletersGoOn ==
  ASSUME MoveInv, NEW t \in Closers, DoCloseFinishes(t) \/ RecoveryDrops(t),
         task[t].sid \in Sid, Exists(task[t].sid), row'[task[t].sid].state = "closed"
  PROVE  task'[t].pc \in {"deleted", "dropped"} /\ task'[t].sid = task[t].sid
<1>1. /\ t \in Task /\ task[t] \in TaskRecord /\ task \in [Task -> TaskRecord] /\ StoreTypeOK
  BY TaskFacts DEF Closers, Task, MoveInv, TypeOK
<1>2. ~MarkError(task[t].sid, "stop_failed")
  BY <1>1, EditFields
<1>3. Goto(t, "deleted") \/ Goto(t, "dropped")
  BY <1>2, BootFacts DEF DoCloseFinishes, RecoveryDrops, Closers, At
<1> QED
  BY <1>1, <1>3 DEF Goto, TaskRecord

\* At "deleted", or "dropped", the next step gives the slot back.
LEMMA ReleasesNext ==
  ASSUME MoveInv, NEW t \in Closers, task[t].pc \in {"deleted", "dropped"},
         (t \in Op /\ OpStep(t)) \/ (t = Boot /\ BootStep)
  PROVE  task[t].sid \notin owned'
<1>1. CASE OpStep(t)
  BY <1>1 DEF OpStep, OpenStep, Enter, OpenChecks, OpenStarts, CloseStep,
     CloseRecordsIntent, CloseCancelsStart, CloseStarts, RetryStep, RetryBegins,
     RetryProceeds, RetryReopens, DoCloseStep, DoCloseReads, DoCloseTakesTunnel,
     DoCloseStopsListener, DoCloseDials, DoCloseStopsRemote, DoCloseClosesConn,
     DoCloseForgets, DoCloseFinishes, DoCloseReleases, ReattachStep, Reconnects,
     Interrupted, Inspects, RemovesAbsent, ReattachVerifies, ReattachInstalls,
     ReattachReads, DropsConn, BackoffEnds, At
<1>2. CASE t = Boot /\ BootStep
  BY <1>2 DEF BootStep, RecoveryStep, RecoverRow, RecoveryReattaches, RecoveryEnds,
     RecoveryDials, RecoveryInspects, RecoveryChecked, RecoveryDrops, RecoveryReleases,
     RecoveryClearsLost, RecoveryMarks, DoCloseStep, DoCloseReads, DoCloseTakesTunnel,
     DoCloseStopsListener, DoCloseDials, DoCloseStopsRemote, DoCloseClosesConn,
     DoCloseForgets, DoCloseFinishes, DoCloseReleases, ReattachStep, Reconnects,
     Interrupted, Inspects, RemovesAbsent, ReattachVerifies, ReattachInstalls,
     ReattachReads, DropsConn, BackoffEnds, At
<1> QED
  BY <1>1, <1>2

\* Every step keeps a slot without a row about to be given back.
LEMMA ReleasedStep ==
  ASSUME LifecycleInv, LifecycleInv', SafetyInv, InsertedExists, SlotIsReleased,
         [Next]_vars
  PROVE  SlotIsReleased'
<1>1. /\ MoveInv /\ RecoveryIsAlone /\ row' \in [Sid -> Row] /\ owned' \subseteq Sid
  BY InvIsMoveInv DEF LifecycleInv, TypeOK, StoreTypeOK
<1> SUFFICES ASSUME NEW s \in owned', row'[s].state = "closed"
             PROVE  \E t \in Closers : /\ task'[t].pc \in {"deleted", "dropped"}
                                       /\ task'[t].sid = s
  BY DEF SlotIsReleased, Exists
<1>2. ~GatewayCrashes
  BY DEF GatewayCrashes, Exists
<1>3. s \in Sid
  BY <1>1
<1>4. CASE s \notin owned
  <2>1. PICK o \in Op : OpenStarts(o) /\ At(o, "inserted") /\ task[o].sid = s
    BY <1>2, <1>4, OwnedGrows
  <2>2. row' = row
    BY <1>4, <2>1 DEF OpenStarts
  <2> QED
    BY <2>1, <2>2 DEF InsertedExists, Exists
<1>5. CASE s \in owned /\ Exists(s)
  <2>1. PICK t \in Closers : /\ OpenStarts(t) \/ DoCloseFinishes(t) \/ RecoveryDrops(t)
                             /\ task[t].sid = s
    BY <1>1, <1>3, <1>5, Deletions
  <2>2. ~OpenStarts(t)
    <3>1. SUFFICES ASSUME At(t, "inserted") PROVE FALSE
      BY DEF OpenStarts
    <3>2. t \in Op
      <4>1. task[Boot].pc # "inserted"
        BY <1>1, BootFacts DEF Suspended, BootPcs, DoClosePcs, ReattachPcs
      <4> QED
        BY <3>1, <4>1 DEF Closers, At
    <3> QED
      BY <1>5, <2>1, <3>1, <3>2 DEF SafetyInv, InsertsAlone
  <2> QED
    BY <1>1, <1>3, <1>5, <2>1, <2>2, DeletersGoOn
<1>6. CASE s \in owned /\ ~Exists(s)
  <2>1. PICK t \in Closers : task[t].pc \in {"deleted", "dropped"} /\ task[t].sid = s
    BY <1>6 DEF SlotIsReleased
  <2>2. task'[t] = task[t]
    <3>1. \A kind, a : ~Request(t, kind, a)
      BY <2>1 DEF Request, At
    <3> QED
      BY <1>1, <1>2, <2>1, <3>1, ClosersChange, ReleasesNext
  <2> QED
    BY <2>1, <2>2
<1> QED
  BY <1>4, <1>5, <1>6

\* Every step keeps a row with its slot, or its open about to take one.
LEMMA HasSlotStep ==
  ASSUME LifecycleInv, LifecycleInv', DeletedIsGone, RowHasSlot, [Next]_vars
  PROVE  RowHasSlot'
<1>1. MoveInv /\ RecoveryIsAlone /\ row' \in [Sid -> Row] /\ row \in [Sid -> Row]
  BY InvIsMoveInv DEF LifecycleInv, TypeOK, StoreTypeOK
<1> SUFFICES ASSUME NEW s \in Sid, row'[s].state # "closed", s \notin owned'
             PROVE  \E o \in Op : task'[o].pc = "inserted" /\ task'[o].sid = s
  BY DEF RowHasSlot, Exists, At
<1>2. ~GatewayCrashes
  BY DEF GatewayCrashes, Exists
<1>3. CASE ~Exists(s)
  BY <1>1, <1>3, InsertsNew
<1>4. CASE Exists(s) /\ s \in owned
  BY <1>1, <1>2, <1>4, OwnedShrinks DEF DeletedIsGone
<1>5. CASE Exists(s) /\ s \notin owned
  <2>1. PICK o \in Op : At(o, "inserted") /\ task[o].sid = s
    BY <1>5 DEF RowHasSlot
  <2>2. task'[o] = task[o]
    <3>1. o \in Closers /\ o # Boot
      BY ServiceAssumption DEF Closers
    <3>2. \A kind, a : ~Request(o, kind, a)
      BY <2>1 DEF Request, At
    <3>3. ~OpenStarts(o)
      BY <1>1, <2>1 DEF OpenStarts, Delete, NoRow
    <3>4. ~OpStep(o)
      BY <2>1, <3>3 DEF OpStep, OpenStep, Enter, OpenChecks, CloseStep,
         CloseRecordsIntent, CloseCancelsStart, CloseStarts, RetryStep, RetryBegins,
         RetryProceeds, RetryReopens, DoCloseStep, DoCloseReads, DoCloseTakesTunnel,
         DoCloseStopsListener, DoCloseDials, DoCloseStopsRemote, DoCloseClosesConn,
         DoCloseForgets, DoCloseFinishes, DoCloseReleases, ReattachStep, Reconnects,
         Interrupted, Inspects, RemovesAbsent, ReattachVerifies, ReattachInstalls,
         ReattachReads, DropsConn, BackoffEnds, At
    <3> QED
      BY <1>1, <1>2, <3>1, <3>2, <3>4, ClosersChange
  <2> QED
    BY <2>1, <2>2 DEF At
<1> QED
  BY <1>3, <1>4, <1>5

\* Every step keeps rows and slots together.
LEMMA SlotStep ==
  ASSUME LifecycleInv, LifecycleInv', SafetyInv, SlotInv, [Next]_vars
  PROVE  SlotInv'
<1>1. DeletedIsGone /\ InsertedExists /\ SlotIsReleased /\ RowHasSlot
  BY DEF SlotInv
<1>2. DeletedIsGone' /\ InsertedExists' /\ SlotIsReleased' /\ RowHasSlot'
  BY <1>1, DeletedStep, InsertedStep, ReleasedStep, HasSlotStep
<1> QED
  BY <1>2 DEF SlotInv

\* At first there are neither rows nor slots.
LEMMA SlotInit ==
  ASSUME Init
  PROVE  SlotInv
<1>1. \A t \in Task : task[t].pc = "idle"
  BY IdleTyped DEF Init, TaskRecord, IdleTask
<1>2. (\A s \in Sid : ~Exists(s)) /\ owned = {}
  BY DEF Init, StoreInit, NoRow, Exists
<1> QED
  BY <1>1, <1>2 DEF SlotInv, DeletedIsGone, InsertedExists, SlotIsReleased, RowHasSlot,
     DroppedRow, At, Closers, Task

\* A slot without a row has a task at work on it.
LEMMA SlotsAreWorkedOn ==
  ASSUME LifecycleInv, SlotInv
  PROVE  SlotPerRow
<1>1. \A s \in Sid : Exists(s) => s \in owned \/ \E o \in Op : At(o, "inserted") /\ task[o].sid = s
  BY DEF SlotInv, RowHasSlot
<1>2. ASSUME NEW s \in owned, ~Exists(s) PROVE Working(s) # {}
  <2>1. PICK t \in Closers : task[t].pc \in {"deleted", "dropped"} /\ task[t].sid = s
    BY <1>2 DEF SlotInv, SlotIsReleased
  <2>2. s \in Sid
    BY DEF LifecycleInv, TypeOK
  <2>3. t \in Task /\ t # s
    BY <2>2, ServiceAssumption DEF Closers, Task
  <2> QED
    BY <2>1, <2>3 DEF Working, Active, At
<1> QED
  BY <1>1, <1>2 DEF SlotPerRow

\* The lifecycle keeps rows and slots together through every order of its tasks.
THEOREM SlotInvariant == Spec => []SlotInv
<1>1. Init => SlotInv
  BY SlotInit
<1>2. LifecycleInv /\ LifecycleInv' /\ SafetyInv /\ SlotInv /\ [Next]_vars => SlotInv'
  BY SlotStep
<1> QED
  BY <1>1, <1>2, LifecycleInvariant, SafetyInvariant, PTL DEF Spec

\* No order of opens, closes, retries, losses and restarts leaks a slot or frees one in
\* use: every row has its slot, but within open() between the insert and the acquisition,
\* and every slot its row, but within a close between the deletion and the release.
THEOREM SlotsFollowRows == Spec => []SlotPerRow
<1>1. LifecycleInv /\ SlotInv => SlotPerRow
  BY SlotsAreWorkedOn
<1> QED
  BY <1>1, LifecycleInvariant, SlotInvariant, PTL

-----------------------------------------------------------------------------
(***************************************************************************)
(* Rows in a transient state: DrivenInv.                                   *)
(***************************************************************************)
\* A row becomes starting by the insert of an open, stopping by the record of a close.
LEMMA TransientBegins ==
  ASSUME MoveInv, [Next]_vars, NEW s \in Sid
  PROVE  /\ row'[s].state = "starting" =>
              \/ row[s].state = "starting"
              \/ \E o \in Op : task'[o].pc = "inserted" /\ task'[o].sid = s
         /\ row'[s].state = "stopping" =>
              \/ row[s].state = "stopping"
              \/ \E o \in Op : CloseRecordsIntent(o) /\ task[o].sid = s
<1>1. StoreTypeOK /\ row \in [Sid -> Row]
  BY DEF MoveInv, TypeOK, StoreTypeOK
<1>2. ASSUME NEW u, Edited(u)
      PROVE  /\ row'[s].state = "starting" => row[s].state = "starting"
             /\ row'[s].state = "stopping" =>
                  row[s].state = "stopping" \/ \E o \in Op : CloseRecordsIntent(o) /\ task[o].sid = s
  <2>1. CASE row' = row
    BY <2>1
  <2>2. CASE u # s /\ u \in Sid /\ EditStatement(u)
    BY <1>1, <2>2, EditsOne
  <2>3. CASE u = s /\ EditStatement(s)
    <3>1. ~Exists(s) => row[s].state = "closed"
      BY DEF Exists
    <3>2. \A code : MarkError(s, code) => row'[s].state = "error" \/ row'[s] = row[s]
      BY <1>1, EditFields
    <3>3. MarkStopping(s) => row'[s].state = "stopping" \/ row'[s] = row[s]
      BY <1>1, EditFields
    <3>4. CompleteRecovery(s) => row'[s].state = "ready" \/ row'[s] = row[s]
      BY <1>1, EditFields
    <3>5. MarkReady(s) => row'[s].state = "ready" \/ row'[s].state = row[s].state
      BY <1>1, EditFields
    <3>6. (\/ SetRemoteIdentity(s) \/ ClearRemoteIdentity(s) \/ SetTunnelIdentity(s)
           \/ ClearTunnelIdentity(s) \/ BeginRecovery(s)) => row'[s].state = row[s].state
      BY <1>1, EditFields
    <3> QED
      BY <2>3, <3>2, <3>3, <3>4, <3>5, <3>6 DEF EditStatement
  <2> QED
    BY <1>2, <2>1, <2>2, <2>3 DEF Edited
<1>3. ASSUME NEW u \in Sid, Delete(u)
      PROVE  row'[s] = row[s] \/ row'[s].state = "closed"
  BY <1>1, <1>3 DEF Delete, NoRow
<1>4. ASSUME NEW a, Insert(NewSid, a), NewSid \in FreeSid, Exists(s)
      PROVE  row'[s] = row[s]
  BY <1>1, <1>4 DEF Insert
<1>5. CASE Exists(s)
  BY <1>2, <1>3, <1>4, <1>5, StepRows
<1>6. CASE ~Exists(s)
  <2>1. row'[s].state # "closed" =>
          \E o \in Op : task'[o].pc = "inserted" /\ task'[o].sid = s
    BY <1>6, InsertsNew
  <2>2. CASE row'[s].state = "stopping"
    <3>1. PICK o \in Op : task'[o].pc = "inserted" /\ task'[o].sid = s
      BY <2>1, <2>2
    <3>2. ASSUME NEW u \in Sid, Delete(u) PROVE row'[s].state = "closed"
      BY <1>3, <1>6, <3>2 DEF Exists
    <3>3. ASSUME NEW a, Insert(NewSid, a), NewSid \in FreeSid PROVE row'[s].state # "stopping"
      <4> DEFINE w == NewRow(a)
      <4>1. w.state = "starting"
        BY DEF NewRow, NoRow
      <4>2. row' = [row EXCEPT ![NewSid] = w]
        BY <3>3 DEF Insert
      <4> HIDE DEF w
      <4>3. row'[s] = row[s] \/ row'[s] = w
        BY <1>1, <4>2
      <4> QED
        BY <1>6, <4>1, <4>3 DEF Exists
    <3> QED
      BY <1>2, <2>2, <3>2, <3>3, StepRows
  <2> QED
    BY <2>1, <2>2
<1> QED
  BY <1>5, <1>6

\* While a task is active for a start, its row does not become starting anew.
LEMMA StartedOnce ==
  ASSUME LifecycleInv, LifecycleInv', SafetyInv', [Next]_vars, NEW s \in Sid,
         task'[s].pc # "idle", NotStarting(s)
  PROVE  row'[s].state # "starting"
<1>1. MoveInv
  BY InvIsMoveInv
<1>2. ASSUME NEW o \in Op, task'[o].pc = "inserted", task'[o].sid = s PROVE FALSE
  BY <1>2 DEF SafetyInv, Unlaunched, At, Active
<1> QED
  BY <1>1, <1>2, TransientBegins DEF NotStarting

\* Another request's insert does not make the row of a request starting anew.
LEMMA OpsStartOnce ==
  ASSUME LifecycleInv, LifecycleInv', SafetyInv', [Next]_vars, NEW o \in Op,
         task'[o].pc # "inserted", task'[o].sid \in Sid, NotStarting(task'[o].sid)
  PROVE  row'[task'[o].sid].state # "starting"
<1>1. MoveInv
  BY InvIsMoveInv
<1>2. ASSUME NEW p \in Op, task'[p].pc = "inserted", task'[p].sid = task'[o].sid PROVE FALSE
  BY <1>2 DEF SafetyInv, InsertsAlone, At
<1> QED
  BY <1>1, <1>2, TransientBegins DEF NotStarting

\* While recovery runs, no row becomes starting or stopping.
LEMMA RecoveryRests ==
  ASSUME LifecycleInv, LifecycleInv', [Next]_vars, NEW s \in Sid,
         Active(Boot), task'[Boot].pc # "idle", Rests(s)
  PROVE  row'[s].state \notin {"starting", "stopping"}
<1>1. MoveInv
  BY InvIsMoveInv
<1>2. \A o \in Op : task[o].pc = "idle" /\ task'[o].pc = "idle"
  BY DEF LifecycleInv, RecoveryIsAlone, Active
<1>3. \A o \in Op : ~CloseRecordsIntent(o)
  BY <1>2 DEF CloseRecordsIntent, At
<1> QED
  BY <1>1, <1>2, <1>3, TransientBegins DEF Rests

\* Where a step of the start task leads, and what it has read of the row there.
BodyPcs == {"install", "start", "identity", "forward", "tunnel", "verify"}
LEMMA StartGoesTo ==
  ASSUME MoveInv, NEW s \in Sid, StartStep(s)
  PROVE  \/ task'[s].pc \in BodyPcs
         \/ task'[s].pc = "ready" /\ StartVerifies(s)
         \/ task'[s].pc \in ToldPcs /\ task'[s].rec = row[s] /\ row' = row
         \/ task'[s].pc \in ToldPcs /\ task'[s].rec = task[s].rec /\ task[s].pc \in ToldPcs
         \/ /\ task'[s].pc = "idle"
            /\ \/ StartDone(s) \/ StartUnhandled(s) \/ CleanupCancelled(s) \/ CleanupMarks(s)
               \/ CleanupDecides(s) /\ task[s].rec.state = "ready"
<1> DEFINE Reading == task'[s].pc \in ToldPcs /\ task'[s].rec = row[s]
           Ended == task'[s].pc = "idle"
<1>1. s \in Task /\ task \in [Task -> TaskRecord] /\ task[s] \in TaskRecord
  BY TaskFacts DEF MoveInv, TypeOK, Task
<1>2. ASSUME NEW p, Goto(s, p) PROVE task'[s].pc = p /\ task'[s].rec = task[s].rec
  BY <1>1, <1>2 DEF Goto, TaskRecord
<1>3. End(s) => Ended
  BY <1>1, IdleTyped DEF End, Become
<1>4. ASSUME NEW q, Become(s, q) PROVE task'[s] = q
  BY <1>1, <1>4 DEF Become
<1>5. AfterTunnel(s) \in {"mark", "undo_remote", "undo_conn"}
  BY DEF AfterTunnel
<1>6. ASSUME NEW exc, DropLocal(s, exc) PROVE Reading
  <2> DEFINE x == tunnels[s]
             p == IF x.c = None THEN AfterTunnel(s) ELSE "watcher"
             q == [task[s] EXCEPT !.exc = exc, !.old = x, !.rec = row[s], !.pc = p]
  <2>1. Become(s, q)
    BY <1>6 DEF DropLocal
  <2>2. p \in ToldPcs
    BY <1>5 DEF ToldPcs
  <2> HIDE DEF p, x
  <2>3. q.pc = p /\ q.rec = row[s]
    BY <1>1 DEF TaskRecord
  <2> HIDE DEF q
  <2> QED
    BY <1>4, <2>1, <2>2, <2>3
<1>7. ASSUME NEW exc, CleansUp(s, exc) PROVE Reading
  <2> DEFINE q == [task[s] EXCEPT !.pc = "ready_read", !.exc = exc, !.rec = row[s]]
  <2>1. q.pc = "ready_read" /\ q.rec = row[s]
    BY <1>1 DEF TaskRecord
  <2>2. Become(s, q) \/ DropLocal(s, exc)
    BY <1>7 DEF CleansUp
  <2> HIDE DEF q
  <2> QED
    BY <1>4, <1>6, <2>1, <2>2 DEF ToldPcs
<1>8. CASE StartCancelled(s) \/ StartFails(s)
  BY <1>7, <1>8 DEF StartCancelled, StartFails
<1>9. CASE StartInstalls(s) \/ StartForwarded(s)
  BY <1>2, <1>9 DEF StartInstalls, StartForwarded, BodyPcs
<1>10. CASE StartDone(s) \/ StartUnhandled(s) \/ CleanupCancelled(s) \/ CleanupMarks(s)
  BY <1>3, <1>10 DEF StartDone, StartUnhandled, CleanupCancelled, CleanupMarks
<1>11. CASE CleanupDecides(s)
  <2>1. (task[s].rec.state = "ready" /\ End(s)) \/ \E exc : DropLocal(s, exc)
    BY <1>11 DEF CleanupDecides
  <2>2. row' = row
    BY <1>11 DEF CleanupDecides
  <2> QED
    BY <1>3, <1>6, <1>11, <2>1, <2>2
<1>12. CASE CleanupWatcherEnded(s) \/ CleanupListener(s) \/ CleanupRemote(s)
  <2>1. task[s].pc \in ToldPcs
    BY <1>12 DEF CleanupWatcherEnded, CleanupListener, CleanupRemote, Resumes, At, ToldPcs
  <2>2. \E p \in ToldPcs : Goto(s, p)
    BY <1>5, <1>12 DEF CleanupWatcherEnded, CleanupListener, CleanupRemote, ToldPcs
  <2> QED
    BY <1>2, <2>1, <2>2
<1>13. CASE StartLaunches(s) \/ StartForwards(s) \/ StartVerifies(s)
  <2> DEFINE With(p, l) == [task[s] EXCEPT !.pc = p, !.ledger = l]
             l2 == task[s].ledger \cup {"identity"}
             l3 == task[s].ledger \cup {"ready"}
  <2>1. \/ Become(s, With("identity", {"remote"}))
        \/ Become(s, With("forward", l2))
        \/ StartVerifies(s) /\ Become(s, With("ready", l3))
    BY <1>13 DEF StartLaunches, StartForwards, StartVerifies
  <2>2. \A p, l : With(p, l).pc = p
    BY <1>1 DEF TaskRecord
  <2> HIDE DEF With
  <2> QED
    BY <1>4, <2>1, <2>2 DEF BodyPcs
<1>14. CASE CleanupConn(s)
  <2> DEFINE q == [task[s] EXCEPT !.pc = "mark", !.c = None, !.old = NoTunnel, !.rec = row[s]]
  <2>1. q.pc = "mark" /\ q.rec = row[s]
    BY <1>1 DEF TaskRecord
  <2>2. Become(s, q) /\ row' = row
    BY <1>14 DEF CleanupConn
  <2> HIDE DEF q
  <2> QED
    BY <1>4, <2>1, <2>2 DEF ToldPcs
<1>15. CASE StartConnects(s)
  <2> DEFINE In(c) == [task[s] EXCEPT !.pc = "install", !.c = c]
             q == [task[s] EXCEPT !.pc = "unhandled", !.rec = row[s]]
  <2>1. (\A c : In(c).pc = "install") /\ q.pc = "unhandled" /\ q.rec = row[s]
    BY <1>1 DEF TaskRecord
  <2>2. row' = row /\ (Become(s, q) \/ \E c : Become(s, In(c)))
    BY <1>15 DEF StartConnects
  <2> HIDE DEF q, In
  <2> QED
    BY <1>4, <2>1, <2>2 DEF ToldPcs, BodyPcs
<1>16. CASE StartPublishes(s)
  <2> DEFINE l == task[s].ledger \cup {"registry"}
             q == [task[s] EXCEPT !.pc = "verify", !.ledger = l]
             c == task[s].c
             w == Watcher(s)
  <2>1. task' = [[task EXCEPT ![s] = q] EXCEPT ![c] = w]
    BY <1>16 DEF StartPublishes
  <2>2. q.pc = "verify"
    BY <1>1 DEF TaskRecord
  <2>3. c # s
    BY <1>1, ServiceAssumption, NoneAssumption DEF TaskRecord
  <2> HIDE DEF q, c, w
  <2> QED
    BY <1>1, <2>1, <2>2, <2>3 DEF BodyPcs
<1> QED
  BY <1>8, <1>9, <1>10, <1>11, <1>12, <1>13, <1>14, <1>15, <1>16 DEF StartStep

\* What the start task has read of its row stays true of it.
LEMMA StartReads ==
  ASSUME MoveInv, NEW s \in Sid, StartStep(s), Told(task'[s])
  PROVE  Told(task[s]) \/ row'[s].state # "starting"
<1>1. StoreTypeOK
  BY DEF MoveInv, TypeOK
<1>2. "ready" \notin ToldPcs /\ "idle" \notin ToldPcs /\ BodyPcs \cap ToldPcs = {}
      /\ "ready" \notin BodyPcs
  BY DEF ToldPcs, BodyPcs
<1>3. CASE StartVerifies(s)
  <2>1. MarkReady(s) => row'[s].state = row[s].state \/ row'[s].state = "ready"
    BY <1>1, EditFields
  <2>2. MarkReady(s) /\ row[s].state = "starting" => row'[s].state = "ready"
    BY <1>1 DEF MarkReady, StoreTypeOK, Row, LiveRow, NoRow
  <2> QED
    BY <1>3, <2>1, <2>2 DEF StartVerifies
<1>4. CASE ~StartVerifies(s)
  <2>1. task'[s].pc \in ToldPcs /\ task'[s].rec.state # "starting"
    BY <1>2, <1>4, StartGoesTo DEF Told
  <2> QED
    BY <1>2, <1>4, <2>1, StartGoesTo DEF Told
<1> QED
  BY <1>3, <1>4

\* A start task that ends leaves no starting row and no cancellation behind.
LEMMA StartEndsTold ==
  ASSUME MoveInv, StartIsTold, NEW s \in Sid, StartStep(s), task'[s].pc = "idle"
  PROVE  row'[s].state # "starting" /\ s \notin cancelled'
<1>1. StoreTypeOK
  BY DEF MoveInv, TypeOK
<1>2. \A code : MarkError(s, code) => row'[s].state = "error" \/ row'[s] = row[s]
  BY <1>1, EditFields
<1>3. ASSUME NEW code, MarkError(s, code) PROVE row'[s].state # "starting"
  <2>1. ~Exists(s) => row[s].state # "starting"
    BY DEF Exists
  <2>2. Exists(s) /\ MarkError(s, code) => row'[s].state = "error"
    BY <1>1, EditFields
  <2> QED
    BY <1>2, <1>3, <2>1, <2>2
<1>4. s \in cancelled => NotStarting(s)
  BY DEF StartIsTold
<1>5. CASE StartDone(s)
  BY <1>5 DEF StartDone, Resumes, At, StartIsTold, Told, NotStarting
<1>6. CASE StartUnhandled(s)
  <2>1. task[s].rec.state # "starting" => NotStarting(s)
    BY <1>6 DEF StartUnhandled, At, StartIsTold, Told, ToldPcs
  <2> QED
    BY <1>3, <1>4, <1>6, <2>1 DEF StartUnhandled, Delivered, NotStarting
<1>7. CASE CleanupCancelled(s)
  BY <1>4, <1>7 DEF CleanupCancelled, Delivered, NotStarting
<1>8. CASE CleanupMarks(s)
  <2>1. task[s].rec.state \in {"closed", "ready"} => NotStarting(s)
    BY <1>8 DEF CleanupMarks, Resumes, At, StartIsTold, Told, ToldPcs
  <2> QED
    BY <1>3, <1>8, <2>1 DEF CleanupMarks, Resumes, NotStarting
<1>9. CASE CleanupDecides(s) /\ task[s].rec.state = "ready"
  <2>1. NotStarting(s)
    BY <1>9 DEF CleanupDecides, Resumes, At, StartIsTold, Told, ToldPcs
  <2> QED
    BY <1>9, <2>1 DEF CleanupDecides, Resumes, NotStarting
<1>10. "idle" \notin BodyPcs /\ "idle" \notin ToldPcs
  BY DEF BodyPcs, ToldPcs
<1>11. \/ StartDone(s) \/ StartUnhandled(s) \/ CleanupCancelled(s) \/ CleanupMarks(s)
       \/ CleanupDecides(s) /\ task[s].rec.state = "ready"
  BY <1>10, StartGoesTo
<1> QED
  BY <1>5, <1>6, <1>7, <1>8, <1>9, <1>11

\* A watcher is no start task.
LEMMA WatchersAreConns ==
  ASSUME NEW x
  PROVE  WatcherOf(x) \subseteq Conn
BY DEF WatcherOf

\* Who cancels a start task: a close that has recorded its intent, or the retry of a
\* session in error.
CancelsStart(o, s) ==
  /\ task[o].sid = s /\ Active(s)
  /\ At(o, "stopping") \/ (At(o, "looked_up") /\ task[o].rec.state = "error")
LEMMA CancelledGrows ==
  ASSUME MoveInv, [Next]_vars, NEW s \in Sid, s \in cancelled', s \notin cancelled
  PROVE  \E o \in Op : CancelsStart(o, s)
<1> DEFINE Grows == \E o \in Op : CancelsStart(o, s)
<1>1. s \notin Conn /\ \A x : s \notin WatcherOf(x)
  BY WatchersAreConns, ServiceAssumption
<1>2. ASSUME NEW t, DoCloseStep(t) PROVE FALSE
  BY <1>1, <1>2 DEF DoCloseStep, DoCloseReads, DoCloseTakesTunnel, DoCloseStopsListener,
     DoCloseDials, DoCloseStopsRemote, DoCloseClosesConn, DoCloseForgets, DoCloseFinishes,
     DoCloseReleases
<1>3. ASSUME NEW t, ReattachStep(t) PROVE FALSE
  BY <1>3 DEF ReattachStep, Reconnects, Interrupted, Inspects, RemovesAbsent,
     ReattachVerifies, ReattachInstalls, ReattachReads, DropsConn, BackoffEnds, Interrupts,
     Uninterrupted, Delivered
<1>4. ASSUME NEW o \in Op, OpenStep(o) \/ CloseStep(o) \/ RetryStep(o) PROVE Grows
  <2>1. CASE OpenStep(o)
    BY <2>1 DEF OpenStep, Enter, OpenChecks, OpenStarts
  <2>2. CASE CloseStep(o)
    BY <2>2 DEF CloseStep, CloseRecordsIntent, CloseCancelsStart, CloseStarts, Cancel,
       CancelsStart, At
  <2>3. CASE RetryStep(o)
    BY <2>3 DEF RetryStep, RetryBegins, RetryProceeds, RetryReopens, Cancel, CancelsStart, At
  <2> QED
    BY <1>4, <2>1, <2>2, <2>3
<1>5. ASSUME NEW u, StartStep(u) PROVE FALSE
  BY <1>1, <1>5 DEF StartStep, StartCancelled, StartConnects, StartInstalls, StartLaunches,
     StartForwards, StartForwarded, StartPublishes, StartVerifies, StartDone,
     StartUnhandled, StartFails, CleanupCancelled, CleanupDecides, CleanupWatcherEnded,
     CleanupListener, CleanupRemote, CleanupConn, CleanupMarks, CleansUp, DropLocal,
     Delivered
<1>6. ASSUME NEW c, WatchStep(c) PROVE FALSE
  BY <1>6 DEF WatchStep, WatcherWakes, WatcherQueues, WatcherReads, WatcherExits,
     WatcherDrops, WatcherAttempts, WatcherLate, WatcherMarksLoss, WatcherCancelled,
     Delivered
<1>7. ~RecoveryStep(Boot)
  BY DEF RecoveryStep, RecoverRow, RecoveryReattaches, RecoveryEnds, RecoveryDials,
     RecoveryInspects, RecoveryChecked, RecoveryDrops, RecoveryReleases,
     RecoveryClearsLost, RecoveryMarks
<1>8. ASSUME \/ \E o \in Op, kind \in Requests, a \in Alias : Request(o, kind, a)
             \/ \E u \in Sid : HelperStep(u)
             \/ Environment \/ UNCHANGED vars
      PROVE  FALSE
  BY <1>8 DEF Request, HelperStep, HelperRecords, HelperFails, Environment, ProcessDies,
     PidReused, OnlyRemote, ConnectionLost, GatewayCrashes, vars
<1> QED
  BY <1>2, <1>3, <1>4, <1>5, <1>6, <1>7, <1>8
     DEF Next, OpStep, WatcherStep, BootStep, Quiescent

\* A crash leaves no start task and no request.
LEMMA CrashEnds ==
  ASSUME GatewayCrashes
  PROVE  /\ \A t \in Task \ {Boot} : task'[t].pc = "idle"
         /\ task'[Boot].pc = "next_row" /\ cancelled' = {}
         /\ row' = row /\ unrecovered' = {s \in Sid : Exists(s)}
BY IdleTyped, NextRowShape DEF GatewayCrashes, TaskRecord, NextRowTask, Task

\* A start task that ends has no cancellation pending.
LEMMA CancelledStep ==
  ASSUME LifecycleInv, LifecycleInv', StartIsTold, CancelledIsActive, [Next]_vars
  PROVE  CancelledIsActive'
<1>1. MoveInv /\ RecoveryIsAlone /\ row' \in [Sid -> Row]
  BY InvIsMoveInv DEF LifecycleInv, TypeOK, StoreTypeOK
<1> SUFFICES ASSUME NEW s \in Sid, s \in cancelled' PROVE task'[s].pc # "idle"
  BY DEF CancelledIsActive, Active
<1>2. ~GatewayCrashes
  BY CrashEnds
<1>3. Active(s)
  BY <1>1, CancelledGrows DEF CancelledIsActive, CancelsStart
<1>4. ASSUME NEW o \in Op, OpenStarts(o) PROVE task'[s].pc # "idle"
  BY <1>1, <1>3, <1>4, OpenStartsTask DEF Active
<1> QED
  BY <1>1, <1>2, <1>3, <1>4, StartTasksChange, StartEndsTold DEF Active

\* What start tasks know of their rows stays true.
LEMMA StartToldStep ==
  ASSUME LifecycleInv, LifecycleInv', SafetyInv', StartIsTold, OpIsTold, CancelledIsActive',
         [Next]_vars
  PROVE  StartIsTold'
<1>1. MoveInv /\ RecoveryIsAlone /\ row' \in [Sid -> Row]
  BY InvIsMoveInv DEF LifecycleInv, TypeOK, StoreTypeOK
<1> SUFFICES ASSUME NEW s \in Sid, Told(task'[s]) \/ s \in cancelled'
             PROVE  row'[s].state # "starting"
  BY DEF StartIsTold, NotStarting
<1>2. task'[s].pc # "idle"
  BY DEF CancelledIsActive, Active, Told, ToldPcs
<1>3. NotStarting(s) => row'[s].state # "starting"
  BY <1>2, StartedOnce
<1>4. s \in Task \ {Boot}
  BY ServiceAssumption DEF Task
<1>5. ~GatewayCrashes
  BY <1>2, <1>4, CrashEnds
<1>6. CASE s \in cancelled'
  <2>1. ASSUME NEW o \in Op, CancelsStart(o, s) PROVE NotStarting(s)
    <3>1. s # None
      BY NoneAssumption
    <3> QED
      BY <2>1, <3>1 DEF CancelsStart, OpIsTold, At
  <2> QED
    BY <1>1, <1>3, <1>6, <2>1, CancelledGrows DEF StartIsTold
<1>7. CASE Told(task'[s])
  <2>1. Told(task[s]) => NotStarting(s)
    BY DEF StartIsTold
  <2>2. ASSUME NEW o \in Op, OpenStarts(o) PROVE Told(task[s])
    <3>1. task'[s] # task[s] => task'[s].pc = "connect"
      BY <1>1, <2>2, OpenStartsTask
    <3> QED
      BY <1>7, <3>1 DEF Told, ToldPcs
  <2>3. StartStep(s) => Told(task[s]) \/ row'[s].state # "starting"
    BY <1>1, <1>7, StartReads
  <2> QED
    BY <1>1, <1>3, <1>5, <1>7, <2>1, <2>2, <2>3, StartTasksChange
<1> QED
  BY <1>6, <1>7

\* What requests know of their rows stays true.
LEMMA OpToldStep ==
  ASSUME LifecycleInv, LifecycleInv', SafetyInv', OpIsTold, [Next]_vars
  PROVE  OpIsTold'
<1>1. /\ MoveInv /\ RecoveryIsAlone /\ row' \in [Sid -> Row] /\ row \in [Sid -> Row]
      /\ StoreTypeOK /\ task \in [Task -> TaskRecord]
  BY InvIsMoveInv DEF LifecycleInv, TypeOK, StoreTypeOK
<1> SUFFICES ASSUME NEW o \in Op,
                    \/ /\ task'[o].pc = "looked_up" /\ task'[o].sid # None
                       /\ task'[o].rec.state # "starting"
                    \/ task'[o].pc = "stopping"
             PROVE  row'[task'[o].sid].state # "starting"
  BY DEF OpIsTold, NotStarting, At
<1>2. o \in Task /\ o # Boot /\ task[o] \in TaskRecord /\ task'[o].sid \in Sid
  <2>1. o \in Task /\ o # Boot /\ task[o] \in TaskRecord
    BY <1>1, OpFacts, ServiceAssumption
  <2>2. ShapeOK(o, task'[o])
    BY <2>1 DEF LifecycleInv, TaskShape
  <2>3. task'[o].sid \in Sid \cup {None}
    BY <2>2 DEF ShapeOK, TaskRecord
  <2> QED
    BY <2>1, <2>2, <2>3 DEF ShapeOK
<1>3. ~GatewayCrashes
  BY <1>2, CrashEnds
<1>4. CASE task'[o] = task[o]
  <2>1. NotStarting(task'[o].sid)
    BY <1>4 DEF OpIsTold, At
  <2> QED
    BY <1>2, <2>1, OpsStartOnce
<1>5. CASE Enter(o)
  <2> DEFINE u == Lookup(task[o].alias)
             x == Read(u)
             q == [task[o] EXCEPT !.pc = "looked_up", !.sid = u, !.rec = x]
  <2>1. Become(o, q) /\ row' = row
    BY <1>5 DEF Enter
  <2>2. q.pc = "looked_up" /\ q.sid = u /\ q.rec = x
    BY <1>2 DEF TaskRecord
  <2>3. u \in Sid => x = row[u]
    BY NoneAssumption DEF Read
  <2> HIDE DEF q, u, x
  <2>4. task'[o] = q
    BY <1>1, <1>2, <2>1 DEF Become
  <2> QED
    BY <1>2, <2>1, <2>2, <2>3, <2>4
<1>6. CASE CloseRecordsIntent(o) /\ Goto(o, "stopping") /\ task'[o].pc = "stopping"
  <2>1. task'[o].sid = task[o].sid
    BY <1>1, <1>2, <1>6 DEF Goto, TaskRecord
  <2>2. task[o].sid # None /\ MarkStopping(task[o].sid)
    BY <1>2, <1>6, <2>1, NoneAssumption DEF CloseRecordsIntent
  <2>3. ~Exists(task[o].sid) => row[task[o].sid].state # "starting"
    BY DEF Exists
  <2> QED
    BY <1>1, <1>2, <2>1, <2>2, <2>3, EditFields
<1>7. ASSUME NEW kind, NEW a, Request(o, kind, a) PROVE FALSE
  <2> DEFINE r == [IdleTask EXCEPT !.pc = "enter", !.kind = kind, !.alias = a]
  <2>1. Become(o, r)
    BY <1>7 DEF Request
  <2>2. r.pc = "enter"
    BY IdleTyped DEF TaskRecord
  <2> HIDE DEF r
  <2> QED
    BY <1>1, <1>2, <2>1, <2>2 DEF Become
<1>8. CASE OpStep(o)
  <2>1. task'[o].pc \in {"looked_up", "inserted", "stopping"} /\ task'[o].pc # "inserted"
    OBVIOUS
  <2> QED
    BY <1>1, <1>5, <1>6, <1>8, <2>1, ReturnsElsewhere
<1> QED
  BY <1>1, <1>2, <1>3, <1>4, <1>7, <1>8, ClosersChange DEF Closers

\* After a step, the row of s is in no transient state.
RestsNext(s) == row'[s].state \notin {"starting", "stopping"}

\* _do_close goes on, or ends with the row deleted or in error.
LEMMA DoCloseLeads ==
  ASSUME MoveInv, DeletedIsGone, NEW t \in Closers, DoCloseStep(t)
  PROVE  task'[t].pc \in DoClosePcs \/ (DoCloseReturns(t) /\ RestsNext(task[t].sid))
<1>1. /\ t \in Task /\ task[t] \in TaskRecord /\ task \in [Task -> TaskRecord]
      /\ StoreTypeOK /\ task[t].sid \in Sid
  BY TaskFacts, DoCloseRows DEF MoveInv, TypeOK, Closers, Task
<1>2. DroppedRow(task[t]) => row[task[t].sid].state = "closed"
  BY DEF DeletedIsGone, Exists
<1>3. ASSUME NEW q, Become(t, q) PROVE task'[t] = q
  BY <1>1, <1>3 DEF Become
<1>4. ASSUME NEW p, Goto(t, p) PROVE task'[t].pc = p
  BY <1>1, <1>4 DEF Goto, TaskRecord
<1>5. CASE DoCloseReads(t)
  <2> DEFINE x == Read(task[t].sid)
             q == [task[t] EXCEPT !.pc = "fresh", !.rec = x, !.c = None, !.old = NoTunnel,
                                  !.exc = "none"]
  <2>1. Become(t, q)
    BY <1>5 DEF DoCloseReads, DoesClose
  <2>2. q.pc = "fresh"
    BY <1>1 DEF TaskRecord
  <2> HIDE DEF q
  <2> QED
    BY <1>3, <2>1, <2>2 DEF DoClosePcs
<1>6. CASE DoCloseTakesTunnel(t)
  <2>1. CASE task[t].rec.state = "closed"
    <3>1. DroppedRow(task[t]) /\ row' = row /\ DoCloseReturns(t)
      BY <1>6, <2>1 DEF DoCloseTakesTunnel, At, DroppedRow
    <3> QED
      BY <1>2, <3>1 DEF RestsNext
  <2>2. CASE task[t].rec.state # "closed"
    <3> DEFINE x == tunnels[task[t].sid]
               b == CanCloseWithoutRemote(task[t].rec)
               p == IF x.c = None THEN RemoteStage(task[t].rec, None) ELSE "take_over"
               q == [task[t] EXCEPT !.c = x.c, !.old = x, !.absent = b, !.pc = p]
    <3>1. Become(t, q)
      BY <1>6, <2>2 DEF DoCloseTakesTunnel
    <3>2. p \in DoClosePcs
      BY RemoteStageIsDoClose DEF DoClosePcs
    <3> HIDE DEF p, x, b
    <3>3. q.pc = p
      BY <1>1 DEF TaskRecord
    <3> HIDE DEF q
    <3> QED
      BY <1>3, <3>1, <3>2, <3>3
  <2> QED
    BY <2>1, <2>2
<1>7. CASE DoCloseStopsListener(t)
  <2> DEFINE p == RemoteStage(task[t].rec, task[t].c)
             q == [task[t] EXCEPT !.pc = p, !.errors = TRUE, !.old = NoTunnel]
  <2>1. Goto(t, p) \/ Become(t, q)
    BY <1>7 DEF DoCloseStopsListener
  <2>2. p \in DoClosePcs
    BY RemoteStageIsDoClose DEF DoClosePcs
  <2> HIDE DEF p
  <2>3. q.pc = p
    BY <1>1 DEF TaskRecord
  <2> HIDE DEF q
  <2> QED
    BY <1>3, <1>4, <2>1, <2>2, <2>3
<1>8. CASE DoCloseDials(t)
  <2> DEFINE On(c) == [task[t] EXCEPT !.pc = "stop", !.c = c]
             q == [task[t] EXCEPT !.pc = "finish", !.errors = TRUE]
  <2>1. Become(t, q) \/ \E c : Become(t, On(c))
    BY <1>8 DEF DoCloseDials
  <2>2. q.pc = "finish" /\ \A c : On(c).pc = "stop"
    BY <1>1 DEF TaskRecord
  <2> HIDE DEF q, On
  <2>3. task'[t] = q \/ \E c : task'[t] = On(c)
    BY <1>1, <2>1 DEF Become
  <2> QED
    BY <2>2, <2>3 DEF DoClosePcs
<1>9. CASE DoCloseStopsRemote(t)
  <2> DEFINE e == task[t].errors \/ TRUE
             f == task[t].errors \/ FALSE
             q == [task[t] EXCEPT !.pc = "close_conn", !.absent = FALSE, !.errors = e]
             u == [task[t] EXCEPT !.pc = "close_conn", !.absent = TRUE, !.errors = f]
             v == [task[t] EXCEPT !.pc = "close_conn", !.absent = TRUE, !.errors = e]
  <2>1. Become(t, q) \/ Become(t, u) \/ Become(t, v)
    BY <1>9 DEF DoCloseStopsRemote
  <2> HIDE DEF e, f
  <2>2. q.pc = "close_conn" /\ u.pc = "close_conn" /\ v.pc = "close_conn"
    BY <1>1 DEF TaskRecord
  <2> HIDE DEF q, u, v
  <2> QED
    BY <1>3, <2>1, <2>2 DEF DoClosePcs
<1>10. CASE DoCloseClosesConn(t)
  <2> DEFINE q == [task[t] EXCEPT !.pc = "forget", !.c = None, !.old = NoTunnel]
             u == [task[t] EXCEPT !.pc = "forget", !.c = None, !.old = NoTunnel,
                                  !.errors = TRUE]
  <2>1. Become(t, q) \/ Become(t, u)
    BY <1>10 DEF DoCloseClosesConn
  <2>2. q.pc = "forget" /\ u.pc = "forget"
    BY <1>1 DEF TaskRecord
  <2> HIDE DEF q, u
  <2> QED
    BY <1>3, <2>1, <2>2 DEF DoClosePcs
<1>11. CASE DoCloseForgets(t)
  BY <1>4, <1>11 DEF DoCloseForgets, DoClosePcs
<1>12. CASE DoCloseFinishes(t)
  <2>1. \/ MarkError(task[t].sid, "stop_failed") /\ DoCloseReturns(t)
        \/ Goto(t, "deleted")
    BY <1>12 DEF DoCloseFinishes
  <2>2. MarkError(task[t].sid, "stop_failed") => RestsNext(task[t].sid)
    <3>1. ~Exists(task[t].sid) => row[task[t].sid].state = "closed"
      BY DEF Exists
    <3> QED
      BY <1>1, <3>1, EditFields DEF RestsNext
  <2> QED
    BY <1>4, <2>1, <2>2 DEF DoClosePcs
<1>13. CASE DoCloseReleases(t)
  <2>1. DroppedRow(task[t]) /\ row' = row /\ DoCloseReturns(t)
    BY <1>13 DEF DoCloseReleases, At, DroppedRow
  <2> QED
    BY <1>2, <2>1 DEF RestsNext
<1> QED
  BY <1>5, <1>6, <1>7, <1>8, <1>9, <1>10, <1>11, <1>12, <1>13 DEF DoCloseStep

\* Recovery, at work on a row, reads nothing it did not know; and it goes on to the
\* next row when this one rests.
CheckPcs == {"check_closing", "check_remote", "check_done"}
BootGoesOn ==
  /\ RestsRead(task'[Boot]) => RestsRead(task[Boot]) \/ RestsNext(task[Boot].sid)
  /\ task'[Boot].pc \in CheckPcs =>
       task[Boot].pc \in CheckPcs /\ task'[Boot].rec = task[Boot].rec
  /\ unrecovered' # unrecovered => RestsRead(task[Boot]) \/ RestsNext(task[Boot].sid)

\* The awaits at which recovery has read nothing of its row.
RestPcs == ReattachPcs \cup CheckPcs \cup {"reattach"}
LEMMA BootGoesPlain ==
  ASSUME task'[Boot].pc \notin RestPcs, unrecovered' = unrecovered
  PROVE  BootGoesOn
BY DEF BootGoesOn, RestsRead, RestPcs, CheckPcs, ReattachPcs

\* On to the next row.
LEMMA BootGoesNext ==
  ASSUME MoveInv, NEW r, NextRow(r), RestsRead(task[Boot]) \/ RestsNext(task[Boot].sid)
  PROVE  BootGoesOn
<1>1. NextRowTask.pc = "next_row" /\ task'[Boot] = NextRowTask
  BY IdleTyped DEF NextRow, NextRowTask, Become, TaskRecord, MoveInv, TypeOK, Task
<1>2. "next_row" \notin RestPcs
  BY DEF RestPcs, ReattachPcs, CheckPcs
<1> QED
  BY <1>1, <1>2 DEF BootGoesOn, RestsRead, RestPcs, CheckPcs, ReattachPcs

\* On to an await of the attempt, or of the check, with what was read before.
LEMMA BootGoesTo ==
  ASSUME task'[Boot].rec = task[Boot].rec, unrecovered' = unrecovered,
         \/ task[Boot].pc \in ReattachPcs /\ task'[Boot].pc \in ReattachPcs \ {"installed", "commit"}
         \/ task[Boot].pc = "reattach" /\ task'[Boot].pc = "reconnect"
         \/ task[Boot].pc \in CheckPcs /\ task'[Boot].pc \in CheckPcs
  PROVE  BootGoesOn
BY DEF BootGoesOn, RestsRead, CheckPcs, ReattachPcs

\* An exception out of recovery's attempt: a row in error is left as it is.
LEMMA BootGoesRaising ==
  ASSUME MoveInv, NEW r, Reattacher(Boot, r), r.kind = "boot", r.rec = task[Boot].rec,
         task[Boot].pc \in ReattachPcs \cup {"reattach"}, NEW exc, Raises(Boot, r, exc)
  PROVE  BootGoesOn
<1>1. r \in TaskRecord /\ task \in [Task -> TaskRecord] /\ Boot \in Task
  BY DEF Reattacher, MoveInv, TypeOK, Task
<1> DEFINE On(p) == [r EXCEPT !.pc = p, !.c = None, !.old = NoTunnel, !.exc = "none"]
<1>2. \/ /\ unrecovered' = unrecovered
         /\ \E p \in {"clear_lost", "drop", "mark_lost"} : Become(Boot, On(p))
      \/ NextRow(r) /\ r.rec.state = "error"
  BY DEF Raises
<1>3. \A p : On(p).pc = p
  BY <1>1 DEF TaskRecord
<1> HIDE DEF On
<1>4. CASE \E p \in {"clear_lost", "drop", "mark_lost"} : Become(Boot, On(p))
           /\ unrecovered' = unrecovered
  <2>1. task'[Boot].pc \in {"clear_lost", "drop", "mark_lost"}
    BY <1>1, <1>3, <1>4 DEF Become
  <2>2. {"clear_lost", "drop", "mark_lost"} \cap RestPcs = {}
    BY DEF RestPcs, ReattachPcs, CheckPcs
  <2> QED
    BY <1>4, <2>1, <2>2, BootGoesPlain
<1>5. CASE NextRow(r) /\ r.rec.state = "error"
  BY <1>5, BootGoesNext DEF RestsRead
<1> QED
  BY <1>2, <1>4, <1>5

\* Recovery gives up its attempt's new connection.
LEMMA BootGoesAbandoning ==
  ASSUME MoveInv, task[Boot].pc \in ReattachPcs, NEW exc, Abandons(Boot, exc),
         unrecovered' = unrecovered
  PROVE  BootGoesOn
<1>1. task[Boot] \in TaskRecord /\ task \in [Task -> TaskRecord] /\ Boot \in Task
  BY DEF MoveInv, TypeOK, Task
<1>2. PICK f : Become(Boot, [task[Boot] EXCEPT !.pc = "drop_conn", !.exc = exc, !.ledger = {},
                                               !.old = [NoTunnel EXCEPT !.listener = f]])
  BY DEF Abandons
<1> DEFINE x == [NoTunnel EXCEPT !.listener = f]
           q == [task[Boot] EXCEPT !.pc = "drop_conn", !.exc = exc, !.ledger = {}, !.old = x]
<1>3. Become(Boot, q)
  BY <1>2
<1> HIDE DEF x
<1>4. q.pc = "drop_conn" /\ q.rec = task[Boot].rec
  BY <1>1 DEF TaskRecord
<1> HIDE DEF q
<1>5. task'[Boot] = q
  BY <1>1, <1>3 DEF Become
<1> QED
  BY <1>4, <1>5, BootGoesTo DEF ReattachPcs

\* Recovery's attempt to reattach.
LEMMA BootReattachGoesOn ==
  ASSUME MoveInv, ReattachStep(Boot)
  PROVE  BootGoesOn
<1>1. /\ task[Boot] \in TaskRecord /\ task \in [Task -> TaskRecord] /\ Boot \in Task
      /\ StoreTypeOK
  BY DEF MoveInv, TypeOK, Task
<1>2. task[Boot].kind = "boot" /\ task[Boot].pc \in BootPcs
  <2>1. task[Boot].pc # "idle"
    BY DEF ReattachStep, Reconnects, Interrupted, Inspects, RemovesAbsent,
       ReattachVerifies, ReattachInstalls, ReattachReads, DropsConn, BackoffEnds, At
  <2> QED
    BY <2>1, BootFacts DEF Suspended
<1>3. task[Boot].pc \in ReattachPcs
  <2>1. ~BackoffEnds(Boot)
    BY <1>2 DEF BackoffEnds, At, BootPcs, DoClosePcs, ReattachPcs
  <2> QED
    BY <2>1 DEF ReattachStep, Reconnects, Interrupted, Inspects, RemovesAbsent,
       ReattachVerifies, ReattachInstalls, ReattachReads, DropsConn, At, ReattachPcs
<1>4. Reattacher(Boot, task[Boot]) /\ task[Boot].sid \in Sid
  BY <1>1, <1>3, AtReattach DEF Reattacher
<1>5. ASSUME NEW exc, Raises(Boot, task[Boot], exc) PROVE BootGoesOn
  BY <1>2, <1>3, <1>4, <1>5, BootGoesRaising
<1>6. ASSUME NEW exc, Abandons(Boot, exc), unrecovered' = unrecovered PROVE BootGoesOn
  BY <1>3, <1>6, BootGoesAbandoning
<1>7. CASE Reconnects(Boot)
  <2> DEFINE On(c) == [task[Boot] EXCEPT !.pc = "inspect", !.c = c]
  <2>1. \/ \E exc \in {"error", "late", "cancelled"} : Raises(Boot, task[Boot], exc)
        \/ unrecovered' = unrecovered /\ \E c : Become(Boot, On(c))
    BY <1>7 DEF Reconnects
  <2>2. \A c : On(c).pc = "inspect" /\ On(c).rec = task[Boot].rec
    BY <1>1 DEF TaskRecord
  <2> HIDE DEF On
  <2>3. (\E c : Become(Boot, On(c))) =>
          task'[Boot].pc = "inspect" /\ task'[Boot].rec = task[Boot].rec
    BY <1>1, <2>2 DEF Become
  <2> QED
    BY <1>3, <1>5, <2>1, <2>3, BootGoesTo DEF ReattachPcs
<1>8. CASE Interrupted(Boot)
  <2>1. unrecovered' = unrecovered /\ \E exc \in {"late", "cancelled"} : Abandons(Boot, exc)
    BY <1>8 DEF Interrupted
  <2> QED
    BY <1>6, <2>1
<1>9. CASE Inspects(Boot)
  <2>1. /\ unrecovered' = unrecovered
        /\ \/ \E exc \in {"unavailable", "error"} : Abandons(Boot, exc)
           \/ Goto(Boot, "reforward") \/ Goto(Boot, "remove")
    BY <1>9 DEF Inspects
  <2>2. Goto(Boot, "reforward") \/ Goto(Boot, "remove") =>
          /\ task'[Boot].pc \in {"reforward", "remove"}
          /\ task'[Boot].rec = task[Boot].rec
    BY <1>1 DEF Goto, TaskRecord
  <2> QED
    BY <1>3, <1>6, <2>1, <2>2, BootGoesTo DEF ReattachPcs
<1>10. CASE RemovesAbsent(Boot)
  <2>1. unrecovered' = unrecovered /\ \E exc \in {"absent", "error"} : Abandons(Boot, exc)
    BY <1>10 DEF RemovesAbsent
  <2> QED
    BY <1>6, <2>1
<1>11. CASE ReattachVerifies(Boot)
  <2> DEFINE s == task[Boot].sid
             l == IF Recoverable(s) THEN {"completed"} ELSE {}
             q == [task[Boot] EXCEPT !.pc = "commit", !.ledger = l]
  <2>1. /\ unrecovered' = unrecovered
        /\ Abandons(Boot, "error") \/ (CompleteRecovery(s) /\ Become(Boot, q))
    BY <1>11 DEF ReattachVerifies
  <2>2. "completed" \in l => Recoverable(s)
    OBVIOUS
  <2> HIDE DEF l
  <2>3. q.pc = "commit" /\ q.rec = task[Boot].rec /\ q.ledger = l
    BY <1>1 DEF TaskRecord
  <2> HIDE DEF q
  <2>4. CASE CompleteRecovery(s) /\ Become(Boot, q)
    <3>1. Recoverable(s) => RestsNext(s)
      <4>1. Recoverable(s) /\ CompleteRecovery(s) => row'[s].state = "ready"
        BY <1>1, <1>4 DEF CompleteRecovery, StoreTypeOK, Row, LiveRow, NoRow
      <4> QED
        BY <2>4, <4>1 DEF RestsNext
    <3>2. task'[Boot] = q
      BY <1>1, <2>4 DEF Become
    <3>3. RestsRead(q) => RestsRead(task[Boot]) \/ "completed" \in l
      BY <1>3, <2>3 DEF RestsRead
    <3> QED
      BY <2>1, <2>2, <2>3, <3>1, <3>2, <3>3 DEF BootGoesOn, CheckPcs
  <2> QED
    BY <1>6, <2>1, <2>4
<1>12. CASE ReattachInstalls(Boot)
  <2>1. CASE Raises(Boot, task[Boot], "error")
    BY <1>5, <2>1
  <2>2. CASE Abandons(Boot, "unavailable") /\ unrecovered' = unrecovered
    BY <1>6, <2>2
  <2>3. CASE Installable(Boot)
    <3>1. RestsRead(task[Boot])
      BY <1>12, <2>3 DEF ReattachInstalls, Installable, RestsRead, At
    <3> DEFINE r == [task[Boot] EXCEPT !.pc = "installed", !.c = None, !.ledger = {}]
    <3>2. r.pc = "installed"
      BY <1>1 DEF TaskRecord
    <3>3. /\ task' = [[task EXCEPT ![Boot] = r] EXCEPT ![task[Boot].c] = Watcher(task[Boot].sid)]
          /\ unrecovered' = unrecovered
      BY <1>1, <1>12, <2>3 DEF ReattachInstalls, Installable
    <3> HIDE DEF r
    <3>4. task[Boot].c # Boot
      <4>1. task[Boot].c \in Conn \cup {None}
        BY <1>1 DEF TaskRecord
      <4>2. Fresh(task[Boot])
        BY <1>12 DEF ReattachInstalls, At, Fresh
      <4>3. task[Boot].c \in Conn
        BY <1>1, <4>2 DEF MoveInv, FreshConnections, FreshOK
      <4> QED
        BY <4>3, ServiceAssumption
    <3>5. task'[Boot] = r
      BY <1>1, <3>3, <3>4
    <3> QED
      BY <3>1, <3>2, <3>3, <3>5 DEF BootGoesOn, CheckPcs
  <2> QED
    BY <1>12, <2>1, <2>2, <2>3 DEF ReattachInstalls, Installable
<1>13. CASE ReattachReads(Boot)
  <2>1. Reattached(Boot) \/ \E exc \in {"late", "cancelled"} : Raises(Boot, task[Boot], exc)
    BY <1>13 DEF ReattachReads
  <2>2. Reattached(Boot) => BootGoesOn
    <3>1. Reattached(Boot) => NextRow(task[Boot])
      BY <1>2 DEF Reattached
    <3>2. RestsRead(task[Boot])
      BY <1>13 DEF ReattachReads, At, RestsRead
    <3> QED
      BY <3>1, <3>2, BootGoesNext
  <2> QED
    BY <1>5, <2>1, <2>2
<1>14. CASE DropsConn(Boot)
  <2>1. \E exc : Raises(Boot, task[Boot], exc)
    BY <1>14 DEF DropsConn
  <2> QED
    BY <1>5, <2>1
<1>15. ~BackoffEnds(Boot)
  BY <1>3 DEF BackoffEnds, At, ReattachPcs
<1> QED
  BY <1>7, <1>8, <1>9, <1>10, <1>11, <1>12, <1>13, <1>14, <1>15 DEF ReattachStep

\* Recovery, inside _do_close.
LEMMA BootCloseGoesOn ==
  ASSUME MoveInv, DeletedIsGone, DoCloseStep(Boot)
  PROVE  BootGoesOn
<1>1. Boot \in Task /\ Boot \in Closers
  BY DEF Task, Closers
<1>2. task[Boot].kind = "boot"
  <2>1. task[Boot].pc # "idle"
    BY DEF DoCloseStep, DoCloseReads, DoCloseTakesTunnel, DoCloseStopsListener,
       DoCloseDials, DoCloseStopsRemote, DoCloseClosesConn, DoCloseForgets,
       DoCloseFinishes, DoCloseReleases, At
  <2> QED
    BY <2>1, BootFacts
<1>3. CASE task'[Boot].pc \in DoClosePcs
  <2>1. DoClosePcs \cap (RestPcs \cup {"idle", "next_row"}) = {}
    BY DEF DoClosePcs, RestPcs, ReattachPcs, CheckPcs
  <2>2. unrecovered' = unrecovered
    BY <1>1, <1>3, <2>1, DoCloseContinues DEF Continues, Goes
  <2> QED
    BY <1>3, <2>1, <2>2, BootGoesPlain
<1>4. CASE DoCloseReturns(Boot) /\ RestsNext(task[Boot].sid)
  BY <1>2, <1>4, BootGoesNext DEF DoCloseReturns
<1> QED
  BY <1>1, <1>3, <1>4, DoCloseLeads

\* Recovery, at work on a row.
LEMMA BootRecoveryGoesOn ==
  ASSUME MoveInv, DeletedIsGone, BootIsTold, RecoveryStep(Boot), ~RecoverRow(Boot)
  PROVE  BootGoesOn
<1>1. /\ Boot \in Task /\ Boot \in Closers /\ task[Boot] \in TaskRecord
      /\ task \in [Task -> TaskRecord] /\ StoreTypeOK
  BY TaskFacts DEF MoveInv, TypeOK, Task, Closers
<1>2. task[Boot].pc \in CheckPcs => RestsRead(task[Boot])
  BY DEF BootIsTold, RestsRead, CheckPcs
<1>3. CASE RecoveryReattaches(Boot)
  <2>1. /\ Reattacher(Boot, task[Boot]) /\ task[Boot].pc = "reattach"
    BY <1>3, AtRow DEF RecoveryReattaches, At, RowPcs
  <2>2. task[Boot].kind = "boot"
    BY <2>1, BootFacts
  <2> DEFINE q == [task[Boot] EXCEPT !.pc = "reconnect"]
  <2>3. \/ \E exc \in {"error", "unavailable"} : Raises(Boot, task[Boot], exc)
        \/ Become(Boot, q) /\ unrecovered' = unrecovered
    BY <1>3 DEF RecoveryReattaches, Reattaches
  <2>4. q.pc = "reconnect" /\ q.rec = task[Boot].rec
    BY <1>1 DEF TaskRecord
  <2> HIDE DEF q
  <2>5. Become(Boot, q) => task'[Boot] = q
    BY <1>1 DEF Become
  <2> QED
    BY <2>1, <2>2, <2>3, <2>4, <2>5, BootGoesRaising, BootGoesTo
<1>4. CASE RecoveryEnds(Boot)
  <2>1. unrecovered' = unrecovered /\ task'[Boot].pc = "idle"
    BY <1>1, <1>4, IdleTyped DEF RecoveryEnds, End, Become
  <2> QED
    BY <2>1, BootGoesPlain DEF RestPcs, ReattachPcs, CheckPcs
<1>5. CASE RecoveryDials(Boot)
  <2> DEFINE On(c) == [task[Boot] EXCEPT !.pc = "check_remote", !.c = c]
  <2>1. \/ NextRow(task[Boot])
        \/ unrecovered' = unrecovered /\ \E c : Become(Boot, On(c))
    BY <1>5 DEF RecoveryDials
  <2>2. \A c : On(c).pc = "check_remote" /\ On(c).rec = task[Boot].rec
    BY <1>1 DEF TaskRecord
  <2> HIDE DEF On
  <2>3. (\E c : Become(Boot, On(c))) =>
          task'[Boot].pc = "check_remote" /\ task'[Boot].rec = task[Boot].rec
    BY <1>1, <2>2 DEF Become
  <2>4. task[Boot].pc \in CheckPcs
    BY <1>5 DEF RecoveryDials, At, CheckPcs
  <2> QED
    BY <1>2, <2>1, <2>3, <2>4, BootGoesNext, BootGoesTo DEF CheckPcs
<1>6. CASE RecoveryInspects(Boot)
  <2> DEFINE On(b) == [task[Boot] EXCEPT !.pc = "check_done", !.absent = b]
  <2>1. unrecovered' = unrecovered /\ \E b : Become(Boot, On(b))
    BY <1>6 DEF RecoveryInspects
  <2>2. \A b : On(b).pc = "check_done" /\ On(b).rec = task[Boot].rec
    BY <1>1 DEF TaskRecord
  <2> HIDE DEF On
  <2>3. task'[Boot].pc = "check_done" /\ task'[Boot].rec = task[Boot].rec
    BY <1>1, <2>1, <2>2 DEF Become
  <2>4. task[Boot].pc \in CheckPcs
    BY <1>6 DEF RecoveryInspects, At, CheckPcs
  <2> QED
    BY <2>1, <2>3, <2>4, BootGoesTo DEF CheckPcs
<1>7. CASE RecoveryChecked(Boot)
  <2> DEFINE q == [task[Boot] EXCEPT !.pc = "drop", !.c = None]
  <2>1. NextRow(task[Boot]) \/ (Become(Boot, q) /\ unrecovered' = unrecovered)
    BY <1>7 DEF RecoveryChecked
  <2>2. q.pc = "drop"
    BY <1>1 DEF TaskRecord
  <2> HIDE DEF q
  <2>3. Become(Boot, q) => task'[Boot].pc = "drop"
    BY <1>1, <2>2 DEF Become
  <2>4. task[Boot].pc \in CheckPcs
    BY <1>7 DEF RecoveryChecked, At, CheckPcs
  <2>5. "drop" \notin RestPcs
    BY DEF RestPcs, ReattachPcs, CheckPcs
  <2> QED
    BY <1>2, <2>1, <2>3, <2>4, <2>5, BootGoesNext, BootGoesPlain
<1>8. CASE RecoveryDrops(Boot) \/ RecoveryClearsLost(Boot)
  <2>1. unrecovered' = unrecovered /\ task'[Boot].pc \in {"dropped", "mark_lost"}
    BY <1>1, <1>8 DEF RecoveryDrops, RecoveryClearsLost, Goto, TaskRecord
  <2>2. {"dropped", "mark_lost"} \cap RestPcs = {}
    BY DEF RestPcs, ReattachPcs, CheckPcs
  <2> QED
    BY <2>1, <2>2, BootGoesPlain
<1>9. CASE RecoveryReleases(Boot)
  <2>1. DroppedRow(task[Boot]) /\ row' = row /\ NextRow(task[Boot])
    BY <1>9 DEF RecoveryReleases, At, DroppedRow
  <2>2. row[task[Boot].sid].state = "closed"
    BY <1>1, <2>1 DEF DeletedIsGone, Exists
  <2> QED
    BY <2>1, <2>2, BootGoesNext DEF RestsNext
<1>10. CASE RecoveryMarks(Boot)
  <2>1. task[Boot].sid \in Sid
    <3>1. task[Boot].pc \in RowPcs
      BY <1>10 DEF RecoveryMarks, At, RowPcs
    <3> QED
      BY <3>1, AtRow DEF Reattacher
  <2>2. MarkError(task[Boot].sid, "recovery_failed") /\ NextRow(task[Boot])
    BY <1>10 DEF RecoveryMarks
  <2>3. RestsNext(task[Boot].sid)
    <3>1. ~Exists(task[Boot].sid) => row[task[Boot].sid].state = "closed"
      BY DEF Exists
    <3> QED
      BY <1>1, <2>1, <2>2, <3>1, EditFields DEF RestsNext
  <2> QED
    BY <2>2, <2>3, BootGoesNext
<1> QED
  BY <1>3, <1>4, <1>5, <1>6, <1>7, <1>8, <1>9, <1>10 DEF RecoveryStep

\* Recovery turns to a row with what it reads of it.
LEMMA BootGoesOnRow ==
  ASSUME MoveInv, RecoverRow(Boot)
  PROVE  /\ unrecovered' = unrecovered
         /\ RestsRead(task'[Boot]) => RestsNext(task'[Boot].sid)
         /\ task'[Boot].pc \in CheckPcs => task'[Boot].rec.state = "error"
<1> DEFINE s == CHOOSE u \in unrecovered : TRUE
           a == row[s].alias
           e == row[s]
           mine == [task[Boot] EXCEPT !.sid = s, !.alias = a, !.rec = e]
           x == Read(mine.sid)
           q == [mine EXCEPT !.pc = "fresh", !.rec = x, !.c = None, !.old = NoTunnel,
                             !.exc = "none"]
           u == [mine EXCEPT !.pc = "check_closing"]
           v == [mine EXCEPT !.pc = "reattach"]
<1>1. Boot \in Task /\ task[Boot] \in TaskRecord /\ task \in [Task -> TaskRecord]
  BY TaskFacts DEF MoveInv, TypeOK, Task
<1>2. /\ row' = row /\ unrecovered' = unrecovered
      /\ Become(Boot, q) \/ (e.state = "error" /\ Become(Boot, u)) \/ Become(Boot, v)
  BY DEF RecoverRow, DoesClose
<1> HIDE DEF x
<1>3. /\ mine.sid = s /\ mine.rec = e
      /\ q.pc = "fresh"
      /\ u.pc = "check_closing" /\ u.rec = e /\ u.sid = s
      /\ v.pc = "reattach" /\ v.rec = e /\ v.sid = s
  BY <1>1 DEF TaskRecord
<1>4. e = row[s]
  OBVIOUS
<1> HIDE DEF q, u, v, mine, e, a, s
<1>5. \/ task'[Boot].pc = "fresh"
      \/ /\ task'[Boot].rec = e /\ task'[Boot].sid = s
         /\ task'[Boot].pc = "reattach" \/ (task'[Boot].pc = "check_closing" /\ e.state = "error")
  BY <1>1, <1>2, <1>3 DEF Become
<1>6. "fresh" \notin RestPcs /\ "fresh" \notin CheckPcs
  BY DEF RestPcs, ReattachPcs, CheckPcs
<1>7. CASE task'[Boot].pc = "fresh"
  BY <1>2, <1>6, <1>7 DEF RestsRead, RestPcs, CheckPcs, ReattachPcs
<1>8. CASE task'[Boot].pc # "fresh"
  <2>1. RestsRead(task'[Boot]) => e.state = "error"
    BY <1>5, <1>8 DEF RestsRead
  <2> QED
    BY <1>2, <1>4, <1>5, <1>8, <2>1 DEF RestsNext, CheckPcs
<1> QED
  BY <1>7, <1>8

\* What recovery has read of its row stays true.
LEMMA BootToldStep ==
  ASSUME LifecycleInv, LifecycleInv', DeletedIsGone, BootIsTold, [Next]_vars
  PROVE  BootIsTold'
<1>1. MoveInv /\ RecoveryIsAlone /\ row' \in [Sid -> Row]
  BY InvIsMoveInv DEF LifecycleInv, TypeOK, StoreTypeOK
<1>2. /\ RestsRead(task[Boot]) => Rests(task[Boot].sid)
      /\ task[Boot].pc \in CheckPcs => task[Boot].rec.state = "error"
  BY DEF BootIsTold, CheckPcs
<1>3. "next_row" \notin RestPcs /\ "idle" \notin RestPcs /\ CheckPcs \subseteq RestPcs
  BY DEF RestPcs, ReattachPcs, CheckPcs
<1>4. \A r : RestsRead(r) => r.pc \in RestPcs
  BY DEF RestsRead, RestPcs, ReattachPcs, CheckPcs
<1> SUFFICES ASSUME task'[Boot].pc \in RestPcs
             PROVE  /\ RestsRead(task'[Boot]) => RestsNext(task'[Boot].sid)
                    /\ task'[Boot].pc \in CheckPcs => task'[Boot].rec.state = "error"
  BY <1>3, <1>4 DEF BootIsTold, Rests, RestsNext, CheckPcs
<1>5. ~GatewayCrashes
  BY <1>3, CrashEnds
<1>6. ASSUME Active(Boot), RestsRead(task[Boot]) PROVE RestsNext(task[Boot].sid)
  <2>1. task[Boot].sid \in Sid
    BY <1>1, <1>3, <1>4, <1>6, BootFacts DEF Active
  <2> QED
    BY <1>2, <1>3, <1>6, <2>1, RecoveryRests DEF RestsNext
<1>7. CASE task'[Boot] = task[Boot]
  <2>1. Active(Boot)
    BY <1>3, <1>7 DEF Active
  <2> QED
    BY <1>2, <1>6, <1>7, <2>1
<1>8. CASE BootStep /\ ~RecoverRow(Boot)
  <2>1. Active(Boot)
    BY <1>8, BootIsActive
  <2>2. task'[Boot].sid = task[Boot].sid
    BY <1>1, <1>3, <1>8, BootSids
  <2>3. BootGoesOn
    BY <1>1, <1>8, BootRecoveryGoesOn, BootCloseGoesOn, BootReattachGoesOn DEF BootStep
  <2> QED
    BY <1>2, <1>6, <2>1, <2>2, <2>3 DEF BootGoesOn
<1>9. CASE RecoverRow(Boot)
  BY <1>1, <1>9, BootGoesOnRow
<1>10. Boot \in Closers /\ Boot \notin Op
  BY ServiceAssumption DEF Closers
<1> QED
  BY <1>1, <1>5, <1>7, <1>8, <1>9, <1>10, ClosersChange

\* A watcher leaves recovery's list alone.
LEMMA WatcherKeepsList ==
  ASSUME MoveInv, NEW c \in Conn, WatcherStep(c)
  PROVE  unrecovered' = unrecovered
<1>1. c \in Task /\ c # Boot
  BY ServiceAssumption DEF Task
<1>2. Continues(c) => unrecovered' = unrecovered
  BY <1>1 DEF Continues, Goes
<1>3. CASE WatcherAttempts(c)
  <2>1. task[c].pc = "attempt_checks"
    BY <1>3 DEF WatcherAttempts, Resumes, At
  <2>2. Busy(task[c])
    BY <2>1 DEF Busy, Holding
  <2>3. Reattacher(c, task[c])
    BY <1>1, <2>1, <2>2, WatchFacts, TaskFacts DEF Reattacher
  <2>4. Raises(c, task[c], "unavailable") \/ Reattaches(c, task[c])
    BY <1>3 DEF WatcherAttempts
  <2> QED
    BY <1>1, <1>2, <2>3, <2>4, RaisesContinues, ReattachesContinues
<1>4. CASE WatchStep(c) /\ ~WatcherAttempts(c)
  BY <1>4 DEF WatchStep, WatcherWakes, WatcherQueues, WatcherReads, WatcherExits,
     WatcherDrops, WatcherLate, WatcherMarksLoss, WatcherCancelled
<1>5. CASE ReattachStep(c)
  BY <1>1, <1>2, <1>5, ReattachContinues
<1> QED
  BY <1>3, <1>4, <1>5 DEF WatcherStep

\* Recovery is done with a row only when it has left the transient states.
LEMMA RecoveryLeavesRested ==
  ASSUME LifecycleInv, LifecycleInv', DeletedIsGone, BootIsTold, [Next]_vars,
         ~GatewayCrashes, NEW s \in unrecovered, s \notin unrecovered'
  PROVE  RestsNext(s)
<1>1. MoveInv /\ RecoveryIsAlone /\ unrecovered \subseteq Sid
  BY InvIsMoveInv DEF LifecycleInv, TypeOK
<1>2. Active(Boot) /\ \A o \in Op : ~Active(o)
  BY DEF LifecycleInv, RecoveryIsAlone
<1>3. ASSUME NEW o \in Op, OpStep(o) PROVE FALSE
  BY <1>2, <1>3, OpIsActive
<1>4. ASSUME NEW u \in Sid, StartStep(u) PROVE FALSE
  BY <1>4, StartShrinks
<1>5. ASSUME NEW c \in Conn, WatcherStep(c) PROVE FALSE
  BY <1>1, <1>5, WatcherKeepsList
<1>6. ASSUME \/ \E o \in Op, kind \in Requests, a \in Alias : Request(o, kind, a)
             \/ \E u \in Sid : HelperStep(u)
             \/ Environment \/ UNCHANGED vars
      PROVE  FALSE
  BY <1>6 DEF Request, HelperStep, HelperRecords, HelperFails, Environment, ProcessDies,
     PidReused, OnlyRemote, ConnectionLost, vars
<1>7. CASE BootStep
  <2>1. ~RecoverRow(Boot) /\ ~RecoveryEnds(Boot)
    BY DEF RecoverRow, RecoveryEnds
  <2>2. Boot \in Task
    BY DEF Task
  <2>3. Continues(Boot)
    BY <1>1, <1>7, <2>1, <2>2, RecoveryContinues, DoCloseContinues, ReattachContinues DEF BootStep
  <2>4. s = task[Boot].sid /\ task'[Boot].pc = "next_row"
    BY <2>3 DEF Continues, Goes
  <2>5. BootGoesOn
    BY <1>1, <1>7, <2>1, BootRecoveryGoesOn, BootCloseGoesOn, BootReattachGoesOn DEF BootStep
  <2>6. RestsRead(task[Boot]) => Rests(s)
    BY <2>4 DEF BootIsTold
  <2>7. Rests(s) => RestsNext(s)
    BY <1>1, <1>2, <2>4, RecoveryRests DEF RestsNext
  <2> QED
    BY <2>4, <2>5, <2>6, <2>7 DEF BootGoesOn
<1> QED
  BY <1>3, <1>4, <1>5, <1>6, <1>7 DEF Next, Quiescent

\* A close under way goes on, or leaves its row closed or in error.
LEMMA CloserGoesOn ==
  ASSUME LifecycleInv, DeletedIsGone, NEW o \in Op, NEW s, Closing(task[o], s), OpStep(o)
  PROVE  Closing(task'[o], s) \/ RestsNext(s)
<1>1. /\ MoveInv /\ o \in Task /\ o \in Closers /\ task[o] \in TaskRecord
      /\ task \in [Task -> TaskRecord]
  BY InvIsMoveInv, OpFacts DEF MoveInv, TypeOK, Closers
<1>2. /\ task[o].sid = s /\ task[o].kind \in {"close", "force"}
      /\ task[o].pc \in {"stopping", "start_settles", "do_close"} \cup DoClosePcs
  BY DEF Closing, ClosePcs
<1>3. ASSUME NEW p, Goto(o, p), p \in ClosePcs PROVE Closing(task'[o], s)
  <2>1. task'[o].pc = p /\ task'[o].sid = task[o].sid /\ task'[o].kind = task[o].kind
    BY <1>1, <1>3 DEF Goto, TaskRecord
  <2> QED
    BY <1>2, <1>3, <2>1 DEF Closing
<1>4. ASSUME StartsClosing(o) PROVE Closing(task'[o], s)
  <2> DEFINE x == Read(task[o].sid)
             q == [task[o] EXCEPT !.pc = "fresh", !.rec = x, !.c = None, !.old = NoTunnel,
                                  !.exc = "none"]
  <2>1. Become(o, q) \/ Goto(o, "do_close")
    BY <1>4 DEF StartsClosing, DoesClose
  <2>2. q.pc = "fresh" /\ q.sid = task[o].sid /\ q.kind = task[o].kind
    BY <1>1 DEF TaskRecord
  <2> HIDE DEF q
  <2>3. Become(o, q) => task'[o] = q
    BY <1>1 DEF Become
  <2> QED
    BY <1>2, <1>3, <2>1, <2>2, <2>3 DEF Closing, ClosePcs, DoClosePcs
<1>5. CASE CloseStep(o)
  <2>1. ~CloseRecordsIntent(o)
    BY <1>2 DEF CloseRecordsIntent, At, DoClosePcs
  <2>2. StartsClosing(o) \/ Goto(o, "start_settles")
    BY <1>5, <2>1 DEF CloseStep, CloseCancelsStart, CloseStarts
  <2> QED
    BY <1>3, <1>4, <2>2 DEF ClosePcs
<1>6. CASE DoCloseStep(o)
  <2>1. CASE task'[o].pc \in DoClosePcs
    <3>1. Continues(o)
      BY <1>1, <1>6, DoCloseContinues
    <3>2. "idle" \notin DoClosePcs /\ "next_row" \notin DoClosePcs
      BY DEF DoClosePcs
    <3>3. task'[o].sid = task[o].sid /\ task'[o].kind = task[o].kind
      BY <2>1, <3>1, <3>2 DEF Continues, Goes
    <3> QED
      BY <1>2, <2>1, <3>3 DEF Closing, ClosePcs
  <2>2. CASE RestsNext(task[o].sid)
    BY <1>2, <2>2
  <2> QED
    BY <1>1, <1>6, <2>1, <2>2, DoCloseLeads
<1>7. ~OpenStep(o)
  BY <1>2 DEF OpenStep, Enter, OpenChecks, OpenStarts, At, DoClosePcs
<1>8. ~RetryStep(o)
  BY <1>2 DEF RetryStep, RetryBegins, RetryProceeds, RetryReopens, At, DoClosePcs
<1>9. ~ReattachStep(o)
  BY <1>2 DEF ReattachStep, Reconnects, Interrupted, Inspects, RemovesAbsent,
     ReattachVerifies, ReattachInstalls, ReattachReads, DropsConn, BackoffEnds, At,
     DoClosePcs
<1> QED
  BY <1>5, <1>6, <1>7, <1>8, <1>9 DEF OpStep

\* An open at work on the row it has inserted starts the session, or deletes the row.
LEMMA InserterGoesOn ==
  ASSUME LifecycleInv, NEW o \in Op, At(o, "inserted"), OpStep(o), NEW s \in Sid,
         task[o].sid = s
  PROVE  task'[s].pc = "connect" \/ row'[s].state = "closed"
<1>1. /\ o \in Task /\ s \in Task /\ task \in [Task -> TaskRecord] /\ row \in [Sid -> Row]
  BY InvIsMoveInv, OpFacts DEF LifecycleInv, TypeOK, StoreTypeOK, Task
<1>2. OpenStarts(o)
  BY DEF OpStep, OpenStep, Enter, OpenChecks, CloseStep, CloseRecordsIntent,
     CloseCancelsStart, CloseStarts, RetryStep, RetryBegins, RetryProceeds, RetryReopens,
     DoCloseStep, DoCloseReads, DoCloseTakesTunnel, DoCloseStopsListener, DoCloseDials,
     DoCloseStopsRemote, DoCloseClosesConn, DoCloseForgets, DoCloseFinishes,
     DoCloseReleases, ReattachStep, Reconnects, Interrupted, Inspects, RemovesAbsent,
     ReattachVerifies, ReattachInstalls, ReattachReads, DropsConn, BackoffEnds, At
<1> DEFINE r == StartTask(task[o].alias, s)
<1>3. Delete(s) \/ task' = [task EXCEPT ![o] = IdleTask, ![s] = r]
  BY <1>2 DEF OpenStarts, StartTask
<1>4. r.pc = "connect"
  BY IdleTyped DEF StartTask, TaskRecord
<1> HIDE DEF r
<1>5. Delete(s) => row'[s].state = "closed"
  BY <1>1 DEF Delete, NoRow
<1> QED
  BY <1>1, <1>3, <1>4, <1>5

\* A starting row keeps a task that moves it on.
LEMMA StartDrivenStep ==
  ASSUME LifecycleInv, LifecycleInv', SafetyInv, DeletedIsGone, StartIsTold, BootIsTold,
         StartIsDriven, [Next]_vars
  PROVE  StartIsDriven'
<1>1. MoveInv /\ RecoveryIsAlone /\ row' \in [Sid -> Row]
  BY InvIsMoveInv DEF LifecycleInv, TypeOK, StoreTypeOK
<1> SUFFICES ASSUME NEW s \in Sid, row'[s].state = "starting"
             PROVE  \/ task'[s].pc # "idle" \/ s \in unrecovered'
                    \/ \E o \in Op : task'[o].pc = "inserted" /\ task'[o].sid = s
  BY DEF StartIsDriven, Active, At
<1>2. CASE GatewayCrashes
  BY <1>2, CrashEnds DEF Exists
<1>3. CASE ~GatewayCrashes /\ row[s].state = "starting" /\ Active(s)
  <2>1. ASSUME NEW o \in Op, At(o, "inserted"), task[o].sid = s PROVE FALSE
    BY <1>3, <2>1 DEF SafetyInv, Unlaunched
  <2> QED
    BY <1>1, <1>3, <2>1, StartTasksChange, StartEndsTold DEF Active
<1>4. CASE ~GatewayCrashes /\ s \in unrecovered
  BY <1>4, RecoveryLeavesRested DEF RestsNext
<1>5. ASSUME ~GatewayCrashes, NEW o \in Op, At(o, "inserted"), task[o].sid = s
      PROVE  task'[s].pc # "idle" \/ (task'[o].pc = "inserted" /\ task'[o].sid = s)
  <2>1. \A kind, a : ~Request(o, kind, a)
    BY <1>5 DEF Request, At
  <2>2. o \in Closers /\ o # Boot
    BY ServiceAssumption DEF Closers
  <2>3. OpStep(o) => task'[s].pc # "idle"
    BY <1>5, InserterGoesOn
  <2> QED
    BY <1>1, <1>5, <2>1, <2>2, <2>3, ClosersChange DEF At
<1> QED
  BY <1>1, <1>2, <1>3, <1>4, <1>5, TransientBegins DEF StartIsDriven

\* A stopping row keeps the close that moves it on.
LEMMA StopDrivenStep ==
  ASSUME LifecycleInv, LifecycleInv', DeletedIsGone, BootIsTold, StopIsDriven, [Next]_vars
  PROVE  StopIsDriven'
<1>1. /\ MoveInv /\ RecoveryIsAlone /\ row' \in [Sid -> Row]
      /\ task \in [Task -> TaskRecord] /\ \A o \in Op : o \in Task
  BY InvIsMoveInv DEF LifecycleInv, TypeOK, StoreTypeOK, Task
<1> SUFFICES ASSUME NEW s \in Sid, row'[s].state = "stopping"
             PROVE  s \in unrecovered' \/ \E o \in Op : Closing(task'[o], s)
  BY DEF StopIsDriven
<1>2. CASE GatewayCrashes
  BY <1>2, CrashEnds DEF Exists
<1>3. CASE ~GatewayCrashes /\ s \in unrecovered
  BY <1>3, RecoveryLeavesRested DEF RestsNext
<1>4. ASSUME ~GatewayCrashes, NEW o \in Op, Closing(task[o], s) PROVE Closing(task'[o], s)
  <2>1. \A kind, a : ~Request(o, kind, a)
    BY <1>4 DEF Request, At, Closing, ClosePcs, DoClosePcs
  <2>2. o \in Closers /\ o # Boot
    BY ServiceAssumption DEF Closers
  <2>3. OpStep(o) => Closing(task'[o], s)
    BY <1>4, CloserGoesOn DEF RestsNext
  <2> QED
    BY <1>1, <1>4, <2>1, <2>2, <2>3, ClosersChange
<1>5. ASSUME NEW o \in Op, CloseRecordsIntent(o), task[o].sid = s PROVE Closing(task'[o], s)
  <2>1. Goto(o, "stopping") /\ task[o].kind \in {"close", "force"}
    BY <1>5, NoneAssumption DEF CloseRecordsIntent
  <2>2. /\ task'[o].pc = "stopping" /\ task'[o].sid = task[o].sid
        /\ task'[o].kind = task[o].kind
    BY <1>1, <2>1 DEF Goto, TaskRecord
  <2> QED
    BY <1>5, <2>1, <2>2 DEF Closing, ClosePcs
<1> QED
  BY <1>1, <1>2, <1>3, <1>4, <1>5, TransientBegins DEF StopIsDriven

\* Every step keeps it.
LEMMA DrivenStep ==
  ASSUME LifecycleInv, LifecycleInv', SafetyInv, SafetyInv', SlotInv, DrivenInv, [Next]_vars
  PROVE  DrivenInv'
<1>1. /\ StartIsTold /\ CancelledIsActive /\ OpIsTold /\ BootIsTold /\ StartIsDriven
      /\ StopIsDriven /\ DeletedIsGone
  BY DEF DrivenInv, SlotInv
<1>2. CancelledIsActive'
  BY <1>1, CancelledStep
<1>3. StartIsTold' /\ OpIsTold' /\ BootIsTold'
  BY <1>1, <1>2, StartToldStep, OpToldStep, BootToldStep
<1>4. StartIsDriven' /\ StopIsDriven'
  BY <1>1, StartDrivenStep, StopDrivenStep
<1> QED
  BY <1>2, <1>3, <1>4 DEF DrivenInv

\* At first there is no row.
LEMMA DrivenInit ==
  ASSUME Init
  PROVE  DrivenInv
<1>1. \A t \in Task : task[t].pc = "idle"
  BY IdleTyped DEF Init, TaskRecord, IdleTask
<1>2. /\ task[Boot].pc = "idle" /\ \A s \in Sid : task[s].pc = "idle"
      /\ \A o \in Op : task[o].pc = "idle"
  BY <1>1 DEF Task
<1>3. (\A s \in Sid : row[s].state = "closed") /\ cancelled = {}
  BY DEF Init, StoreInit, NoRow
<1>4. StartIsTold /\ CancelledIsActive /\ OpIsTold
  BY <1>2, <1>3 DEF StartIsTold, CancelledIsActive, OpIsTold, Told, ToldPcs, At
<1>5. BootIsTold
  BY <1>2 DEF BootIsTold, RestsRead, ReattachPcs
<1>6. StartIsDriven /\ StopIsDriven
  BY <1>3 DEF StartIsDriven, StopIsDriven
<1> QED
  BY <1>4, <1>5, <1>6 DEF DrivenInv

\* Whoever ends its work on a row has left it in no transient state.
THEOREM DrivenInvariant == Spec => []DrivenInv
<1>1. Init => DrivenInv
  BY DrivenInit
<1>2. LifecycleInv /\ LifecycleInv' /\ SafetyInv /\ SafetyInv' /\ SlotInv /\ DrivenInv
        /\ [Next]_vars => DrivenInv'
  BY DrivenStep
<1> QED
  BY <1>1, <1>2, LifecycleInvariant, SafetyInvariant, SlotInvariant, PTL DEF Spec

\* No order of failures, cancellations and restarts strands a session in starting or
\* stopping: an open, a close or startup recovery is there to move it on.
THEOREM TransientRowsAreDriven == Spec => []TransientRowIsDriven
<1>1. DrivenInv => TransientRowIsDriven
  BY DEF DrivenInv, StartIsDriven, StopIsDriven, TransientRowIsDriven, Closing
<1> QED
  BY <1>1, DrivenInvariant, PTL
-----------------------------------------------------------------------------
(***************************************************************************)
(* What a step writes, by kind of task: the record of the task that takes  *)
(* it and the shared variables, as plain formulas that the later proofs    *)
(* use in place of the actions.                                            *)
(***************************************************************************)
-----------------------------------------------------------------------------
(***************************************************************************)
(* Records.                                                                *)
(***************************************************************************)
\* Only t's record changes.
Others(t) == \A u \in Task \ {t} : task'[u] = task[u]

\* t is at p, for the session, alias and kind of the record r.
From(t, r, p) ==
  /\ task'[t].pc = p /\ task'[t].sid = r.sid /\ task'[t].kind = r.kind
  /\ task'[t].alias = r.alias

\* What t claims is as in r.
Claims(t, r) ==
  /\ task'[t].c = r.c /\ task'[t].old = r.old /\ task'[t].rec = r.rec
  /\ task'[t].ledger = r.ledger /\ task'[t].exc = r.exc

LEMMA BecomeIs ==
  ASSUME MoveInv, NEW t \in Task, NEW q, Become(t, q)
  PROVE  task'[t] = q /\ Others(t)
BY DEF Become, Others, MoveInv, TypeOK

LEMMA GotoIs ==
  ASSUME MoveInv, NEW t \in Task, NEW p, Goto(t, p)
  PROVE  From(t, task[t], p) /\ Claims(t, task[t]) /\ Others(t)
<1>1. task[t] \in TaskRecord /\ task \in [Task -> TaskRecord]
  BY TaskFacts DEF MoveInv, TypeOK
<1>2. task'[t] = [task[t] EXCEPT !.pc = p] /\ Others(t)
  BY <1>1 DEF Goto, Others
<1> QED
  BY <1>1, <1>2 DEF From, Claims, TaskRecord

LEMMA EndIs ==
  ASSUME MoveInv, NEW t \in Task, End(t)
  PROVE  task'[t] = IdleTask /\ Others(t)
BY BecomeIs DEF End

\* The same record but for the await, the connection, the tunnel and the exception.
LEMMA ResetRecord ==
  ASSUME NEW r \in TaskRecord, NEW p
  PROVE  LET q == [r EXCEPT !.pc = p, !.c = None, !.old = NoTunnel, !.exc = "none"] IN
         /\ q.pc = p /\ q.sid = r.sid /\ q.kind = r.kind /\ q.alias = r.alias
         /\ q.c = None /\ q.rec = r.rec /\ q.old = NoTunnel
BY DEF TaskRecord

LEMMA OnIs ==
  ASSUME MoveInv, NEW t \in Task, NEW r \in TaskRecord, NEW p,
         Become(t, [r EXCEPT !.pc = p, !.c = None, !.old = NoTunnel, !.exc = "none"])
  PROVE  From(t, r, p) /\ task'[t].c = None /\ Others(t)
<1> DEFINE q == [r EXCEPT !.pc = p, !.c = None, !.old = NoTunnel, !.exc = "none"]
<1>1. q.pc = p /\ q.sid = r.sid /\ q.kind = r.kind /\ q.alias = r.alias /\ q.c = None
  BY ResetRecord
<1>2. Become(t, q)
  OBVIOUS
<1> HIDE DEF q
<1> QED
  BY <1>1, <1>2, BecomeIs DEF From

LEMMA DoesCloseIs ==
  ASSUME MoveInv, NEW t \in Task, NEW r \in TaskRecord, DoesClose(t, r)
  PROVE  From(t, r, "fresh") /\ task'[t].c = None /\ task'[t].rec = Read(r.sid) /\ Others(t)
<1> DEFINE x == Read(r.sid)
           q == [r EXCEPT !.pc = "fresh", !.rec = x, !.c = None, !.old = NoTunnel,
                          !.exc = "none"]
<1>1. Become(t, q)
  BY DEF DoesClose
<1> HIDE DEF x
<1>2. q.pc = "fresh" /\ q.sid = r.sid /\ q.kind = r.kind /\ q.alias = r.alias /\ q.c = None
      /\ q.rec = x
  BY DEF TaskRecord
<1> HIDE DEF q
<1> QED
  BY <1>1, <1>2, BecomeIs DEF From, x

LEMMA NextRowIs ==
  ASSUME MoveInv, NEW r, NextRow(r)
  PROVE  task'[Boot] = NextRowTask /\ Others(Boot) /\ unrecovered' = unrecovered \ {r.sid}
BY BecomeIs DEF NextRow, NextRowTask, Task

LEMMA RestingFields ==
  /\ IdleTask.pc = "idle" /\ IdleTask.sid = None /\ IdleTask.c = None /\ IdleTask.kind = "none"
  /\ NextRowTask.pc = "next_row" /\ NextRowTask.sid = None /\ NextRowTask.c = None
  /\ NextRowTask.kind = "boot"
  /\ \A s : Watcher(s).pc = "watching" /\ Watcher(s).sid = s /\ Watcher(s).c = None
            /\ Watcher(s).kind = "watch" /\ Watcher(s).alias = None
BY DEF IdleTask, NextRowTask, Watcher

-----------------------------------------------------------------------------
(***************************************************************************)
(* Attempts to reattach, which are neither late nor cancelled (Calm) and   *)
(* commit.                                                                 *)
(***************************************************************************)
Calm ==
  /\ "late" \notin Faults
  /\ \A t \in Task : task[t].pc \in ReattachPcs => t \notin cancelled
  /\ \A t \in Task : At(t, "commit") =>
       "completed" \in task[t].ledger /\ registry[task[t].sid] = None
  /\ \A t \in Task : At(t, "drop_conn") => task[t].exc # "cancelled"

\* A failed attempt, in its caller.
HasRaised(t, r) ==
  /\ task'[t].c = None /\ Others(t)
  /\ \/ /\ r.kind = "retry" /\ unrecovered' = unrecovered
        /\ task'[t] = IdleTask \/ From(t, r, "fresh") \/ From(t, r, "backoff")
     \/ /\ r.kind = "watch" /\ unrecovered' = unrecovered
        /\ From(t, r, "lost") \/ From(t, r, "backoff")
     \/ /\ r.kind = "boot" /\ unrecovered' = unrecovered
        /\ From(t, r, "clear_lost") \/ From(t, r, "drop") \/ From(t, r, "mark_lost")
     \/ /\ r.kind = "boot" /\ unrecovered' = unrecovered \ {r.sid} /\ t = Boot
        /\ task'[t] = NextRowTask /\ r.rec.state = "error"

LEMMA RaisesIs ==
  ASSUME MoveInv, NEW t \in Task, NEW r, Reattacher(t, r), NEW exc, exc # "cancelled",
         Raises(t, r, exc)
  PROVE  HasRaised(t, r)
<1>1. r \in TaskRecord /\ KindOK(t, r.kind) /\ r.kind \in {"retry", "watch", "boot"}
  BY DEF Reattacher
<1>2. ASSUME NEW p, Become(t, [r EXCEPT !.pc = p, !.c = None, !.old = NoTunnel, !.exc = "none"])
      PROVE  From(t, r, p) /\ task'[t].c = None /\ Others(t)
  BY <1>1, <1>2, OnIs
<1>3. End(t) => task'[t] = IdleTask /\ task'[t].c = None /\ Others(t)
  BY EndIs, RestingFields
<1>4. CASE r.kind = "retry"
  <2>1. /\ unrecovered' = unrecovered
        /\ \/ End(t) \/ DoesClose(t, r)
           \/ Become(t, [r EXCEPT !.pc = "backoff", !.c = None, !.old = NoTunnel,
                                  !.exc = "none"])
    BY <1>4 DEF Raises
  <2> QED
    BY <1>1, <1>2, <1>3, <1>4, <2>1, DoesCloseIs DEF HasRaised
<1>5. CASE r.kind = "watch"
  <2>1. /\ unrecovered' = unrecovered
        /\ \E p \in {"lost", "backoff"} :
             Become(t, [r EXCEPT !.pc = p, !.c = None, !.old = NoTunnel, !.exc = "none"])
    BY <1>5 DEF Raises
  <2> QED
    BY <1>2, <1>5, <2>1 DEF HasRaised
<1>6. CASE r.kind = "boot"
  <2>1. t = Boot
    BY <1>1, <1>6 DEF KindOK
  <2>2. \/ /\ unrecovered' = unrecovered
           /\ \E p \in {"clear_lost", "drop", "mark_lost"} :
                Become(t, [r EXCEPT !.pc = p, !.c = None, !.old = NoTunnel, !.exc = "none"])
        \/ NextRow(r) /\ r.rec.state = "error"
    BY <1>6 DEF Raises
  <2> QED
    BY <1>2, <1>6, <2>1, <2>2, NextRowIs, RestingFields DEF HasRaised
<1> QED
  BY <1>1, <1>4, <1>5, <1>6

\* An attempt begins, or fails at once.
HasBegun(t, r) ==
  \/ /\ From(t, r, "reconnect") /\ task'[t].rec = r.rec /\ task'[t].c = r.c /\ Others(t)
     /\ unrecovered' = unrecovered /\ tunnels[r.sid].c = None /\ Recoverable(r.sid)
  \/ HasRaised(t, r)

LEMMA ReattachesIs ==
  ASSUME MoveInv, NEW t \in Task, NEW r, Reattacher(t, r), Reattaches(t, r)
  PROVE  HasBegun(t, r)
<1>1. \A exc \in {"error", "unavailable"} : Raises(t, r, exc) => HasRaised(t, r)
  BY RaisesIs
<1>2. ASSUME Become(t, [r EXCEPT !.pc = "reconnect"])
      PROVE  From(t, r, "reconnect") /\ task'[t].rec = r.rec /\ task'[t].c = r.c /\ Others(t)
  <2> DEFINE q == [r EXCEPT !.pc = "reconnect"]
  <2>1. q.pc = "reconnect" /\ q.sid = r.sid /\ q.kind = r.kind /\ q.alias = r.alias
        /\ q.rec = r.rec /\ q.c = r.c
    BY DEF Reattacher, TaskRecord
  <2>2. Become(t, q)
    BY <1>2
  <2> HIDE DEF q
  <2> QED
    BY <2>1, <2>2, BecomeIs DEF From
<1> QED
  BY <1>1, <1>2 DEF Reattaches, HasBegun

\* A new connection drops what is not installed yet.
LEMMA AbandonsIs ==
  ASSUME MoveInv, NEW t \in Task, NEW exc, Abandons(t, exc)
  PROVE  /\ From(t, task[t], "drop_conn") /\ task'[t].c = task[t].c
         /\ task'[t].rec = task[t].rec /\ task'[t].exc = exc /\ Others(t)
         /\ ~task'[t].old.watched
<1> DEFINE On(f) == [task[t] EXCEPT !.pc = "drop_conn", !.exc = exc, !.ledger = {},
                                    !.old = [NoTunnel EXCEPT !.listener = f]]
<1>1. PICK f : Become(t, On(f))
  BY DEF Abandons
<1>2. /\ On(f).pc = "drop_conn" /\ On(f).sid = task[t].sid /\ On(f).kind = task[t].kind
      /\ On(f).alias = task[t].alias /\ On(f).c = task[t].c /\ On(f).rec = task[t].rec
      /\ On(f).exc = exc /\ ~On(f).old.watched
  <2> DEFINE x == [NoTunnel EXCEPT !.listener = f]
             q == [task[t] EXCEPT !.pc = "drop_conn", !.exc = exc, !.ledger = {}, !.old = x]
  <2>1. task[t] \in TaskRecord
    BY TaskFacts
  <2>2. ~x.watched
    BY DEF NoTunnel
  <2> HIDE DEF x
  <2> QED
    BY <2>1, <2>2 DEF TaskRecord, x
<1> HIDE DEF On
<1> QED
  BY <1>1, <1>2, BecomeIs DEF From

\* A watcher is born: at a connection no task watches yet.
Births(t) ==
  LET c == task[t].c IN
  /\ c \in Conn /\ c # t /\ task[c].pc = "idle" /\ task'[c] = Watcher(task[t].sid)
  /\ \A u \in Task \ {t, c} : task'[u] = task[u]

\* The attempt holds a connection and keeps it.
AttemptOn(t) ==
  /\ Others(t) /\ task'[t].c = task[t].c /\ task'[t].rec = task[t].rec
  /\ UNCHANGED <<tunnels, registry, unrecovered>>
  /\ \/ At(t, "inspect") /\ (From(t, task[t], "reforward") \/ From(t, task[t], "remove"))
     \/ /\ At(t, "reforward") /\ From(t, task[t], "commit")
        /\ CompleteRecovery(task[t].sid)
        /\ Recoverable(task[t].sid) => "completed" \in task'[t].ledger
     \/ /\ task[t].pc \in {"inspect", "remove", "reforward"} /\ From(t, task[t], "drop_conn")
        /\ task'[t].exc \notin {"late", "cancelled"} /\ ~task'[t].old.watched
  /\ ~(At(t, "reforward") /\ task'[t].pc = "commit") => UNCHANGED row

\* How a step of an attempt ends.
AttemptDoes(t) ==
  \/ /\ At(t, "reconnect") /\ From(t, task[t], "inspect") /\ Others(t)
     /\ Connects(task'[t].c) /\ task'[t].c \in Conn /\ Opened(task'[t].c)
     /\ task'[t].rec = task[t].rec
     /\ UNCHANGED <<row, tunnels, registry, unrecovered>>
  \/ AttemptOn(t)
  \/ /\ At(t, "commit") /\ From(t, task[t], "installed") /\ Births(t) /\ task'[t].c = None
     /\ Keep(task[t].sid, LiveTunnel(task[t].c)) /\ Published(task[t].sid, task[t].c)
     /\ UNCHANGED <<row, unrecovered>>
  \/ /\ At(t, "reconnect") /\ HasRaised(t, task[t]) /\ UNCHANGED <<row, tunnels, registry>>
  \/ /\ At(t, "drop_conn") /\ HasRaised(t, task[t]) /\ UNCHANGED <<row, registry>>
     /\ \/ UNCHANGED tunnels /\ Closed(task[t].c)
        \/ Keep(task[t].sid, [task[t].old EXCEPT !.c = task[t].c]) /\ "close" \in Faults
  \/ /\ At(t, "installed") /\ Others(t) /\ UNCHANGED <<row, tunnels, registry>>
     /\ \/ task[t].kind # "boot" /\ task'[t] = IdleTask /\ UNCHANGED unrecovered
        \/ /\ t = Boot /\ task[t].kind = "boot" /\ task'[t] = NextRowTask
           /\ unrecovered' = unrecovered \ {task[t].sid}
  \/ /\ At(t, "backoff") /\ t \notin cancelled /\ UNCHANGED <<tunnels, registry>>
     /\ \/ /\ task[t].kind = "watch" /\ From(t, task[t], "attempt") /\ Others(t)
           /\ task'[t].c = task[t].c /\ UNCHANGED <<row, unrecovered>>
        \/ /\ task[t].kind = "retry" /\ (BeginRecovery(task[t].sid) \/ UNCHANGED row)
           /\ \E r : /\ HasBegun(t, r) /\ r.sid = task[t].sid /\ r.kind = "retry"
                     /\ r.alias = task[t].alias /\ r.c = task[t].c

LEMMA AttemptIs ==
  ASSUME MoveInv, Calm, NEW t \in Task, ReattachStep(t)
  PROVE  AttemptDoes(t) /\ cancelled' = cancelled /\ t \notin cancelled
<1>1. /\ task[t] \in TaskRecord /\ task \in [Task -> TaskRecord]
      /\ task[t].pc \in ReattachPcs \cup {"backoff"}
  BY TaskFacts DEF MoveInv, TypeOK, ReattachStep, Reconnects, Interrupted, Inspects,
     RemovesAbsent, ReattachVerifies, ReattachInstalls, ReattachReads, DropsConn,
     BackoffEnds, At, ReattachPcs
<1>2. t \notin cancelled
  BY <1>1 DEF Calm, ReattachStep, Reconnects, Interrupted, Inspects, RemovesAbsent,
     ReattachVerifies, ReattachInstalls, ReattachReads, DropsConn, BackoffEnds, At, ReattachPcs
<1>3. ASSUME NEW exc \in {"late", "cancelled"}, Interrupts(t, exc) PROVE FALSE
  BY <1>2, <1>3 DEF Calm, Interrupts, Fault
<1>4. CASE BackoffEnds(t)
  <2> DEFINE n == task[t].tries + 1
             r == [task[t] EXCEPT !.pc = "attempt", !.tries = n]
  <2>1. /\ ShapeOK(t, task[t]) /\ task[t].pc = "backoff"
    BY <1>4 DEF BackoffEnds, At, MoveInv, TaskShape
  <2>2. /\ task[t].tries < MaxTries /\ task[t].sid \in Sid /\ task[t].alias \in Alias
        /\ KindOK(t, task[t].kind) /\ Suspended(task[t])
    BY <2>1 DEF ShapeOK
  <2>3. n \in 0..MaxTries
    <3>1. task[t].tries \in 0..MaxTries
      BY <1>1 DEF TaskRecord
    <3> QED
      BY <2>2, <3>1, ServiceAssumption
  <2>4. "attempt" \in Label /\ task[t].kind \in {"retry", "watch"}
    BY <2>1, <2>2 DEF Label, WatchPcs, Suspended, ClosePcs, StartPcs, BootPcs, DoClosePcs,
       ReattachPcs
  <2>5. /\ UNCHANGED <<tunnels, registry, cancelled>>
        /\ \/ task[t].kind = "retry" /\ Reattaches(t, r)
           \/ task[t].kind # "retry" /\ Become(t, r) /\ UNCHANGED <<row, unrecovered>>
    BY <1>4 DEF BackoffEnds, memory
  <2> HIDE DEF n
  <2>6. Like(r, task[t]) /\ r.pc = "attempt" /\ r.c = task[t].c /\ r.rec = task[t].rec
    BY <1>1, <2>3, <2>4 DEF TaskRecord, Like
  <2> HIDE DEF r
  <2>7. Reattacher(t, r) /\ r.sid = task[t].sid /\ r.kind = task[t].kind
        /\ r.alias = task[t].alias
    BY <2>2, <2>4, <2>6 DEF Like, Reattacher
  <2>8. CASE task[t].kind = "retry"
    <3>1. Reattaches(t, r)
      BY <2>5, <2>8
    <3>2. BeginRecovery(task[t].sid) \/ UNCHANGED row
      BY <2>7, <3>1 DEF Reattaches
    <3> QED
      BY <1>2, <2>1, <2>5, <2>6, <2>7, <2>8, <3>1, <3>2, ReattachesIs DEF AttemptDoes, At
  <2>9. CASE task[t].kind = "watch"
    <3>1. task'[t] = r /\ Others(t)
      BY <2>5, <2>9, BecomeIs
    <3> QED
      BY <1>2, <2>1, <2>5, <2>6, <2>7, <2>9, <3>1 DEF AttemptDoes, At, From
  <2> QED
    BY <2>4, <2>8, <2>9
<1>5. CASE ~BackoffEnds(t)
  <2>1. task[t].pc \in ReattachPcs
    BY <1>5 DEF ReattachStep, Reconnects, Interrupted, Inspects, RemovesAbsent,
       ReattachVerifies, ReattachInstalls, ReattachReads, DropsConn, At, ReattachPcs
  <2>2. Reattacher(t, task[t]) /\ task[t].sid \in Sid
    BY <2>1, AtReattach DEF Reattacher
  <2>3. ASSUME NEW exc, exc # "cancelled", Raises(t, task[t], exc)
        PROVE  HasRaised(t, task[t])
    BY <2>2, <2>3, RaisesIs
  <2>4. ASSUME NEW p, Goto(t, p)
        PROVE  From(t, task[t], p) /\ task'[t].c = task[t].c /\ task'[t].rec = task[t].rec
               /\ Others(t)
    BY <2>4, GotoIs DEF Claims
  <2>5. CASE Reconnects(t)
    <3>1. \/ /\ \E exc \in {"error"} : Raises(t, task[t], exc)
             /\ UNCHANGED <<row, tunnels, registry, cancelled>>
          \/ /\ UNCHANGED <<row, tunnels, registry, unrecovered, cancelled>>
             /\ \E c \in Conn : /\ Connects(c) /\ Opened(c)
                                /\ Become(t, [task[t] EXCEPT !.pc = "inspect", !.c = c])
      BY <1>3, <2>5 DEF Reconnects, memory, Uninterrupted
    <3>2. ASSUME NEW c \in Conn, Become(t, [task[t] EXCEPT !.pc = "inspect", !.c = c])
          PROVE  From(t, task[t], "inspect") /\ task'[t].c = c /\ task'[t].rec = task[t].rec
                 /\ Others(t)
      <4> DEFINE q == [task[t] EXCEPT !.pc = "inspect", !.c = c]
      <4>1. q.pc = "inspect" /\ q.sid = task[t].sid /\ q.kind = task[t].kind
            /\ q.alias = task[t].alias /\ q.c = c /\ q.rec = task[t].rec
        BY <1>1 DEF TaskRecord
      <4>2. Become(t, q)
        BY <3>2
      <4> HIDE DEF q
      <4> QED
        BY <4>1, <4>2, BecomeIs DEF From
    <3>3. At(t, "reconnect")
      BY <2>5 DEF Reconnects
    <3> QED
      BY <1>2, <2>3, <3>1, <3>2, <3>3 DEF AttemptDoes
  <2>6. CASE Interrupted(t)
    BY <1>3, <2>6 DEF Interrupted
  <2>7. CASE Inspects(t)
    <3>1. /\ \/ \E exc \in {"unavailable", "error"} : Abandons(t, exc)
             \/ Goto(t, "reforward") \/ Goto(t, "remove")
          /\ At(t, "inspect") /\ UNCHANGED <<row, tunnels, registry, unrecovered, cancelled>>
      BY <2>7 DEF Inspects, memory, Uninterrupted
    <3> QED
      BY <1>2, <2>4, <3>1, AbandonsIs DEF AttemptDoes, AttemptOn, At
  <2>8. CASE RemovesAbsent(t)
    <3>1. /\ Abandons(t, "error") \/ Abandons(t, "absent")
          /\ At(t, "remove") /\ UNCHANGED <<row, tunnels, registry, unrecovered, cancelled>>
      BY <2>8 DEF RemovesAbsent, memory, Uninterrupted
    <3> QED
      BY <1>2, <3>1, AbandonsIs DEF AttemptDoes, AttemptOn, At
  <2>9. CASE ReattachVerifies(t)
    <3> DEFINE l == IF Recoverable(task[t].sid) THEN {"completed"} ELSE {}
               q == [task[t] EXCEPT !.pc = "commit", !.ledger = l]
    <3>1. /\ (Abandons(t, "error") /\ UNCHANGED row)
             \/ (Become(t, q) /\ CompleteRecovery(task[t].sid))
          /\ At(t, "reforward") /\ UNCHANGED <<tunnels, registry, unrecovered, cancelled>>
      BY <2>9 DEF ReattachVerifies, memory, Uninterrupted
    <3>2. Recoverable(task[t].sid) => "completed" \in l
      OBVIOUS
    <3> HIDE DEF l
    <3>3. q.pc = "commit" /\ q.sid = task[t].sid /\ q.kind = task[t].kind
          /\ q.alias = task[t].alias /\ q.c = task[t].c /\ q.rec = task[t].rec /\ q.ledger = l
      BY <1>1 DEF TaskRecord
    <3> HIDE DEF q
    <3>4. Become(t, q) => task'[t] = q /\ Others(t)
      BY BecomeIs
    <3>5. CASE Abandons(t, "error") /\ UNCHANGED row
      BY <1>2, <3>1, <3>5, AbandonsIs DEF AttemptDoes, AttemptOn, At
    <3>6. CASE Become(t, q) /\ CompleteRecovery(task[t].sid)
      <4>1. /\ Others(t) /\ task'[t].c = task[t].c /\ task'[t].rec = task[t].rec
            /\ From(t, task[t], "commit")
            /\ Recoverable(task[t].sid) => "completed" \in task'[t].ledger
        BY <3>2, <3>3, <3>4, <3>6 DEF From
      <4>2. AttemptOn(t)
        BY <3>1, <3>6, <4>1 DEF AttemptOn, From
      <4> QED
        BY <1>2, <3>1, <4>2 DEF AttemptDoes
    <3> QED
      BY <3>1, <3>5, <3>6
  <2>10. CASE ReattachInstalls(t)
    <3> DEFINE r == [task[t] EXCEPT !.pc = "installed", !.c = None, !.ledger = {}]
               c == task[t].c
    <3>1. /\ At(t, "commit") /\ "completed" \in task[t].ledger /\ registry[task[t].sid] = None
      BY <2>10 DEF ReattachInstalls, Calm
    <3>2. /\ Keep(task[t].sid, LiveTunnel(c)) /\ Published(task[t].sid, c)
          /\ task' = [task EXCEPT ![t].pc = "installed", ![t].c = None,
                                  ![t].ledger = {}, ![c] = Watcher(task[t].sid)]
          /\ UNCHANGED <<row, unrecovered, cancelled>>
      BY <2>10, <3>1 DEF ReattachInstalls, Uninterrupted
    <3>3. r.pc = "installed" /\ r.sid = task[t].sid /\ r.kind = task[t].kind
          /\ r.alias = task[t].alias /\ r.c = None
      BY <1>1 DEF TaskRecord
    <3>4. task' = [[task EXCEPT ![t] = r] EXCEPT ![c] = Watcher(task[t].sid)]
      BY <1>1, <3>2
    <3>5. Fresh(task[t])
      BY <3>1 DEF At, Fresh
    <3>6. c # t /\ c \in Conn /\ task[c].pc = "idle" /\ c \in Task
      BY <3>1, <3>5 DEF MoveInv, FreshConnections, FreshOK, At, Task
    <3> HIDE DEF r
    <3>7. task'[t] = r /\ Births(t)
      BY <1>1, <3>4, <3>6 DEF Births
    <3>8. From(t, task[t], "installed") /\ task'[t].c = None
      BY <3>3, <3>7 DEF From
    <3> QED
      BY <1>2, <3>1, <3>2, <3>7, <3>8 DEF AttemptDoes
  <2>11. CASE ReattachReads(t)
    <3>1. At(t, "installed") /\ Reattached(t) /\ UNCHANGED <<row, tunnels, registry, cancelled>>
      BY <1>3, <2>11 DEF ReattachReads, memory, Uninterrupted
    <3>2. \/ task[t].kind # "boot" /\ End(t) /\ UNCHANGED unrecovered
          \/ task[t].kind = "boot" /\ NextRow(task[t])
      BY <2>2, <3>1 DEF Reattached, Reattacher
    <3>3. task[t].kind = "boot" => t = Boot
      BY <2>2 DEF Reattacher, KindOK
    <3> QED
      BY <1>2, <3>1, <3>2, <3>3, EndIs, NextRowIs DEF AttemptDoes
  <2>12. CASE DropsConn(t)
    <3>0. \A exc \in {"late", "cancelled"} : ~Interrupts(t, exc)
      BY <1>3
    <3>1. /\ At(t, "drop_conn") /\ UNCHANGED <<row, registry, cancelled>>
          /\ \/ UNCHANGED tunnels /\ Closed(task[t].c)
             \/ Keep(task[t].sid, [task[t].old EXCEPT !.c = task[t].c]) /\ "close" \in Faults
      BY <2>12, <3>0 DEF DropsConn, Fault
    <3>2. \/ Raises(t, task[t], task[t].exc)
          \/ task[t].exc \notin {"late", "cancelled"} /\ Raises(t, task[t], "error")
          \/ task[t].exc \in {"late", "cancelled"} /\ Raises(t, task[t], task[t].exc)
      BY <2>12, <3>0 DEF DropsConn
    <3>3. task[t].exc # "cancelled"
      BY <3>1 DEF Calm
    <3> QED
      BY <1>2, <2>3, <3>1, <3>2, <3>3 DEF AttemptDoes
  <2> QED
    BY <1>5, <2>5, <2>6, <2>7, <2>8, <2>9, <2>10, <2>11, <2>12 DEF ReattachStep
<1> QED
  BY <1>4, <1>5

-----------------------------------------------------------------------------
(***************************************************************************)
(* Rows: what a statement does to the state, the alias and the close       *)
(* request, which is all that the invariant looks at.                      *)
(***************************************************************************)
SameRow(s) ==
  /\ row'[s].state = row[s].state /\ row'[s].alias = row[s].alias
  /\ row'[s].close_reason = row[s].close_reason
SameRows == \A s \in Sid : SameRow(s)
OtherRows(s) == \A u \in Sid \ {s} : SameRow(u)

RowTo(s, state) ==
  /\ row'[s].state = state /\ row'[s].alias = row[s].alias
  /\ row'[s].close_reason = row[s].close_reason /\ OtherRows(s)
Marked(s) == IF Exists(s) THEN RowTo(s, "error") ELSE SameRows

LEMMA RowFields ==
  ASSUME StoreTypeOK, NEW s \in Sid
  PROVE  row[s] \in Row /\ row \in [Sid -> Row]
BY DEF StoreTypeOK

\* An edit of other columns.
LEMMA ColumnsEdited ==
  ASSUME StoreTypeOK, NEW s \in Sid,
         \/ SetRemoteIdentity(s) \/ ClearRemoteIdentity(s) \/ SetTunnelIdentity(s)
         \/ ClearTunnelIdentity(s) \/ BeginRecovery(s) \/ UNCHANGED row
  PROVE  SameRows
<1>1. row \in [Sid -> Row] /\ row[s] \in Row
  BY RowFields
<1>2. \/ UNCHANGED row
      \/ \E b \in BOOLEAN : \/ row' = [row EXCEPT ![s] = [row[s] EXCEPT !.identity = b]]
                            \/ row' = [row EXCEPT ![s] = [row[s] EXCEPT !.local_port = b]]
      \/ row' = [row EXCEPT ![s].local_port = FALSE]
  BY DEF SetRemoteIdentity, ClearRemoteIdentity, SetTunnelIdentity, ClearTunnelIdentity,
     BeginRecovery, Update
<1>3. ASSUME NEW b \in BOOLEAN, NEW u \in Sid,
             \/ row' = [row EXCEPT ![s] = [row[s] EXCEPT !.identity = b]]
             \/ row' = [row EXCEPT ![s] = [row[s] EXCEPT !.local_port = b]]
             \/ row' = [row EXCEPT ![s].local_port = FALSE]
      PROVE  SameRow(u)
  <2>1. u # s => row'[u] = row[u]
    BY <1>1, <1>3
  <2>2. /\ row'[s].state = row[s].state /\ row'[s].alias = row[s].alias
        /\ row'[s].close_reason = row[s].close_reason
    BY <1>1, <1>3 DEF Row, LiveRow, NoRow
  <2> QED
    BY <2>1, <2>2 DEF SameRow
<1> QED
  BY <1>2, <1>3 DEF SameRows, SameRow

\* A statement that sets the state.
LEMMA StateEdited ==
  ASSUME StoreTypeOK, NEW s \in Sid
  PROVE  /\ \A code : MarkError(s, code) => Marked(s)
         /\ MarkReady(s) => IF row[s].state = "starting" THEN RowTo(s, "ready") ELSE SameRows
         /\ CompleteRecovery(s) => IF Recoverable(s) THEN RowTo(s, "ready") ELSE SameRows
<1>1. row \in [Sid -> Row] /\ row[s] \in Row
  BY RowFields
<1>2. row' = row => SameRows
  BY DEF SameRows, SameRow
<1>3. ASSUME NEW q, row' = [row EXCEPT ![s] = q], NEW state, q.state = state,
             q.alias = row[s].alias, q.close_reason = row[s].close_reason
      PROVE  RowTo(s, state)
  BY <1>1, <1>3 DEF RowTo, OtherRows, SameRow
<1>4. ASSUME NEW code, MarkError(s, code)
      PROVE  Marked(s)
  <2> DEFINE q == [row[s] EXCEPT !.state = "error", !.error_code = code]
  <2>1. row' = IF Exists(s) THEN [row EXCEPT ![s] = q] ELSE row
    BY <1>4 DEF MarkError, Update
  <2>2. q.state = "error" /\ q.alias = row[s].alias /\ q.close_reason = row[s].close_reason
    BY <1>1 DEF Row, LiveRow, NoRow
  <2> HIDE DEF q
  <2> QED
    BY <1>2, <1>3, <2>1, <2>2 DEF Marked
<1>5. ASSUME MarkReady(s)
      PROVE  IF row[s].state = "starting" THEN RowTo(s, "ready") ELSE SameRows
  <2> DEFINE q == [row[s] EXCEPT !.state = "ready"]
  <2>1. row' = IF row[s].state = "starting" THEN [row EXCEPT ![s] = q] ELSE row
    BY <1>1, <1>5 DEF MarkReady
  <2>2. q.state = "ready" /\ q.alias = row[s].alias /\ q.close_reason = row[s].close_reason
    BY <1>1 DEF Row, LiveRow, NoRow
  <2> HIDE DEF q
  <2> QED
    BY <1>2, <1>3, <2>1, <2>2
<1>6. ASSUME CompleteRecovery(s)
      PROVE  IF Recoverable(s) THEN RowTo(s, "ready") ELSE SameRows
  <2> DEFINE q == [row[s] EXCEPT !.state = "ready", !.identity = TRUE, !.local_port = TRUE,
                                 !.error_code = "none"]
  <2>1. row' = IF Recoverable(s) THEN [row EXCEPT ![s] = q] ELSE row
    BY <1>1, <1>6 DEF CompleteRecovery
  <2>2. q.state = "ready" /\ q.alias = row[s].alias /\ q.close_reason = row[s].close_reason
    BY <1>1 DEF Row, LiveRow, NoRow
  <2> HIDE DEF q
  <2> QED
    BY <1>2, <1>3, <2>1, <2>2
<1> QED
  BY <1>4, <1>5, <1>6

\* A close request, a deletion and an insert.
LEMMA RowEdited ==
  ASSUME StoreTypeOK, NEW s \in Sid
  PROVE  /\ Delete(s) => row'[s] = NoRow /\ OtherRows(s)
         /\ MarkStopping(s) =>
              IF Exists(s) THEN /\ row'[s].state = "stopping" /\ row'[s].close_reason
                                /\ row'[s].alias = row[s].alias /\ OtherRows(s)
                           ELSE SameRows
         /\ \A a : Insert(s, a) =>
              /\ row'[s].state = "starting" /\ row'[s].alias = a /\ ~row'[s].close_reason
              /\ OtherRows(s) /\ ~Exists(s) /\ RowsOf(a) = {}
<1>1. row \in [Sid -> Row] /\ row[s] \in Row
  BY RowFields
<1>2. ASSUME NEW q, row' = [row EXCEPT ![s] = q]
      PROVE  row'[s] = q /\ OtherRows(s)
  BY <1>1, <1>2 DEF OtherRows, SameRow
<1>3. ASSUME MarkStopping(s), Exists(s)
      PROVE  /\ row'[s].state = "stopping" /\ row'[s].close_reason
             /\ row'[s].alias = row[s].alias /\ OtherRows(s)
  <2> DEFINE q == [row[s] EXCEPT !.state = "stopping", !.close_reason = TRUE]
  <2>1. row' = [row EXCEPT ![s] = q]
    BY <1>3 DEF MarkStopping, Update
  <2>2. q.state = "stopping" /\ q.alias = row[s].alias /\ q.close_reason
    BY <1>1, <1>3 DEF Row, LiveRow, NoRow
  <2> HIDE DEF q
  <2> QED
    BY <1>2, <2>1, <2>2
<1>4. ASSUME NEW a, Insert(s, a)
      PROVE  /\ row'[s].state = "starting" /\ row'[s].alias = a /\ ~row'[s].close_reason
             /\ OtherRows(s) /\ ~Exists(s) /\ RowsOf(a) = {}
  <2>1. /\ NewRow(a).state = "starting" /\ NewRow(a).alias = a /\ ~NewRow(a).close_reason
    BY DEF NewRow, NoRow
  <2> QED
    BY <1>2, <1>4, <2>1 DEF Insert
<1> QED
  BY <1>2, <1>3, <1>4 DEF Delete, MarkStopping, Update, SameRows, SameRow

-----------------------------------------------------------------------------
(***************************************************************************)
(* _do_close.                                                              *)
(***************************************************************************)
\* The memory a session's tasks share.
Kept == UNCHANGED <<tunnels, registry, cancelled>>

\* Back in the caller.
HasReturned(t) ==
  /\ Others(t)
  /\ \/ /\ task[t].kind \in {"close", "force"} /\ task'[t] = IdleTask
        /\ unrecovered' = unrecovered
     \/ /\ task[t].kind = "retry" /\ From(t, task[t], "closed") /\ unrecovered' = unrecovered
        /\ task'[t].rec = row'[task[t].sid] /\ task'[t].c = task[t].c
     \/ /\ t = Boot /\ task[t].kind = "boot" /\ task'[t] = NextRowTask
        /\ unrecovered' = unrecovered \ {task[t].sid}

LEMMA ReturnsIs ==
  ASSUME MoveInv, NEW t \in Task, task[t].pc \in DoClosePcs, DoCloseReturns(t)
  PROVE  HasReturned(t)
<1>1. task[t] \in TaskRecord /\ DoCloseTask(t, task[t])
  BY TaskFacts, AtDoClose
<1>2. CASE task[t].kind \in {"close", "force"}
  BY <1>2, EndIs DEF DoCloseReturns, HasReturned
<1>3. CASE task[t].kind = "retry"
  <2> DEFINE x == row'[task[t].sid]
             q == [task[t] EXCEPT !.pc = "closed", !.rec = x]
  <2>1. Become(t, q) /\ unrecovered' = unrecovered
    BY <1>3 DEF DoCloseReturns
  <2> HIDE DEF x
  <2>2. q.pc = "closed" /\ q.sid = task[t].sid /\ q.kind = task[t].kind
        /\ q.alias = task[t].alias /\ q.rec = x /\ q.c = task[t].c
    BY <1>1 DEF TaskRecord
  <2> HIDE DEF q
  <2> QED
    BY <1>3, <2>1, <2>2, BecomeIs DEF From, HasReturned, x
<1>4. CASE task[t].kind = "boot"
  <2>1. NextRow(task[t]) /\ t = Boot
    BY <1>1, <1>4 DEF DoCloseReturns, DoCloseTask
  <2> QED
    BY <1>4, <2>1, NextRowIs DEF HasReturned
<1> QED
  BY <1>1, <1>2, <1>3, <1>4 DEF DoCloseTask

\* The task goes on within _do_close with the connection it has.
CloseGoesOn(t) ==
  /\ Others(t) /\ UNCHANGED <<tunnels, registry, cancelled, unrecovered>> /\ SameRows
  /\ task'[t].c = task[t].c
  /\ \/ /\ At(t, "take_over")
        /\ \E p \in {"forget", "close_conn", "dial", "stop"} :
             From(t, task[t], p) /\ (task[t].c # None => p \in {"close_conn", "stop"})
     \/ At(t, "dial") /\ From(t, task[t], "finish")
     \/ At(t, "stop") /\ From(t, task[t], "close_conn")
     \/ At(t, "forget") /\ From(t, task[t], "finish")

\* How a step of _do_close ends.
CloseDoes(t) ==
  \/ /\ At(t, "do_close") /\ From(t, task[t], "fresh") /\ Others(t) /\ task'[t].c = None
     /\ UNCHANGED <<row, tunnels, registry, cancelled, unrecovered>>
     /\ task'[t].rec = Read(task[t].sid)
  \/ /\ At(t, "fresh") /\ task[t].rec.state = "closed" /\ HasReturned(t)
     /\ UNCHANGED <<row, tunnels, cancelled>> /\ Unpublished(task[t].sid)
  \/ /\ At(t, "fresh") /\ task[t].rec.state # "closed" /\ Others(t)
     /\ UNCHANGED <<row, registry, unrecovered>> /\ Keep(task[t].sid, NoTunnel)
     /\ cancelled' = cancelled \cup WatcherOf(tunnels[task[t].sid])
     /\ task'[t].c = tunnels[task[t].sid].c
     /\ \E p \in {"take_over", "forget", "dial"} :
          From(t, task[t], p) /\ (task'[t].c # None => p = "take_over")
  \/ CloseGoesOn(t)
  \/ /\ At(t, "dial") /\ From(t, task[t], "stop") /\ Others(t)
     /\ Connects(task'[t].c) /\ task'[t].c \in Conn
     /\ UNCHANGED <<row, tunnels, registry, cancelled, unrecovered>>
  \/ /\ At(t, "close_conn") /\ From(t, task[t], "forget") /\ Others(t) /\ task'[t].c = None
     /\ SameRows /\ UNCHANGED <<registry, cancelled, unrecovered>>
     /\ \/ UNCHANGED tunnels /\ Closed(task[t].c)
        \/ /\ "close" \in Faults
           /\ \/ UNCHANGED tunnels /\ task[t].kind = "force"
              \/ Keep(task[t].sid, [NoTunnel EXCEPT !.c = task[t].c])
  \/ /\ At(t, "finish") /\ task[t].kind # "force" /\ Marked(task[t].sid) /\ HasReturned(t) /\ Kept
  \/ /\ At(t, "finish") /\ From(t, task[t], "deleted") /\ Others(t) /\ task'[t].c = task[t].c
     /\ row'[task[t].sid] = NoRow /\ OtherRows(task[t].sid) /\ unrecovered' = unrecovered /\ Kept
  \/ /\ At(t, "deleted") /\ HasReturned(t) /\ UNCHANGED <<row, tunnels, cancelled>>
     /\ Unpublished(task[t].sid)

LEMMA CloseIs ==
  ASSUME MoveInv, NEW t \in Task, DoCloseStep(t)
  PROVE  CloseDoes(t)
<1> DEFINE s == task[t].sid
<1>1. task[t] \in TaskRecord /\ task[t].pc \in DoClosePcs \cup {"do_close"} /\ StoreTypeOK
  BY TaskFacts DEF DoCloseStep, DoCloseReads, DoCloseTakesTunnel, DoCloseStopsListener,
     DoCloseDials, DoCloseStopsRemote, DoCloseClosesConn, DoCloseForgets, DoCloseFinishes,
     DoCloseReleases, At, DoClosePcs, MoveInv, TypeOK
<1>2. s \in Sid
  BY <1>1, TaskFacts DEF DoClosePcs
<1>3. ASSUME task[t].pc \in DoClosePcs, DoCloseReturns(t) PROVE HasReturned(t)
  BY <1>3, ReturnsIs
<1>4. ASSUME NEW p, Goto(t, p)
      PROVE  From(t, task[t], p) /\ task'[t].c = task[t].c /\ Others(t)
  BY <1>4, GotoIs DEF Claims
<1>5. \/ SetRemoteIdentity(s) \/ ClearRemoteIdentity(s) \/ SetTunnelIdentity(s)
      \/ ClearTunnelIdentity(s) \/ UNCHANGED row
      => SameRows
  BY <1>1, <1>2, ColumnsEdited
<1>6. CASE DoCloseReads(t)
  BY <1>1, <1>6, DoesCloseIs DEF DoCloseReads, CloseDoes, memory
<1>7. CASE DoCloseTakesTunnel(t)
  <2>1. At(t, "fresh") /\ task[t].pc \in DoClosePcs
    BY <1>7 DEF DoCloseTakesTunnel, At, DoClosePcs
  <2>2. CASE task[t].rec.state = "closed"
    BY <1>3, <1>7, <2>1, <2>2 DEF DoCloseTakesTunnel, CloseDoes
  <2>3. CASE task[t].rec.state # "closed"
    <3> DEFINE x == tunnels[s]
               p == IF x.c = None THEN RemoteStage(task[t].rec, None) ELSE "take_over"
               a == CanCloseWithoutRemote(task[t].rec)
               q == [task[t] EXCEPT !.c = x.c, !.old = x, !.absent = a, !.pc = p]
    <3>1. /\ Keep(s, NoTunnel) /\ cancelled' = cancelled \cup WatcherOf(x)
          /\ Become(t, q) /\ UNCHANGED <<row, registry, unrecovered>>
      BY <1>7, <2>3 DEF DoCloseTakesTunnel
    <3>2. p \in {"take_over", "forget", "dial"} /\ (x.c # None => p = "take_over")
      BY DEF RemoteStage
    <3> HIDE DEF p, a, x
    <3>3. q.pc = p /\ q.sid = task[t].sid /\ q.kind = task[t].kind /\ q.alias = task[t].alias
          /\ q.c = x.c
      BY <1>1 DEF TaskRecord
    <3> HIDE DEF q
    <3>4. From(t, task[t], p) /\ task'[t].c = x.c /\ Others(t)
      BY <3>1, <3>3, BecomeIs DEF From
    <3> QED
      BY <2>1, <2>3, <3>1, <3>2, <3>4 DEF CloseDoes, x
  <2> QED
    BY <2>2, <2>3
<1>8. CASE DoCloseStopsListener(t)
  <2> DEFINE p == RemoteStage(task[t].rec, task[t].c)
             q == [task[t] EXCEPT !.pc = p, !.errors = TRUE, !.old = NoTunnel]
  <2>1. /\ At(t, "take_over") /\ (Goto(t, p) \/ Become(t, q))
        /\ UNCHANGED <<row, tunnels, registry, cancelled, unrecovered>>
    BY <1>8 DEF DoCloseStopsListener, memory
  <2>2. p \in {"forget", "close_conn", "dial", "stop"}
        /\ (task[t].c # None => p \in {"close_conn", "stop"})
    BY DEF RemoteStage
  <2> HIDE DEF p
  <2>3. q.pc = p /\ q.sid = task[t].sid /\ q.kind = task[t].kind /\ q.alias = task[t].alias
        /\ q.c = task[t].c
    BY <1>1 DEF TaskRecord
  <2> HIDE DEF q
  <2>4. From(t, task[t], p) /\ task'[t].c = task[t].c /\ Others(t)
    BY <1>4, <2>1, <2>3, BecomeIs DEF From
  <2> QED
    BY <1>5, <2>1, <2>2, <2>4 DEF CloseDoes, CloseGoesOn
<1>9. CASE DoCloseDials(t)
  <2> DEFINE In(c) == [task[t] EXCEPT !.pc = "stop", !.c = c]
             q == [task[t] EXCEPT !.pc = "finish", !.errors = TRUE]
  <2>1. /\ At(t, "dial") /\ UNCHANGED <<row, tunnels, registry, cancelled, unrecovered>>
        /\ Become(t, q) \/ \E c \in Conn : Connects(c) /\ Become(t, In(c))
    BY <1>9 DEF DoCloseDials, memory
  <2>2. /\ q.pc = "finish" /\ q.sid = task[t].sid /\ q.kind = task[t].kind
        /\ q.alias = task[t].alias /\ q.c = task[t].c
    BY <1>1 DEF TaskRecord
  <2>3. ASSUME NEW c
        PROVE  /\ In(c).pc = "stop" /\ In(c).sid = task[t].sid /\ In(c).kind = task[t].kind
               /\ In(c).alias = task[t].alias /\ In(c).c = c
    BY <1>1 DEF TaskRecord
  <2> HIDE DEF q, In
  <2>4. CASE Become(t, q)
    BY <1>5, <2>1, <2>2, <2>4, BecomeIs DEF CloseDoes, CloseGoesOn, From
  <2>5. ASSUME NEW c \in Conn, Connects(c), Become(t, In(c)) PROVE CloseDoes(t)
    <3>1. From(t, task[t], "stop") /\ task'[t].c = c /\ Others(t)
      BY <2>3, <2>5, BecomeIs DEF From
    <3> QED
      BY <2>1, <2>5, <3>1 DEF CloseDoes
  <2> QED
    BY <2>1, <2>4, <2>5
<1>10. CASE DoCloseStopsRemote(t)
  <2> DEFINE After(a, e) == [task[t] EXCEPT !.pc = "close_conn", !.absent = a,
                                            !.errors = @ \/ e]
  <2>1. /\ At(t, "stop") /\ UNCHANGED <<row, tunnels, registry, cancelled, unrecovered>>
        /\ \E a, e : Become(t, After(a, e))
    BY <1>10 DEF DoCloseStopsRemote, memory
  <2>2. ASSUME NEW a, NEW e
        PROVE  /\ After(a, e).pc = "close_conn" /\ After(a, e).sid = task[t].sid
               /\ After(a, e).kind = task[t].kind /\ After(a, e).alias = task[t].alias
               /\ After(a, e).c = task[t].c
    BY <1>1 DEF TaskRecord
  <2> HIDE DEF After
  <2>3. From(t, task[t], "close_conn") /\ task'[t].c = task[t].c /\ Others(t)
    BY <2>1, <2>2, BecomeIs DEF From
  <2> QED
    BY <1>5, <2>1, <2>3 DEF CloseDoes, CloseGoesOn
<1>11. CASE DoCloseClosesConn(t)
  <2> DEFINE q == [task[t] EXCEPT !.pc = "forget", !.c = None, !.old = NoTunnel]
             e == [task[t] EXCEPT !.pc = "forget", !.c = None, !.old = NoTunnel, !.errors = TRUE]
  <2>1. /\ At(t, "close_conn") /\ UNCHANGED <<registry, cancelled, unrecovered>>
        /\ ClearTunnelIdentity(s) \/ UNCHANGED row
        /\ \/ UNCHANGED tunnels /\ Closed(task[t].c)
           \/ /\ "close" \in Faults
              /\ \/ UNCHANGED tunnels /\ task[t].kind = "force"
                 \/ Keep(s, [NoTunnel EXCEPT !.c = task[t].c])
        /\ Become(t, q) \/ Become(t, e)
    BY <1>11 DEF DoCloseClosesConn, Fault
  <2>2. /\ q.pc = "forget" /\ q.sid = task[t].sid /\ q.kind = task[t].kind
        /\ q.alias = task[t].alias /\ q.c = None
    BY <1>1 DEF TaskRecord
  <2>3. /\ e.pc = "forget" /\ e.sid = task[t].sid /\ e.kind = task[t].kind
        /\ e.alias = task[t].alias /\ e.c = None
    BY <1>1 DEF TaskRecord
  <2> HIDE DEF q, e
  <2>4. From(t, task[t], "forget") /\ task'[t].c = None /\ Others(t)
    BY <2>1, <2>2, <2>3, BecomeIs DEF From
  <2> QED
    BY <1>5, <2>1, <2>4 DEF CloseDoes
<1>12. CASE DoCloseForgets(t)
  BY <1>4, <1>5, <1>12 DEF DoCloseForgets, CloseDoes, CloseGoesOn, memory
<1>13. CASE DoCloseFinishes(t)
  <2>1. At(t, "finish") /\ task[t].pc \in DoClosePcs /\ Kept
    BY <1>13 DEF DoCloseFinishes, At, DoClosePcs, memory, Kept
  <2>2. \/ /\ task[t].kind # "force" /\ MarkError(s, "stop_failed") /\ DoCloseReturns(t)
        \/ Delete(s) /\ Goto(t, "deleted") /\ unrecovered' = unrecovered
    BY <1>13 DEF DoCloseFinishes
  <2> QED
    BY <1>1, <1>2, <1>3, <1>4, <2>1, <2>2, StateEdited, RowEdited DEF CloseDoes
<1>14. CASE DoCloseReleases(t)
  <2>1. /\ At(t, "deleted") /\ task[t].pc \in DoClosePcs /\ DoCloseReturns(t)
        /\ UNCHANGED <<row, tunnels, cancelled>> /\ Unpublished(s)
    BY <1>14 DEF DoCloseReleases, At, DoClosePcs
  <2> QED
    BY <1>3, <2>1 DEF CloseDoes
<1> QED
  BY <1>6, <1>7, <1>8, <1>9, <1>10, <1>11, <1>12, <1>13, <1>14 DEF DoCloseStep

-----------------------------------------------------------------------------
(***************************************************************************)
(* The start task.                                                         *)
(***************************************************************************)
\* It goes on with the connection it has, and touches nothing it shares.
StartGoesOn(s) == Others(s) /\ task'[s].c = task[s].c /\ UNCHANGED <<tunnels, registry>>

\* What is installed is dropped, whichever tunnel it is.
HasDropped(s) ==
  /\ Others(s) /\ task'[s].c = task[s].c /\ UNCHANGED row /\ Keep(s, NoTunnel)
  /\ IF "registry" \in task[s].ledger THEN Unpublished(s) ELSE UNCHANGED registry
  /\ cancelled' = (cancelled \ {s}) \cup WatcherOf(tunnels[s])
  /\ \E p \in {"watcher", "mark", "undo_remote", "undo_conn"} :
       From(s, task[s], p) /\ (p = "mark" => task[s].c = None)

\* A step of the body.
OpensOn(s) ==
  /\ StartGoesOn(s) /\ SameRows
  /\ \/ At(s, "install") /\ From(s, task[s], "start") /\ task'[s].ledger = task[s].ledger
     \/ At(s, "start") /\ From(s, task[s], "identity") /\ task'[s].ledger = {"remote"}
     \/ /\ At(s, "identity") /\ From(s, task[s], "forward")
        /\ task'[s].ledger = task[s].ledger \cup {"identity"}
     \/ At(s, "forward") /\ From(s, task[s], "tunnel") /\ task'[s].ledger = task[s].ledger

OpeningDoes(s) ==
  \/ /\ At(s, "connect") /\ From(s, task[s], "install") /\ Others(s)
     /\ Connects(task'[s].c) /\ task'[s].c \in Conn /\ Opened(task'[s].c)
     /\ task'[s].ledger = task[s].ledger /\ UNCHANGED <<row, tunnels, registry>>
  \/ OpensOn(s) /\ conn' = conn
  \/ /\ At(s, "tunnel") /\ From(s, task[s], "verify") /\ task'[s].c = task[s].c /\ Births(s)
     /\ task'[s].ledger = task[s].ledger \cup {"registry"} /\ UNCHANGED <<row, conn>>
     /\ Keep(s, LiveTunnel(task[s].c)) /\ Published(s, task[s].c)
  \/ /\ At(s, "verify") /\ From(s, task[s], "ready") /\ StartGoesOn(s) /\ conn' = conn
     /\ IF row[s].state = "starting" THEN RowTo(s, "ready") ELSE SameRows

\* The body ends: by an error, by a cancellation or with the session ready.
OpeningEnds(s) ==
  \/ /\ At(s, "connect") /\ s \notin cancelled /\ From(s, task[s], "unhandled")
     /\ StartGoesOn(s) /\ cancelled' = cancelled /\ task'[s].rec = row[s] /\ UNCHANGED row
  \/ /\ At(s, "ready") /\ task'[s] = IdleTask /\ Others(s) /\ s \notin cancelled
     /\ UNCHANGED <<row, tunnels, registry, cancelled>>
  \/ /\ task[s].pc \in OpeningPcs
     /\ At(s, "ready") => s \in cancelled
     /\ \/ /\ "ready" \in task[s].ledger /\ From(s, task[s], "ready_read") /\ StartGoesOn(s)
           /\ UNCHANGED row /\ cancelled' = cancelled \ {s}
        \/ "ready" \notin task[s].ledger /\ HasDropped(s)

CleanupDoes(s) ==
  \/ /\ At(s, "unhandled") /\ task'[s] = IdleTask /\ Others(s) /\ UNCHANGED <<tunnels, registry>>
     /\ SameRows \/ Marked(s)
     /\ cancelled' = cancelled \ {s}
  \/ /\ At(s, "ready_read") /\ task'[s] = IdleTask /\ Others(s) /\ s \notin cancelled
     /\ UNCHANGED <<row, tunnels, registry, cancelled>>
  \/ At(s, "ready_read") /\ HasDropped(s)
  \/ /\ task[s].pc \in {"ready_read", "listener", "undo_remote", "undo_conn", "mark"}
     /\ task'[s] = IdleTask /\ Others(s) /\ UNCHANGED <<row, tunnels, registry>>
     /\ s \in cancelled /\ cancelled' = cancelled \ {s}
  \/ /\ StartGoesOn(s) /\ SameRows
     /\ \/ /\ At(s, "watcher") /\ From(s, task[s], "listener") /\ cancelled' = cancelled \ {s}
        \/ /\ At(s, "listener") /\ cancelled' = cancelled
           /\ \E p \in {"mark", "undo_remote", "undo_conn"} :
                From(s, task[s], p) /\ (p = "mark" => task[s].c = None)
        \/ At(s, "undo_remote") /\ From(s, task[s], "undo_conn") /\ cancelled' = cancelled
  \/ /\ At(s, "undo_conn") /\ From(s, task[s], "mark") /\ Others(s) /\ task'[s].c = None
     /\ UNCHANGED <<row, registry, cancelled>>
     /\ \/ UNCHANGED tunnels /\ Closed(task[s].c)
        \/ "close" \in Faults /\ Keep(s, [task[s].old EXCEPT !.c = task[s].c, !.watched = FALSE])
  \/ /\ At(s, "mark") /\ task'[s] = IdleTask /\ Others(s)
     /\ SameRows \/ Marked(s)
     /\ UNCHANGED <<tunnels, registry, cancelled>>

\* How a step of the start task ends.
StartDoes(s) ==
  /\ unrecovered' = unrecovered
  /\ \/ OpeningDoes(s) /\ s \notin cancelled /\ cancelled' = cancelled
     \/ OpeningEnds(s) /\ conn' = conn
     \/ CleanupDoes(s)

LEMMA DropsIs ==
  ASSUME MoveInv, NEW s \in Sid, NEW exc, DropLocal(s, exc), UNCHANGED row
  PROVE  HasDropped(s)
<1> DEFINE x == tunnels[s]
           p == IF x.c = None THEN AfterTunnel(s) ELSE "watcher"
           q == [task[s] EXCEPT !.exc = exc, !.old = x, !.rec = row[s], !.pc = p]
<1>1. s \in Task /\ task[s] \in TaskRecord
  BY TaskFacts DEF Task
<1>2. /\ Become(s, q) /\ Keep(s, NoTunnel) /\ cancelled' = (cancelled \ {s}) \cup WatcherOf(x)
      /\ IF "registry" \in task[s].ledger THEN Unpublished(s) ELSE UNCHANGED registry
  BY DEF DropLocal
<1>3. p \in {"watcher", "mark", "undo_remote", "undo_conn"} /\ (p = "mark" => task[s].c = None)
  BY DEF AfterTunnel
<1> HIDE DEF p, x
<1>4. q.pc = p /\ q.sid = task[s].sid /\ q.kind = task[s].kind /\ q.alias = task[s].alias
      /\ q.c = task[s].c
  BY <1>1 DEF TaskRecord
<1> HIDE DEF q
<1>5. From(s, task[s], p) /\ task'[s].c = task[s].c /\ Others(s)
  BY <1>1, <1>2, <1>4, BecomeIs DEF From
<1> QED
  BY <1>2, <1>3, <1>5 DEF HasDropped, x

LEMMA OpeningEndsIs ==
  ASSUME MoveInv, NEW s \in Sid, StartCancelled(s) \/ StartFails(s) \/ StartDone(s)
  PROVE  OpeningEnds(s) /\ conn' = conn
<1>1. s \in Task /\ task[s] \in TaskRecord
  BY TaskFacts DEF Task
<1>2. ASSUME NEW exc, CleansUp(s, exc), task[s].pc \in OpeningPcs, UNCHANGED row,
             At(s, "ready") => s \in cancelled
      PROVE  OpeningEnds(s)
  <2> DEFINE q == [task[s] EXCEPT !.pc = "ready_read", !.exc = exc, !.rec = row[s]]
  <2>1. q.pc = "ready_read" /\ q.sid = task[s].sid /\ q.kind = task[s].kind
        /\ q.alias = task[s].alias /\ q.c = task[s].c
    BY <1>1 DEF TaskRecord
  <2>2. \/ /\ "ready" \in task[s].ledger /\ Become(s, q) /\ UNCHANGED <<tunnels, registry>>
           /\ cancelled' = cancelled \ {s}
        \/ "ready" \notin task[s].ledger /\ DropLocal(s, exc)
    BY <1>2 DEF CleansUp, Delivered
  <2> HIDE DEF q
  <2> QED
    BY <1>1, <1>2, <2>1, <2>2, BecomeIs, DropsIs DEF OpeningEnds, From, StartGoesOn
<1>3. CASE StartCancelled(s)
  BY <1>2, <1>3 DEF StartCancelled, OpeningPcs
<1>4. CASE StartFails(s)
  <2>1. /\ task[s].pc \in OpeningPcs /\ ~At(s, "ready") /\ UNCHANGED <<row, conn>>
        /\ \E exc : CleansUp(s, exc)
    BY <1>4 DEF StartFails, At, OpeningPcs
  <2> QED
    BY <1>2, <2>1
<1>5. CASE StartDone(s)
  BY <1>1, <1>5, EndIs DEF StartDone, Resumes, OpeningEnds, memory, world
<1> QED
  BY <1>3, <1>4, <1>5

LEMMA OpeningIs ==
  ASSUME MoveInv, NEW s \in Sid, task[s].sid = s,
         \/ StartConnects(s) \/ StartInstalls(s) \/ StartLaunches(s) \/ StartForwards(s)
         \/ StartForwarded(s) \/ StartPublishes(s) \/ StartVerifies(s)
  PROVE  /\ s \notin cancelled /\ cancelled' = cancelled
         /\ OpeningDoes(s) \/ (OpeningEnds(s) /\ conn' = conn)
<1>1. s \in Task /\ task[s] \in TaskRecord /\ task \in [Task -> TaskRecord] /\ StoreTypeOK
  BY TaskFacts DEF Task, MoveInv, TypeOK
<1>2. s \notin cancelled /\ cancelled' = cancelled
  BY DEF StartConnects, StartInstalls, StartLaunches, StartForwards, StartForwarded,
     StartPublishes, StartVerifies, Resumes
<1>3. ASSUME NEW p, Goto(s, p)
      PROVE  /\ From(s, task[s], p) /\ task'[s].c = task[s].c /\ Others(s)
             /\ task'[s].ledger = task[s].ledger
  BY <1>1, <1>3, GotoIs DEF Claims
<1>4. ASSUME NEW p, NEW l, Become(s, [task[s] EXCEPT !.pc = p, !.ledger = l])
      PROVE  /\ From(s, task[s], p) /\ task'[s].c = task[s].c /\ Others(s)
             /\ task'[s].ledger = l
  <2> DEFINE q == [task[s] EXCEPT !.pc = p, !.ledger = l]
  <2>1. q.pc = p /\ q.sid = task[s].sid /\ q.kind = task[s].kind
        /\ q.alias = task[s].alias /\ q.c = task[s].c /\ q.ledger = l
    BY <1>1 DEF TaskRecord
  <2>2. Become(s, q)
    BY <1>4
  <2> HIDE DEF q
  <2> QED
    BY <1>1, <2>1, <2>2, BecomeIs DEF From
<1>5. \/ SetRemoteIdentity(s) \/ SetTunnelIdentity(s) \/ UNCHANGED row => SameRows
  BY <1>1, ColumnsEdited
<1>6. CASE StartConnects(s)
  <2> DEFINE In(c) == [task[s] EXCEPT !.pc = "install", !.c = c]
             q == [task[s] EXCEPT !.pc = "unhandled", !.rec = row[s]]
  <2>1. /\ At(s, "connect") /\ UNCHANGED <<row, tunnels, registry>>
        /\ \/ Become(s, q) /\ UNCHANGED conn
           \/ \E c \in Conn : Connects(c) /\ Opened(c) /\ Become(s, In(c))
    BY <1>6 DEF StartConnects, memory, Resumes
  <2>2. ASSUME Become(s, q), UNCHANGED conn
        PROVE  OpeningEnds(s) /\ conn' = conn
    <3>1. /\ q.pc = "unhandled" /\ q.sid = task[s].sid /\ q.kind = task[s].kind
          /\ q.alias = task[s].alias /\ q.c = task[s].c /\ q.rec = row[s]
      BY <1>1 DEF TaskRecord
    <3> HIDE DEF q
    <3>2. From(s, task[s], "unhandled") /\ StartGoesOn(s) /\ task'[s].rec = row[s]
      BY <1>1, <2>1, <2>2, <3>1, BecomeIs DEF From, StartGoesOn
    <3> QED
      BY <1>2, <2>1, <2>2, <3>2 DEF OpeningEnds
  <2>3. ASSUME NEW c \in Conn, Connects(c), Opened(c), Become(s, In(c))
        PROVE  OpeningDoes(s)
    <3>1. /\ In(c).pc = "install" /\ In(c).sid = task[s].sid /\ In(c).kind = task[s].kind
          /\ In(c).alias = task[s].alias /\ In(c).c = c /\ In(c).ledger = task[s].ledger
      BY <1>1 DEF TaskRecord
    <3> HIDE DEF In
    <3>2. From(s, task[s], "install") /\ task'[s].c = c /\ Others(s)
          /\ task'[s].ledger = task[s].ledger
      BY <1>1, <2>3, <3>1, BecomeIs DEF From
    <3> QED
      BY <2>1, <2>3, <3>2 DEF OpeningDoes
  <2> QED
    BY <1>2, <2>1, <2>2, <2>3
<1>7. CASE StartInstalls(s) \/ StartForwarded(s)
  <2>1. /\ UNCHANGED <<tunnels, registry, conn>> /\ (SetTunnelIdentity(s) \/ UNCHANGED row)
        /\ \/ At(s, "install") /\ Goto(s, "start")
           \/ At(s, "forward") /\ Goto(s, "tunnel")
    BY <1>7 DEF StartInstalls, StartForwarded, Resumes, memory, world
  <2> QED
    BY <1>2, <1>3, <1>5, <2>1 DEF OpeningDoes, OpensOn, StartGoesOn
<1>8. CASE StartLaunches(s) \/ StartForwards(s)
  <2> DEFINE l == task[s].ledger \cup {"identity"}
  <2>1. /\ UNCHANGED <<tunnels, registry, conn>> /\ (SetRemoteIdentity(s) \/ UNCHANGED row)
        /\ \/ /\ At(s, "start")
              /\ Become(s, [task[s] EXCEPT !.pc = "identity", !.ledger = {"remote"}])
           \/ /\ At(s, "identity")
              /\ Become(s, [task[s] EXCEPT !.pc = "forward", !.ledger = l])
    BY <1>8 DEF StartLaunches, StartForwards, Resumes, memory, world
  <2> HIDE DEF l
  <2>2. /\ StartGoesOn(s)
        /\ \/ At(s, "start") /\ From(s, task[s], "identity") /\ task'[s].ledger = {"remote"}
           \/ At(s, "identity") /\ From(s, task[s], "forward") /\ task'[s].ledger = l
    BY <1>4, <2>1 DEF StartGoesOn
  <2> QED
    BY <1>2, <1>5, <2>1, <2>2 DEF OpeningDoes, OpensOn, l
<1>9. CASE StartVerifies(s)
  <2> DEFINE l == task[s].ledger \cup {"ready"}
  <2>1. /\ UNCHANGED <<tunnels, registry, conn>> /\ MarkReady(s) /\ At(s, "verify")
        /\ Become(s, [task[s] EXCEPT !.pc = "ready", !.ledger = l])
    BY <1>9 DEF StartVerifies, Resumes, memory, world
  <2> HIDE DEF l
  <2> QED
    BY <1>1, <1>2, <1>4, <2>1, StateEdited DEF OpeningDoes, StartGoesOn
<1>10. CASE StartPublishes(s)
  <2> DEFINE l == task[s].ledger \cup {"registry"}
             q == [task[s] EXCEPT !.pc = "verify", !.ledger = l]
             c == task[s].c
             w == Watcher(s)
  <2>1. /\ At(s, "tunnel") /\ UNCHANGED <<row, conn>> /\ Keep(s, LiveTunnel(c)) /\ Published(s, c)
        /\ task' = [[task EXCEPT ![s] = q] EXCEPT ![c] = w]
    BY <1>10 DEF StartPublishes, Resumes, world
  <2>2. q.pc = "verify" /\ q.sid = task[s].sid /\ q.kind = task[s].kind
        /\ q.alias = task[s].alias /\ q.c = c /\ q.ledger = l
    BY <1>1 DEF TaskRecord
  <2>3. Fresh(task[s])
    BY <2>1 DEF At, Fresh
  <2>4. c # s /\ c \in Conn /\ task[c].pc = "idle" /\ c \in Task
    BY <1>1, <2>1, <2>3 DEF MoveInv, FreshConnections, FreshOK, At, Task
  <2> HIDE DEF q, w, l
  <2>5. task'[s] = q /\ task'[c] = w /\ \A u \in Task \ {s, c} : task'[u] = task[u]
    BY <1>1, <2>1, <2>4
  <2>6. Births(s)
    BY <2>4, <2>5 DEF Births, w
  <2> QED
    BY <1>2, <2>1, <2>2, <2>5, <2>6 DEF OpeningDoes, From, l
<1> QED
  BY <1>6, <1>7, <1>8, <1>9, <1>10

LEMMA CleanupIs ==
  ASSUME MoveInv, NEW s \in Sid,
         \/ StartUnhandled(s) \/ CleanupCancelled(s) \/ CleanupDecides(s)
         \/ CleanupWatcherEnded(s) \/ CleanupListener(s) \/ CleanupRemote(s)
         \/ CleanupConn(s) \/ CleanupMarks(s)
  PROVE  CleanupDoes(s)
<1>1. s \in Task /\ task[s] \in TaskRecord /\ StoreTypeOK
  BY TaskFacts DEF Task, MoveInv, TypeOK
<1>2. ASSUME NEW p, Goto(s, p)
      PROVE  From(s, task[s], p) /\ task'[s].c = task[s].c /\ Others(s)
  BY <1>1, <1>2, GotoIs DEF Claims
<1>3. End(s) => task'[s] = IdleTask /\ Others(s)
  BY <1>1, EndIs
<1>4. \/ ClearRemoteIdentity(s) \/ ClearTunnelIdentity(s) \/ UNCHANGED row => SameRows
  BY <1>1, ColumnsEdited
<1>5. \A code : MarkError(s, code) => Marked(s)
  BY <1>1, StateEdited
<1>6. /\ AfterTunnel(s) \in {"mark", "undo_remote", "undo_conn"}
      /\ AfterTunnel(s) = "mark" => task[s].c = None
  BY DEF AfterTunnel
<1>7. CASE StartUnhandled(s)
  BY <1>3, <1>4, <1>5, <1>7 DEF StartUnhandled, CleanupDoes, memory, Delivered
<1>8. CASE CleanupCancelled(s)
  BY <1>3, <1>8 DEF CleanupCancelled, CleanupDoes, memory, Delivered
<1>9. CASE CleanupDecides(s)
  <2>1. /\ At(s, "ready_read") /\ s \notin cancelled /\ UNCHANGED row
        /\ \/ End(s) /\ UNCHANGED <<tunnels, registry, cancelled>>
           \/ \E exc : DropLocal(s, exc)
    BY <1>9 DEF CleanupDecides, Resumes
  <2> QED
    BY <1>3, <2>1, DropsIs DEF CleanupDoes
<1>10. CASE CleanupWatcherEnded(s)
  BY <1>2, <1>4, <1>10 DEF CleanupWatcherEnded, CleanupDoes, StartGoesOn, memory, Delivered
<1>11. CASE CleanupListener(s)
  BY <1>2, <1>4, <1>6, <1>11 DEF CleanupListener, CleanupDoes, StartGoesOn, memory, Resumes
<1>12. CASE CleanupRemote(s)
  BY <1>2, <1>4, <1>12 DEF CleanupRemote, CleanupDoes, StartGoesOn, memory, Resumes
<1>13. CASE CleanupConn(s)
  <2> DEFINE q == [task[s] EXCEPT !.pc = "mark", !.c = None, !.old = NoTunnel, !.rec = row[s]]
             x == [task[s].old EXCEPT !.c = task[s].c, !.watched = FALSE]
  <2>1. /\ At(s, "undo_conn") /\ UNCHANGED <<row, registry, cancelled>>
        /\ (UNCHANGED tunnels /\ Closed(task[s].c)) \/ ("close" \in Faults /\ Keep(s, x))
        /\ Become(s, q)
    BY <1>13 DEF CleanupConn, Resumes, Fault
  <2>2. q.pc = "mark" /\ q.sid = task[s].sid /\ q.kind = task[s].kind
        /\ q.alias = task[s].alias /\ q.c = None
    BY <1>1 DEF TaskRecord
  <2> HIDE DEF q
  <2>3. From(s, task[s], "mark") /\ Others(s) /\ task'[s].c = None
    BY <1>1, <2>1, <2>2, BecomeIs DEF From
  <2> HIDE DEF x
  <2> QED
    BY <2>1, <2>3 DEF CleanupDoes, x
<1>14. CASE CleanupMarks(s)
  BY <1>3, <1>4, <1>5, <1>14 DEF CleanupMarks, CleanupDoes, Resumes, memory
<1> QED
  BY <1>7, <1>8, <1>9, <1>10, <1>11, <1>12, <1>13, <1>14

LEMMA StartIs ==
  ASSUME MoveInv, NEW s \in Sid, task[s].sid = s, StartStep(s)
  PROVE  StartDoes(s)
<1>1. unrecovered' = unrecovered
  BY StartShrinks
<1>2. CASE StartCancelled(s) \/ StartFails(s) \/ StartDone(s)
  BY <1>1, <1>2, OpeningEndsIs DEF StartDoes
<1>3. CASE \/ StartConnects(s) \/ StartInstalls(s) \/ StartLaunches(s) \/ StartForwards(s)
           \/ StartForwarded(s) \/ StartPublishes(s) \/ StartVerifies(s)
  BY <1>1, <1>3, OpeningIs DEF StartDoes
<1>4. CASE \/ StartUnhandled(s) \/ CleanupCancelled(s) \/ CleanupDecides(s)
           \/ CleanupWatcherEnded(s) \/ CleanupListener(s) \/ CleanupRemote(s)
           \/ CleanupConn(s) \/ CleanupMarks(s)
  BY <1>1, <1>4, CleanupIs DEF StartDoes
<1> QED
  BY <1>2, <1>3, <1>4 DEF StartStep

-----------------------------------------------------------------------------
(***************************************************************************)
(* Watchers.                                                               *)
(***************************************************************************)
\* A cancelled watcher ends.
WatcherDies(c) ==
  /\ c \in cancelled /\ cancelled' = cancelled \ {c} /\ task'[c] = IdleTask
  /\ task[c].pc \notin ReattachPcs /\ UNCHANGED <<row, tunnels, registry>>

\* It goes on, with the session it watches.
WatcherGoesOn(c) ==
  /\ c \notin cancelled /\ UNCHANGED <<row, tunnels, registry, cancelled>>
  /\ task'[c].sid = task[c].sid /\ task'[c].kind = task[c].kind /\ task'[c].c = task[c].c
  /\ \/ /\ At(c, "watching") /\ task'[c].pc = "initial" /\ task'[c].rec = row[task[c].sid]
        /\ ~conn[c]
     \/ /\ At(c, "initial") /\ task'[c].pc = "exit" /\ task[c].rec.state # "closed"
        /\ task'[c].alias = task[c].rec.alias
     \/ /\ \/ At(c, "exit") /\ task'[c].pc = "exit_checks"
           \/ At(c, "attempt") /\ task'[c].pc = "attempt_checks"
           \/ At(c, "lost") /\ task'[c].pc = "lost_checks"
        /\ task'[c].rec = row[task[c].sid] /\ task'[c].alias = task[c].alias

\* It leaves the session alone, or marks it lost.
WatcherLeaves(c) ==
  /\ c \notin cancelled /\ task'[c] = IdleTask /\ UNCHANGED <<tunnels, registry, cancelled>>
  /\ \/ At(c, "initial") /\ task[c].rec.state = "closed" /\ UNCHANGED row
     \/ /\ At(c, "exit_checks") /\ UNCHANGED row
        /\ GoneOrStopping(task[c].rec) \/ tunnels[task[c].sid].c # c
     \/ At(c, "lost_checks") /\ GoneOrStopping(task[c].rec) /\ UNCHANGED row
     \/ At(c, "lost_checks") /\ ~GoneOrStopping(task[c].rec) /\ Marked(task[c].sid)

\* It takes the dead forward down, and sets out to reattach.
WatcherMends(c) ==
  LET s == task[c].sid IN
  /\ cancelled' = cancelled
  /\ \/ /\ At(c, "exit_checks") /\ From(c, task[c], "close_lost") /\ c \notin cancelled
        /\ ~GoneOrStopping(task[c].rec) /\ tunnels[s].c = c /\ UNCHANGED row
        /\ task'[c].c = c /\ task'[c].old = tunnels[s] /\ Unpublished(s) /\ Keep(s, NoTunnel)
     \/ /\ At(c, "close_lost") /\ From(c, task[c], "attempt") /\ task'[c].c = None
        /\ UNCHANGED <<row, registry>>
        /\ UNCHANGED tunnels \/ ("close" \in Faults /\ Keep(s, task[c].old))
     \/ /\ At(c, "attempt_checks") /\ c \notin cancelled /\ UNCHANGED <<tunnels, registry>>
        /\ \/ UNCHANGED row /\ HasRaised(c, task[c]) /\ GoneOrStopping(task[c].rec)
           \/ SameRows /\ HasBegun(c, task[c]) /\ ~GoneOrStopping(task[c].rec)

\* How a step of a watcher ends.
WatchDoes(c) ==
  /\ unrecovered' = unrecovered /\ Others(c)
  /\ WatcherDies(c) \/ WatcherGoesOn(c) \/ WatcherLeaves(c) \/ WatcherMends(c)

LEMMA WatchIs ==
  ASSUME MoveInv, "late" \notin Faults, NEW c \in Conn, WatchStep(c)
  PROVE  WatchDoes(c)
<1> DEFINE s == task[c].sid
<1>1. task[c].pc # "idle"
  BY DEF WatchStep, WatcherWakes, WatcherQueues, WatcherReads, WatcherExits, WatcherDrops,
     WatcherAttempts, WatcherLate, WatcherMarksLoss, WatcherCancelled, Resumes, At
<1>2. /\ c \in Task /\ task[c] \in TaskRecord /\ task[c].kind = "watch" /\ s \in Sid
      /\ StoreTypeOK /\ (Busy(task[c]) => task[c].alias \in Alias)
  BY <1>1, WatchFacts DEF MoveInv, TypeOK
<1>3. unrecovered' = unrecovered
  BY WatcherKeepsList DEF WatcherStep
<1>4. End(c) => task'[c] = IdleTask /\ Others(c)
  BY <1>2, EndIs
<1>5. UNCHANGED row \/ BeginRecovery(s) => SameRows
  BY <1>2, ColumnsEdited
<1>6. CASE WatcherWakes(c)
  <2> DEFINE x == row[s]
             q == [task[c] EXCEPT !.pc = "initial", !.rec = x]
  <2>1. /\ At(c, "watching") /\ c \notin cancelled /\ ~conn[c] /\ Become(c, q)
        /\ UNCHANGED <<row, tunnels, registry, cancelled>>
    BY <1>6 DEF WatcherWakes, Resumes, memory
  <2> HIDE DEF x
  <2>2. q.pc = "initial" /\ q.sid = task[c].sid /\ q.kind = task[c].kind /\ q.c = task[c].c
        /\ q.rec = x
    BY <1>2 DEF TaskRecord
  <2> HIDE DEF q
  <2>3. task'[c] = q /\ Others(c)
    BY <1>2, <2>1, BecomeIs
  <2>4. WatcherGoesOn(c)
    BY <2>1, <2>2, <2>3 DEF WatcherGoesOn, x
  <2> QED
    BY <1>3, <2>3, <2>4 DEF WatchDoes
<1>7. CASE WatcherQueues(c)
  <2> DEFINE a == task[c].rec.alias
             q == [task[c] EXCEPT !.pc = "exit", !.alias = a, !.rec = NoRow]
  <2>1. /\ At(c, "initial") /\ c \notin cancelled /\ UNCHANGED <<row, tunnels, registry, cancelled>>
        /\ \/ task[c].rec.state = "closed" /\ End(c)
           \/ task[c].rec.state # "closed" /\ Become(c, q)
    BY <1>7 DEF WatcherQueues, Resumes, memory
  <2> HIDE DEF a
  <2>2. q.pc = "exit" /\ q.sid = task[c].sid /\ q.kind = task[c].kind /\ q.c = task[c].c
        /\ q.alias = a
    BY <1>2 DEF TaskRecord
  <2> HIDE DEF q
  <2>3. CASE End(c) /\ task[c].rec.state = "closed"
    BY <1>3, <1>4, <2>1, <2>3 DEF WatchDoes, WatcherLeaves
  <2>4. CASE Become(c, q) /\ task[c].rec.state # "closed"
    <3>1. task'[c] = q /\ Others(c)
      BY <1>2, <2>4, BecomeIs
    <3>2. WatcherGoesOn(c)
      BY <2>1, <2>2, <2>4, <3>1 DEF WatcherGoesOn, a
    <3> QED
      BY <1>3, <3>1, <3>2 DEF WatchDoes
  <2> QED
    BY <2>1, <2>3, <2>4
<1>8. CASE WatcherReads(c)
  <2> DEFINE x == row[s]
             Q(p) == [task[c] EXCEPT !.pc = p, !.rec = x]
  <2>1. /\ c \notin cancelled /\ UNCHANGED <<row, tunnels, registry, cancelled>>
        /\ \/ At(c, "exit") /\ Become(c, Q("exit_checks"))
           \/ At(c, "attempt") /\ Become(c, Q("attempt_checks"))
           \/ At(c, "lost") /\ Become(c, Q("lost_checks"))
    <3>1. PICK from \in {<<"exit", "exit_checks">>, <<"attempt", "attempt_checks">>,
                         <<"lost", "lost_checks">>} :
            Resumes(c, from[1]) /\ Become(c, Q(from[2]))
      BY <1>8 DEF WatcherReads
    <3>2. \/ from[1] = "exit" /\ from[2] = "exit_checks"
          \/ from[1] = "attempt" /\ from[2] = "attempt_checks"
          \/ from[1] = "lost" /\ from[2] = "lost_checks"
      BY <3>1
    <3>3. c \notin cancelled /\ UNCHANGED <<row, tunnels, registry, cancelled>>
      BY <1>8 DEF WatcherReads, Resumes, memory
    <3> HIDE DEF Q
    <3> QED
      BY <3>1, <3>2, <3>3 DEF Resumes
  <2> HIDE DEF x
  <2>2. ASSUME NEW p
        PROVE  /\ Q(p).pc = p /\ Q(p).sid = task[c].sid /\ Q(p).kind = task[c].kind
               /\ Q(p).c = task[c].c /\ Q(p).rec = x /\ Q(p).alias = task[c].alias
    BY <1>2 DEF TaskRecord
  <2> HIDE DEF Q
  <2>3. ASSUME NEW p, Become(c, Q(p)) PROVE task'[c] = Q(p) /\ Others(c)
    BY <1>2, <2>3, BecomeIs
  <2>4. WatcherGoesOn(c) /\ Others(c)
    BY <2>1, <2>2, <2>3 DEF WatcherGoesOn, x
  <2> QED
    BY <1>3, <2>4 DEF WatchDoes
<1>9. CASE WatcherExits(c)
  <2> DEFINE x == tunnels[s]
             q == [task[c] EXCEPT !.pc = "close_lost", !.c = c, !.old = x]
  <2>1. /\ At(c, "exit_checks") /\ c \notin cancelled /\ UNCHANGED <<row, cancelled>>
        /\ \/ /\ GoneOrStopping(task[c].rec) \/ tunnels[s].c # c
              /\ End(c) /\ UNCHANGED <<tunnels, registry>>
           \/ /\ ~GoneOrStopping(task[c].rec) /\ tunnels[s].c = c
              /\ Unpublished(s) /\ Keep(s, NoTunnel) /\ Become(c, q)
    BY <1>9 DEF WatcherExits, Resumes
  <2> HIDE DEF x
  <2>2. q.pc = "close_lost" /\ q.sid = task[c].sid /\ q.kind = task[c].kind
        /\ q.alias = task[c].alias /\ q.c = c /\ q.old = x
    BY <1>2 DEF TaskRecord
  <2> HIDE DEF q
  <2>3. CASE /\ GoneOrStopping(task[c].rec) \/ tunnels[s].c # c
             /\ End(c) /\ UNCHANGED <<tunnels, registry>>
    <3>1. WatcherLeaves(c) /\ Others(c)
      BY <1>4, <2>1, <2>3 DEF WatcherLeaves
    <3> QED
      BY <1>3, <3>1 DEF WatchDoes
  <2>4. CASE /\ ~GoneOrStopping(task[c].rec) /\ tunnels[s].c = c
             /\ Unpublished(s) /\ Keep(s, NoTunnel) /\ Become(c, q)
    <3>1. task'[c] = q /\ Others(c)
      BY <1>2, <2>4, BecomeIs
    <3>2. From(c, task[c], "close_lost")
      BY <2>2, <3>1 DEF From
    <3>3. WatcherMends(c)
      BY <2>1, <2>2, <2>4, <3>1, <3>2 DEF WatcherMends, x
    <3> QED
      BY <1>3, <3>1, <3>3 DEF WatchDoes
  <2> QED
    BY <2>1, <2>3, <2>4
<1>10. CASE WatcherDrops(c)
  <2> DEFINE q == [task[c] EXCEPT !.pc = "attempt", !.c = None, !.old = NoTunnel, !.tries = 1]
  <2>1. /\ At(c, "close_lost") /\ UNCHANGED <<row, registry, cancelled>> /\ Become(c, q)
        /\ UNCHANGED tunnels \/ ("close" \in Faults /\ Keep(s, task[c].old))
    BY <1>10 DEF WatcherDrops, Fault
  <2>2. q.pc = "attempt" /\ q.sid = task[c].sid /\ q.kind = task[c].kind
        /\ q.alias = task[c].alias /\ q.c = None
    BY <1>2 DEF TaskRecord
  <2> HIDE DEF q
  <2>3. task'[c] = q /\ Others(c)
    BY <1>2, <2>1, BecomeIs
  <2>4. From(c, task[c], "attempt") /\ task'[c].c = None
    BY <2>2, <2>3 DEF From
  <2>5. WatcherMends(c)
    BY <2>1, <2>4 DEF WatcherMends
  <2> QED
    BY <1>3, <2>3, <2>5 DEF WatchDoes
<1>11. CASE WatcherAttempts(c)
  <2>1. /\ At(c, "attempt_checks") /\ c \notin cancelled /\ UNCHANGED <<tunnels, registry, cancelled>>
        /\ \/ GoneOrStopping(task[c].rec) /\ UNCHANGED row /\ Raises(c, task[c], "unavailable")
           \/ ~GoneOrStopping(task[c].rec) /\ Reattaches(c, task[c])
    BY <1>11 DEF WatcherAttempts, Resumes, memory
  <2>2. Reattacher(c, task[c])
    BY <1>2, <2>1 DEF Reattacher, KindOK, At, Busy, Holding
  <2>3. Raises(c, task[c], "unavailable") => HasRaised(c, task[c])
    BY <1>2, <2>2, RaisesIs
  <2>4. Reattaches(c, task[c]) => SameRows /\ HasBegun(c, task[c])
    BY <1>2, <1>5, <2>2, ReattachesIs DEF Reattaches
  <2>5. HasRaised(c, task[c]) \/ HasBegun(c, task[c]) => Others(c)
    BY DEF HasBegun, HasRaised
  <2>6. WatcherMends(c) /\ Others(c)
    BY <2>1, <2>3, <2>4, <2>5 DEF WatcherMends
  <2> QED
    BY <1>3, <2>6 DEF WatchDoes
<1>12. CASE WatcherLate(c)
  BY <1>12 DEF WatcherLate, Fault
<1>13. CASE WatcherMarksLoss(c)
  <2>1. /\ At(c, "lost_checks") /\ c \notin cancelled /\ UNCHANGED <<tunnels, registry, cancelled>>
        /\ End(c)
        /\ \/ GoneOrStopping(task[c].rec) /\ UNCHANGED row
           \/ ~GoneOrStopping(task[c].rec) /\ MarkError(s, "tunnel_lost")
    BY <1>13 DEF WatcherMarksLoss, Resumes, memory
  <2> QED
    BY <1>2, <1>3, <1>4, <2>1, StateEdited DEF WatchDoes, WatcherLeaves
<1>14. CASE WatcherCancelled(c)
  <2>1. c \in cancelled /\ cancelled' = cancelled \ {c} /\ UNCHANGED <<row, tunnels, registry>>
        /\ End(c) /\ task[c].pc \notin ReattachPcs
    BY <1>14 DEF WatcherCancelled, Delivered, memory, ReattachPcs
  <2> QED
    BY <1>3, <1>4, <2>1 DEF WatchDoes, WatcherDies
<1> QED
  BY <1>6, <1>7, <1>8, <1>9, <1>10, <1>11, <1>12, <1>13, <1>14 DEF WatchStep

-----------------------------------------------------------------------------
(***************************************************************************)
(* Startup recovery.                                                       *)
(***************************************************************************)
\* It turns to a row.
RecoveryTurns ==
  LET s == task'[Boot].sid IN
  /\ At(Boot, "next_row") /\ s \in unrecovered /\ task'[Boot].rec = row[s]
  /\ task'[Boot].alias = row[s].alias /\ task'[Boot].kind = task[Boot].kind
  /\ task'[Boot].c = None \/ task'[Boot].c = task[Boot].c
  /\ task'[Boot].pc \in {"fresh", "check_closing", "reattach"}
  /\ task'[Boot].pc = "fresh" => row[s].state = "stopping"
  /\ task'[Boot].pc = "check_closing" => row[s].state = "error"
  /\ UNCHANGED <<row, tunnels, registry, unrecovered>>

\* It is done with it.
RecoveryLeaves ==
  LET s == task[Boot].sid IN
  /\ task'[Boot] = NextRowTask /\ unrecovered' = unrecovered \ {s} /\ registry' = registry
  /\ \/ At(Boot, "check_closing") /\ UNCHANGED <<row, tunnels>>
     \/ /\ At(Boot, "check_done") /\ UNCHANGED row
        /\ \/ UNCHANGED tunnels /\ Closed(task[Boot].c)
           \/ "close" \in Faults /\ Keep(s, [NoTunnel EXCEPT !.c = task[Boot].c])
     \/ At(Boot, "dropped") /\ UNCHANGED <<row, tunnels>>
     \/ At(Boot, "mark_lost") /\ Marked(s) /\ tunnels' = tunnels

\* It is at work on it.
RecoveryWorks ==
  LET s == task[Boot].sid IN
  /\ UNCHANGED <<tunnels, registry, unrecovered>>
  /\ \/ /\ At(Boot, "check_closing") /\ From(Boot, task[Boot], "check_remote")
        /\ Connects(task'[Boot].c) /\ task'[Boot].c \in Conn /\ UNCHANGED row
        /\ task'[Boot].rec = task[Boot].rec
     \/ /\ At(Boot, "check_remote") /\ From(Boot, task[Boot], "check_done") /\ UNCHANGED row
        /\ task'[Boot].c = task[Boot].c /\ task'[Boot].rec = task[Boot].rec
     \/ /\ At(Boot, "check_done") /\ From(Boot, task[Boot], "drop") /\ task'[Boot].c = None
        /\ UNCHANGED row /\ Closed(task[Boot].c)
     \/ /\ At(Boot, "drop") /\ From(Boot, task[Boot], "dropped") /\ task'[Boot].c = task[Boot].c
        /\ row'[s] = NoRow /\ OtherRows(s)
     \/ /\ At(Boot, "clear_lost") /\ From(Boot, task[Boot], "mark_lost") /\ SameRows
        /\ task'[Boot].c = task[Boot].c

\* How a step of it ends.
RecoveryDoes ==
  /\ Others(Boot) /\ cancelled' = cancelled
  /\ \/ RecoveryTurns \/ RecoveryWorks \/ RecoveryLeaves
     \/ /\ At(Boot, "reattach") /\ HasBegun(Boot, task[Boot]) /\ SameRows
        /\ UNCHANGED <<tunnels, registry>>
     \/ /\ At(Boot, "next_row") /\ unrecovered = {} /\ task'[Boot] = IdleTask
        /\ UNCHANGED <<row, tunnels, registry, unrecovered>>

LEMMA RecoveryTurnsIs ==
  ASSUME MoveInv, RecoverRow(Boot)
  PROVE  RecoveryTurns /\ Others(Boot)
<1>1. Boot \in Task /\ task[Boot] \in TaskRecord
  BY TaskFacts DEF Task
<1> DEFINE s == CHOOSE u \in unrecovered : TRUE
           a == row[s].alias
           x == row[s]
           mine == [task[Boot] EXCEPT !.sid = s, !.alias = a, !.rec = x]
           On(p) == [mine EXCEPT !.pc = p]
<1>2. /\ At(Boot, "next_row") /\ s \in unrecovered
      /\ UNCHANGED <<row, tunnels, registry, unrecovered>>
  BY DEF RecoverRow, memory
<1>3. \/ x.state = "stopping" /\ DoesClose(Boot, mine)
      \/ x.state = "error" /\ Become(Boot, On("check_closing"))
      \/ Become(Boot, On("reattach"))
  BY DEF RecoverRow
<1> HIDE DEF s
<1>4. s \in Sid /\ x \in Row /\ a \in Alias \cup {None}
  <2>1. s \in Sid
    BY <1>2 DEF MoveInv, TypeOK
  <2>2. x \in Row
    BY <2>1 DEF MoveInv, TypeOK, StoreTypeOK
  <2> QED
    BY <2>1, <2>2 DEF Row, LiveRow, NoRow
<1> HIDE DEF x, a
<1>5. /\ mine \in TaskRecord /\ mine.sid = s /\ mine.alias = a /\ mine.rec = x
      /\ mine.kind = task[Boot].kind /\ mine.c = task[Boot].c
  BY <1>1, <1>4 DEF TaskRecord
<1> HIDE DEF mine
<1>6. ASSUME NEW p
      PROVE  /\ On(p).pc = p /\ On(p).sid = s /\ On(p).alias = a /\ On(p).rec = x
             /\ On(p).kind = task[Boot].kind /\ On(p).c = task[Boot].c
  BY <1>5 DEF TaskRecord
<1> HIDE DEF On
<1>7. CASE x.state = "stopping" /\ DoesClose(Boot, mine)
  <2>1. /\ From(Boot, mine, "fresh") /\ task'[Boot].c = None /\ Others(Boot)
        /\ task'[Boot].rec = Read(mine.sid)
    BY <1>1, <1>5, <1>7, DoesCloseIs
  <2>2. Read(s) = x
    BY <1>4, NoneAssumption DEF Read, x
  <2> QED
    BY <1>2, <1>5, <1>7, <2>1, <2>2 DEF RecoveryTurns, From, x, a
<1>8. ASSUME NEW p \in {"check_closing", "reattach"}, Become(Boot, On(p)),
             p = "check_closing" => x.state = "error"
      PROVE  RecoveryTurns /\ Others(Boot)
  <2>1. task'[Boot] = On(p) /\ Others(Boot)
    BY <1>1, <1>8, BecomeIs
  <2> QED
    BY <1>2, <1>6, <1>8, <2>1 DEF RecoveryTurns, x, a
<1> QED
  BY <1>3, <1>7, <1>8

LEMMA RecoveryIs ==
  ASSUME MoveInv, RecoveryStep(Boot)
  PROVE  RecoveryDoes
<1>1. Boot \in Task /\ task[Boot] \in TaskRecord /\ StoreTypeOK
  BY TaskFacts DEF Task, MoveInv, TypeOK
<1> DEFINE s == task[Boot].sid
<1>2. ASSUME NEW p, Goto(Boot, p)
      PROVE  From(Boot, task[Boot], p) /\ task'[Boot].c = task[Boot].c /\ Others(Boot)
  BY <1>1, <1>2, GotoIs DEF Claims
<1>3. ASSUME task[Boot].pc \notin {"idle", "enter", "looked_up", "next_row"}
      PROVE  s \in Sid
  BY <1>1, <1>3, TaskFacts
<1>4. NextRow(task[Boot]) => /\ task'[Boot] = NextRowTask /\ Others(Boot)
                             /\ unrecovered' = unrecovered \ {s}
  BY NextRowIs
<1>5. CASE RecoverRow(Boot)
  <2>1. cancelled' = cancelled
    BY <1>5 DEF RecoverRow
  <2> QED
    BY <1>5, <2>1, RecoveryTurnsIs DEF RecoveryDoes
<1>6. CASE RecoveryEnds(Boot)
  BY <1>1, <1>6, EndIs DEF RecoveryEnds, RecoveryDoes, memory
<1>7. CASE RecoveryReattaches(Boot)
  <2>1. /\ At(Boot, "reattach") /\ Reattaches(Boot, task[Boot])
        /\ UNCHANGED <<tunnels, registry, cancelled>>
    BY <1>7 DEF RecoveryReattaches, memory
  <2>2. Reattacher(Boot, task[Boot]) /\ s \in Sid
    <3>1. KindOK(Boot, task[Boot].kind) /\ Suspended(task[Boot]) /\ s \in Sid
      BY <1>1, <1>3, <2>1, TaskFacts DEF At
    <3>2. task[Boot].kind = "boot"
      BY <2>1, <3>1 DEF At, Suspended, ClosePcs, RetryPcs, StartPcs, WatchPcs, DoClosePcs, ReattachPcs
    <3>3. task[Boot].alias \in Alias
      BY <1>1, <2>1, TaskFacts DEF Busy, Holding, At
    <3> QED
      BY <1>1, <3>1, <3>2, <3>3 DEF Reattacher
  <2>3. HasBegun(Boot, task[Boot])
    BY <1>1, <2>1, <2>2, ReattachesIs
  <2>4. SameRows
    BY <1>1, <2>1, <2>2, ColumnsEdited DEF Reattaches
  <2>5. Others(Boot)
    BY <2>3 DEF HasBegun, HasRaised
  <2> QED
    BY <2>1, <2>3, <2>4, <2>5 DEF RecoveryDoes
<1>8. CASE RecoveryDials(Boot)
  <2> DEFINE In(c) == [task[Boot] EXCEPT !.pc = "check_remote", !.c = c]
  <2>1. /\ At(Boot, "check_closing") /\ UNCHANGED <<row, tunnels, registry, cancelled>>
        /\ \/ unrecovered' = unrecovered /\ \E c \in Conn : Connects(c) /\ Become(Boot, In(c))
           \/ NextRow(task[Boot])
    BY <1>8 DEF RecoveryDials, memory
  <2>2. ASSUME NEW c
        PROVE  /\ In(c).pc = "check_remote" /\ In(c).sid = s /\ In(c).kind = task[Boot].kind
               /\ In(c).alias = task[Boot].alias /\ In(c).c = c /\ In(c).rec = task[Boot].rec
    BY <1>1 DEF TaskRecord
  <2> HIDE DEF In
  <2>3. ASSUME NEW c \in Conn, Connects(c), Become(Boot, In(c)), unrecovered' = unrecovered
        PROVE  RecoveryDoes
    <3>1. task'[Boot] = In(c) /\ Others(Boot)
      BY <1>1, <2>3, BecomeIs
    <3>2. From(Boot, task[Boot], "check_remote") /\ task'[Boot].c = c
          /\ task'[Boot].rec = task[Boot].rec
      BY <2>2, <3>1 DEF From
    <3>3. RecoveryWorks
      BY <2>1, <2>3, <3>2 DEF RecoveryWorks
    <3> QED
      BY <2>1, <3>1, <3>3 DEF RecoveryDoes
  <2> QED
    BY <1>4, <2>1, <2>3 DEF RecoveryDoes, RecoveryLeaves
<1>9. CASE RecoveryInspects(Boot)
  <2> DEFINE In(a) == [task[Boot] EXCEPT !.pc = "check_done", !.absent = a]
  <2>1. /\ At(Boot, "check_remote")
        /\ UNCHANGED <<row, tunnels, registry, cancelled, unrecovered>>
        /\ \E a : Become(Boot, In(a))
    BY <1>9 DEF RecoveryInspects, memory
  <2>2. ASSUME NEW a
        PROVE  /\ In(a).pc = "check_done" /\ In(a).sid = s /\ In(a).kind = task[Boot].kind
               /\ In(a).alias = task[Boot].alias /\ In(a).c = task[Boot].c
               /\ In(a).rec = task[Boot].rec
    BY <1>1 DEF TaskRecord
  <2> HIDE DEF In
  <2>3. /\ From(Boot, task[Boot], "check_done") /\ task'[Boot].c = task[Boot].c /\ Others(Boot)
        /\ task'[Boot].rec = task[Boot].rec
    BY <1>1, <2>1, <2>2, BecomeIs DEF From
  <2> QED
    BY <2>1, <2>3 DEF RecoveryDoes, RecoveryWorks
<1>10. CASE RecoveryChecked(Boot)
  <2> DEFINE q == [task[Boot] EXCEPT !.pc = "drop", !.c = None]
  <2>1. /\ At(Boot, "check_done") /\ UNCHANGED <<row, registry, cancelled>>
        /\ \/ Become(Boot, q) /\ UNCHANGED <<tunnels, unrecovered>> /\ Closed(task[Boot].c)
           \/ /\ NextRow(task[Boot])
              /\ \/ UNCHANGED tunnels /\ Closed(task[Boot].c)
                 \/ "close" \in Faults /\ Keep(s, [NoTunnel EXCEPT !.c = task[Boot].c])
    BY <1>10 DEF RecoveryChecked, Fault
  <2>2. q.pc = "drop" /\ q.sid = s /\ q.kind = task[Boot].kind
        /\ q.alias = task[Boot].alias /\ q.c = None
    BY <1>1 DEF TaskRecord
  <2> HIDE DEF q
  <2>3. Become(Boot, q) =>
          From(Boot, task[Boot], "drop") /\ task'[Boot].c = None /\ Others(Boot)
    BY <1>1, <2>2, BecomeIs DEF From
  <2> QED
    BY <1>4, <2>1, <2>3 DEF RecoveryDoes, RecoveryWorks, RecoveryLeaves
<1>11. CASE RecoveryDrops(Boot)
  <2>1. /\ At(Boot, "drop") /\ Delete(s) /\ Goto(Boot, "dropped")
        /\ UNCHANGED <<tunnels, registry, cancelled, unrecovered>>
    BY <1>11 DEF RecoveryDrops, memory
  <2>2. row'[s] = NoRow /\ OtherRows(s)
    BY <1>1, <1>3, <2>1, RowEdited DEF At
  <2> QED
    BY <1>2, <2>1, <2>2 DEF RecoveryDoes, RecoveryWorks
<1>12. CASE RecoveryReleases(Boot)
  BY <1>4, <1>12 DEF RecoveryReleases, RecoveryDoes, RecoveryLeaves
<1>13. CASE RecoveryClearsLost(Boot)
  <2>1. /\ At(Boot, "clear_lost") /\ ClearRemoteIdentity(s) /\ Goto(Boot, "mark_lost")
        /\ UNCHANGED <<tunnels, registry, cancelled, unrecovered>>
    BY <1>13 DEF RecoveryClearsLost, memory
  <2>2. SameRows
    BY <1>1, <1>3, <2>1, ColumnsEdited DEF At
  <2> QED
    BY <1>2, <2>1, <2>2 DEF RecoveryDoes, RecoveryWorks
<1>14. CASE RecoveryMarks(Boot)
  <2>1. /\ At(Boot, "mark_lost") /\ MarkError(s, "recovery_failed") /\ NextRow(task[Boot])
        /\ UNCHANGED <<tunnels, registry, cancelled>>
    BY <1>14 DEF RecoveryMarks, memory
  <2>2. Marked(s)
    BY <1>1, <1>3, <2>1, StateEdited DEF At
  <2> QED
    BY <1>4, <2>1, <2>2 DEF RecoveryDoes, RecoveryLeaves
<1> QED
  BY <1>5, <1>6, <1>7, <1>8, <1>9, <1>10, <1>11, <1>12, <1>13, <1>14 DEF RecoveryStep
-----------------------------------------------------------------------------
(***************************************************************************)
(* Requests.                                                               *)
(***************************************************************************)
\* Nothing but o's record changes.
Alone(o) ==
  /\ Others(o) /\ UNCHANGED <<row, tunnels, registry, cancelled, unrecovered>>

\* A request arrives, or a retry opens the alias again.
Arrives(o) ==
  /\ Alone(o) /\ task[o].pc \in {"idle", "closed"}
  /\ task'[o].pc = "enter" /\ task'[o].sid = None /\ task'[o].c = None

\* It has the lock and looks for the row.
LooksUp(o) ==
  /\ Alone(o) /\ At(o, "enter") /\ task'[o].pc = "looked_up"
  /\ task'[o].kind = task[o].kind /\ task'[o].alias = task[o].alias
  /\ task'[o].c = task[o].c
  /\ task'[o].sid = Lookup(task[o].alias) /\ task'[o].rec = Read(task'[o].sid)

\* It is answered.
Answers(o) == Alone(o) /\ task[o].pc \in {"looked_up", "closed"} /\ task'[o] = IdleTask

\* open() inserts a row, and takes a slot for it or removes it again.
InsertsRow(o) ==
  LET s == task'[o].sid IN
  /\ At(o, "looked_up") /\ task'[o].pc = "inserted" /\ s \in FreeSid
  /\ task'[o].kind = task[o].kind /\ task'[o].alias = task[o].alias
  /\ task'[o].c = task[o].c
  /\ row'[s].state = "starting" /\ row'[s].alias = task[o].alias /\ ~row'[s].close_reason
  /\ OtherRows(s) /\ ~Exists(s) /\ RowsOf(task[o].alias) = {}
  /\ Others(o) /\ UNCHANGED <<tunnels, registry, cancelled, unrecovered>>
RemovesRow(o) ==
  LET s == task[o].sid IN
  /\ At(o, "inserted") /\ task'[o] = IdleTask /\ row'[s] = NoRow /\ OtherRows(s)
  /\ Others(o) /\ UNCHANGED <<tunnels, registry, cancelled, unrecovered>>
StartsOpening(o) ==
  LET s == task[o].sid IN
  /\ At(o, "inserted") /\ task'[o] = IdleTask /\ s \in Sid
  /\ task'[s].pc = "connect" /\ task'[s].sid = s /\ task'[s].kind = "start"
  /\ task'[s].c = None /\ task'[s].ledger = {}
  /\ \A u \in Task \ {o, s} : task'[u] = task[u]
  /\ UNCHANGED <<row, tunnels, registry, cancelled, unrecovered>>

\* close() records its intent, settles the start task and goes on to _do_close.
AsksStop(o) ==
  LET s == task[o].sid IN
  /\ At(o, "looked_up") /\ task[o].kind \in {"close", "force"} /\ From(o, task[o], "stopping")
  /\ s \in Sid /\ task'[o].c = task[o].c
  /\ IF Exists(s) THEN /\ row'[s].state = "stopping" /\ row'[s].close_reason
                       /\ row'[s].alias = row[s].alias /\ OtherRows(s)
                  ELSE SameRows
  /\ Others(o) /\ UNCHANGED <<tunnels, registry, cancelled, unrecovered>>
SettlesStart(o) ==
  LET s == task[o].sid IN
  /\ At(o, "stopping") /\ Active(s) /\ From(o, task[o], "start_settles")
  /\ task'[o].c = task[o].c /\ Unpublished(s) /\ cancelled' = cancelled \cup {s}
  /\ Others(o) /\ UNCHANGED <<row, tunnels, unrecovered>>
BeginsClosing(o) ==
  LET s == task[o].sid IN
  /\ ~Active(s) /\ Others(o) /\ UNCHANGED <<row, tunnels, cancelled, unrecovered>>
  /\ task[o].kind \in {"close", "force"}
  /\ \/ At(o, "stopping") /\ Unpublished(s)
     \/ At(o, "start_settles") /\ UNCHANGED registry
  /\ \/ /\ task[o].kind = "force" /\ From(o, task[o], "fresh") /\ task'[o].rec = Read(s)
        /\ task'[o].c = None
     \/ /\ task[o].kind = "close" /\ From(o, task[o], "do_close") /\ task'[o].c = task[o].c

\* retry() finds the session in error, and no start task at work.
BeginsRetry(o) ==
  LET s == task[o].sid IN
  /\ At(o, "looked_up") /\ task[o].kind = "retry" /\ task[o].rec.state = "error" /\ s \in Sid
  /\ ~Active(s) /\ Unpublished(s) /\ SameRows /\ UNCHANGED <<tunnels, cancelled>>
  /\ \/ /\ From(o, task[o], "fresh") /\ task'[o].c = None /\ task'[o].rec = Read(s)
        /\ Others(o) /\ unrecovered' = unrecovered
     \/ \E r : /\ HasBegun(o, r) /\ r.sid = s /\ r.kind = "retry"
               /\ r.alias = task[o].alias /\ r.c = task[o].c

OpDoes(o) ==
  \/ Arrives(o) \/ LooksUp(o) \/ Answers(o) \/ InsertsRow(o) \/ RemovesRow(o)
  \/ StartsOpening(o) \/ AsksStop(o) \/ SettlesStart(o) \/ BeginsClosing(o) \/ BeginsRetry(o)

LEMMA RequestIs ==
  ASSUME MoveInv, NEW o \in Op, NEW kind, NEW a \in Alias, Request(o, kind, a)
  PROVE  Arrives(o)
<1> DEFINE q == [IdleTask EXCEPT !.pc = "enter", !.kind = kind, !.alias = a]
<1>1. o \in Task
  BY DEF Task
<1>2. q.pc = "enter" /\ q.sid = None /\ q.c = None
  BY DEF IdleTask
<1>3. /\ At(o, "idle") /\ Become(o, q)
      /\ UNCHANGED <<row, tunnels, registry, cancelled, unrecovered>>
  BY DEF Request, memory
<1> HIDE DEF q
<1> QED
  BY <1>1, <1>2, <1>3, BecomeIs DEF Arrives, Alone, At

LEMMA OpenIs ==
  ASSUME MoveInv, NEW o \in Op, OpenStep(o)
  PROVE  OpDoes(o)
<1>1. o \in Task /\ task[o] \in TaskRecord /\ StoreTypeOK /\ task \in [Task -> TaskRecord]
  BY TaskFacts DEF Task, MoveInv, TypeOK
<1>2. CASE Enter(o)
  <2> DEFINE s == Lookup(task[o].alias)
             x == Read(s)
             q == [task[o] EXCEPT !.pc = "looked_up", !.sid = s, !.rec = x]
  <2>1. /\ At(o, "enter") /\ Become(o, q)
        /\ UNCHANGED <<row, tunnels, registry, cancelled, unrecovered>>
    BY <1>2 DEF Enter, memory
  <2> HIDE DEF s, x
  <2>2. /\ q.pc = "looked_up" /\ q.sid = s /\ q.rec = x /\ q.kind = task[o].kind
        /\ q.alias = task[o].alias /\ q.c = task[o].c
    BY <1>1 DEF TaskRecord
  <2> HIDE DEF q
  <2>3. task'[o] = q /\ Others(o)
    BY <1>1, <2>1, BecomeIs
  <2> QED
    BY <2>1, <2>2, <2>3 DEF OpDoes, LooksUp, Alone, s, x
<1>3. CASE OpenChecks(o)
  <2> DEFINE s == NewSid
             q == [task[o] EXCEPT !.pc = "inserted", !.sid = s]
  <2>1. /\ At(o, "looked_up") /\ UNCHANGED <<tunnels, registry, cancelled, unrecovered>>
        /\ \/ End(o) /\ UNCHANGED row
           \/ FreeSid # {} /\ Insert(s, task[o].alias) /\ Become(o, q)
    BY <1>3 DEF OpenChecks, memory
  <2>2. FreeSid # {} => s \in FreeSid
    BY DEF NewSid
  <2> HIDE DEF s
  <2>3. /\ q.pc = "inserted" /\ q.sid = s /\ q.kind = task[o].kind
        /\ q.alias = task[o].alias /\ q.c = task[o].c
    BY <1>1 DEF TaskRecord
  <2> HIDE DEF q
  <2>4. CASE FreeSid # {} /\ Insert(s, task[o].alias) /\ Become(o, q)
    <3>1. task'[o] = q /\ Others(o)
      BY <1>1, <2>4, BecomeIs
    <3>2. s \in FreeSid /\ s \in Sid
      BY <2>2, <2>4, FreeSids
    <3>3. /\ row'[s].state = "starting" /\ row'[s].alias = task[o].alias /\ ~row'[s].close_reason
          /\ OtherRows(s) /\ ~Exists(s) /\ RowsOf(task[o].alias) = {}
      BY <1>1, <2>4, <3>2, RowEdited
    <3>4. InsertsRow(o)
      BY <2>1, <2>3, <3>1, <3>2, <3>3 DEF InsertsRow
    <3> QED
      BY <3>4 DEF OpDoes
  <2>5. CASE End(o) /\ UNCHANGED row
    BY <1>1, <2>1, <2>5, EndIs DEF OpDoes, Answers, Alone, At
  <2> QED
    BY <2>1, <2>4, <2>5
<1>4. CASE OpenStarts(o)
  <2> DEFINE s == task[o].sid
             n == [IdleTask EXCEPT !.pc = "connect", !.kind = "start",
                                   !.alias = task[o].alias, !.sid = s]
  <2>1. /\ At(o, "inserted") /\ UNCHANGED <<tunnels, registry, cancelled, unrecovered>>
        /\ \/ Delete(s) /\ End(o)
           \/ task' = [task EXCEPT ![o] = IdleTask, ![s] = n] /\ UNCHANGED row
    BY <1>4 DEF OpenStarts
  <2>2. s \in Sid /\ s \in Task /\ s # o
    BY <1>1, <2>1, TaskFacts, ServiceAssumption DEF At, Task
  <2>3. CASE Delete(s) /\ End(o)
    BY <1>1, <2>1, <2>2, <2>3, EndIs, RowEdited DEF OpDoes, RemovesRow
  <2>4. CASE task' = [task EXCEPT ![o] = IdleTask, ![s] = n] /\ UNCHANGED row
    <3>1. /\ n.pc = "connect" /\ n.sid = s /\ n.kind = "start" /\ n.c = None /\ n.ledger = {}
      BY DEF IdleTask
    <3> HIDE DEF n
    <3>2. task'[o] = IdleTask /\ task'[s] = n /\ \A u \in Task \ {o, s} : task'[u] = task[u]
      BY <1>1, <2>2, <2>4
    <3> QED
      BY <2>1, <2>2, <2>4, <3>1, <3>2 DEF OpDoes, StartsOpening
  <2> QED
    BY <2>1, <2>3, <2>4
<1> QED
  BY <1>2, <1>3, <1>4 DEF OpenStep

LEMMA ClosingIs ==
  ASSUME MoveInv, NEW o \in Op, CloseStep(o), CloseIsKnown
  PROVE  OpDoes(o)
<1>1. o \in Task /\ task[o] \in TaskRecord /\ StoreTypeOK
  BY TaskFacts DEF Task, MoveInv, TypeOK
<1> DEFINE s == task[o].sid
<1>2. ASSUME StartsClosing(o), ~Active(s), Holding(task[o]), s \in Sid,
             UNCHANGED <<row, tunnels, cancelled>>,
             task[o].kind \in {"close", "force"},
             (At(o, "stopping") /\ Unpublished(s)) \/ (At(o, "start_settles") /\ UNCHANGED registry),
             unrecovered' = unrecovered
      PROVE  OpDoes(o)
  <2>1. \/ task[o].kind = "force" /\ DoesClose(o, task[o])
        \/ task[o].kind = "close" /\ Goto(o, "do_close")
    BY <1>2 DEF StartsClosing
  <2>2. DoesClose(o, task[o]) => /\ From(o, task[o], "fresh") /\ task'[o].c = None
                                 /\ task'[o].rec = Read(s) /\ Others(o)
    BY <1>1, DoesCloseIs
  <2>3. Goto(o, "do_close") => /\ From(o, task[o], "do_close") /\ task'[o].c = task[o].c
                               /\ Others(o)
    BY <1>1, GotoIs DEF Claims
  <2> QED
    BY <1>2, <2>1, <2>2, <2>3 DEF OpDoes, BeginsClosing
<1>3. CASE CloseRecordsIntent(o)
  <2>1. /\ At(o, "looked_up") /\ task[o].kind \in {"close", "force"}
        /\ UNCHANGED <<tunnels, registry, cancelled, unrecovered>>
        /\ \/ End(o) /\ UNCHANGED row
           \/ s # None /\ MarkStopping(s) /\ Goto(o, "stopping")
    BY <1>3 DEF CloseRecordsIntent, memory
  <2>2. CASE End(o) /\ UNCHANGED row
    BY <1>1, <2>1, <2>2, EndIs DEF OpDoes, Answers, Alone, At
  <2>3. CASE s # None /\ MarkStopping(s) /\ Goto(o, "stopping")
    <3>1. s \in Sid
      BY <1>1, <2>3 DEF TaskRecord
    <3>2. From(o, task[o], "stopping") /\ task'[o].c = task[o].c /\ Others(o)
      BY <1>1, <2>3, GotoIs DEF Claims
    <3>3. IF Exists(s) THEN /\ row'[s].state = "stopping" /\ row'[s].close_reason
                            /\ row'[s].alias = row[s].alias /\ OtherRows(s)
                       ELSE SameRows
      BY <1>1, <2>3, <3>1, RowEdited
    <3> QED
      BY <2>1, <3>1, <3>2, <3>3 DEF OpDoes, AsksStop
  <2> QED
    BY <2>1, <2>2, <2>3
<1>4. CASE CloseCancelsStart(o)
  <2>1. /\ At(o, "stopping") /\ Unpublished(s) /\ Cancel(s)
        /\ UNCHANGED <<row, tunnels, unrecovered>>
        /\ \/ Active(s) /\ Goto(o, "start_settles")
           \/ ~Active(s) /\ StartsClosing(o)
    BY <1>4 DEF CloseCancelsStart
  <2>2. s \in Sid /\ task[o].kind \in {"close", "force"} /\ Holding(task[o])
    <3>1. s \in Sid /\ Suspended(task[o])
      BY <1>1, <2>1, TaskFacts DEF At
    <3>2. task[o].kind \in {"close", "force"}
      BY <2>1, <3>1 DEF At, Suspended, RetryPcs, StartPcs, WatchPcs, BootPcs, DoClosePcs, ReattachPcs
    <3> QED
      BY <2>1, <3>1, <3>2 DEF At, Holding
  <2>3. CASE Active(s) /\ Goto(o, "start_settles")
    <3>1. From(o, task[o], "start_settles") /\ task'[o].c = task[o].c /\ Others(o)
      BY <1>1, <2>3, GotoIs DEF Claims
    <3>2. cancelled' = cancelled \cup {s}
      BY <2>1, <2>3 DEF Cancel
    <3> QED
      BY <2>1, <2>3, <3>1, <3>2 DEF OpDoes, SettlesStart
  <2>4. CASE ~Active(s) /\ StartsClosing(o)
    BY <1>2, <2>1, <2>2, <2>4 DEF Cancel
  <2> QED
    BY <2>1, <2>3, <2>4
<1>5. CASE CloseStarts(o)
  <2>1. /\ At(o, "start_settles") /\ task[o].kind \in {"close", "force"} /\ ~Active(s)
        /\ StartsClosing(o) /\ UNCHANGED <<row, tunnels, registry, cancelled, unrecovered>>
    BY <1>5 DEF CloseStarts, memory
  <2>2. s \in Sid /\ Holding(task[o])
    BY <1>1, <2>1, TaskFacts DEF At, Holding
  <2> QED
    BY <1>2, <2>1, <2>2
<1> QED
  BY <1>3, <1>4, <1>5 DEF CloseStep

LEMMA RetryIs ==
  ASSUME MoveInv, NEW o \in Op, RetryStep(o), CloseIsKnown, RetryIsDue
  PROVE  OpDoes(o)
<1>1. o \in Task /\ task[o] \in TaskRecord /\ StoreTypeOK
  BY TaskFacts DEF Task, MoveInv, TypeOK
<1> DEFINE s == task[o].sid
<1>2. CASE RetryBegins(o)
  <2>1. /\ At(o, "looked_up") /\ task[o].kind = "retry" /\ UNCHANGED tunnels
        /\ \/ End(o) /\ UNCHANGED <<row, registry, cancelled, unrecovered>>
           \/ task[o].rec.state = "error" /\ Active(s)
           \/ task[o].rec.state = "error" /\ ~Active(s) /\ RetriesNow(o) /\ UNCHANGED cancelled
    BY <1>2 DEF RetryBegins
  <2>2. CASE End(o) /\ UNCHANGED <<row, registry, cancelled, unrecovered>>
    BY <1>1, <2>1, <2>2, EndIs DEF OpDoes, Answers, Alone, At
  <2>3. CASE task[o].rec.state = "error" /\ Active(s)
    BY <2>1, <2>3 DEF RetryIsDue
  <2>4. CASE task[o].rec.state = "error" /\ ~Active(s) /\ RetriesNow(o) /\ UNCHANGED cancelled
    <3> DEFINE r == [task[o] EXCEPT !.tries = 1]
    <3>1. s \in Sid /\ task[o].alias \in Alias
      BY <1>2, <2>4, RetrySids
    <3>2. /\ Unpublished(s)
          /\ \/ DoesClose(o, task[o]) /\ UNCHANGED <<row, unrecovered>>
             \/ Reattaches(o, r)
      BY <2>4 DEF RetriesNow
    <3>3. r \in TaskRecord /\ Like(r, task[o]) /\ r.c = task[o].c
      <4>1. 1 \in 0..MaxTries
        BY ServiceAssumption
      <4> QED
        BY <1>1, <4>1 DEF TaskRecord, Like
    <3> HIDE DEF r
    <3>4. CASE DoesClose(o, task[o]) /\ UNCHANGED <<row, unrecovered>>
      <4>1. From(o, task[o], "fresh") /\ task'[o].c = None /\ task'[o].rec = Read(s) /\ Others(o)
        BY <1>1, <3>4, DoesCloseIs
      <4>2. SameRows
        BY <3>4 DEF SameRows, SameRow
      <4> QED
        BY <2>1, <2>4, <3>1, <3>2, <3>4, <4>1, <4>2 DEF OpDoes, BeginsRetry
    <3>5. CASE Reattaches(o, r)
      <4>1. r.sid = s /\ r.kind = "retry" /\ r.alias = task[o].alias
        BY <2>1, <3>3 DEF Like
      <4>2. Reattacher(o, r)
        BY <3>1, <3>3, <4>1 DEF Reattacher, KindOK
      <4>3. HasBegun(o, r)
        BY <1>1, <3>5, <4>2, ReattachesIs
      <4>4. SameRows
        <5>1. BeginRecovery(s) \/ UNCHANGED row
          BY <3>5, <4>1 DEF Reattaches
        <5> QED
          BY <1>1, <3>1, <5>1, ColumnsEdited
      <4>5. BeginsRetry(o)
        BY <2>1, <2>4, <3>1, <3>2, <3>3, <4>1, <4>3, <4>4 DEF BeginsRetry
      <4> QED
        BY <4>5 DEF OpDoes
    <3> QED
      BY <3>2, <3>4, <3>5
  <2> QED
    BY <2>1, <2>2, <2>3, <2>4
<1>3. CASE RetryProceeds(o)
  BY <1>3 DEF RetryProceeds, CloseIsKnown
<1>4. CASE RetryReopens(o)
  <2> DEFINE q == [IdleTask EXCEPT !.pc = "enter", !.kind = "open", !.alias = task[o].alias]
  <2>1. /\ At(o, "closed") /\ (Become(o, q) \/ End(o))
        /\ UNCHANGED <<row, tunnels, registry, cancelled, unrecovered>>
    BY <1>4 DEF RetryReopens, memory
  <2>2. q.pc = "enter" /\ q.sid = None /\ q.c = None
    BY DEF IdleTask
  <2> HIDE DEF q
  <2>3. Become(o, q) => task'[o] = q /\ Others(o)
    BY <1>1, BecomeIs
  <2>4. End(o) => task'[o] = IdleTask /\ Others(o)
    BY <1>1, EndIs
  <2> QED
    BY <2>1, <2>2, <2>3, <2>4 DEF OpDoes, Arrives, Answers, Alone, At
<1> QED
  BY <1>2, <1>3, <1>4 DEF RetryStep

-----------------------------------------------------------------------------
(***************************************************************************)
(* A step, but for a crash: nothing the invariant reads changes, or one    *)
(* task acts.                                                              *)
(***************************************************************************)
AllInv == LifecycleInv /\ SafetyInv /\ SlotInv /\ DrivenInv /\ ServedInv
CalmStep ==
  /\ AllInv /\ [Next]_vars /\ ~GatewayCrashes
  /\ LifecycleInv' /\ SafetyInv' /\ SlotInv' /\ DrivenInv'
  /\ "late" \notin Faults /\ "early_loss" \notin Faults

Still == UNCHANGED <<row, tunnels, registry, task, cancelled, unrecovered>>
Acts(t) ==
  \/ t \in Op /\ OpDoes(t)
  \/ t \in Closers /\ CloseDoes(t)
  \/ t \in Closers \cup Conn /\ AttemptDoes(t) /\ cancelled' = cancelled /\ t \notin cancelled
  \/ t \in Sid /\ Active(t) /\ StartDoes(t)
  \/ t \in Conn /\ WatchDoes(t)
  \/ t = Boot /\ RecoveryDoes

LEMMA IsCalm ==
  ASSUME AllInv, "late" \notin Faults
  PROVE  Calm
<1>1. MoveInv
  BY InvIsMoveInv DEF AllInv
<1>2. ASSUME NEW t \in Task, task[t].pc \in ReattachPcs
      PROVE  t \notin cancelled
  <2>1. Suspended(task[t]) /\ KindOK(t, task[t].kind)
    BY <1>1, TaskFacts
  <2>2. t \notin Sid
    BY <1>2, <2>1, ServiceAssumption DEF Suspended, KindOK, StartPcs, ReattachPcs, ClosePcs, DoClosePcs
  <2> QED
    BY <1>2, <2>2 DEF AllInv, ServedInv, CancelledInTime
<1>3. ASSUME NEW t \in Task, At(t, "commit")
      PROVE  "completed" \in task[t].ledger /\ registry[task[t].sid] = None
  BY <1>3 DEF AllInv, ServedInv, AttemptIsAlone, ReattachPcs, At
<1>4. ASSUME NEW t \in Task, At(t, "drop_conn")
      PROVE  task[t].exc # "cancelled"
  BY <1>4 DEF AllInv, ServedInv, AttemptIsAlone, ReattachPcs, At
<1> QED
  BY <1>2, <1>3, <1>4 DEF Calm

LEMMA StepIs ==
  ASSUME CalmStep
  PROVE  Still \/ \E t \in Task : Acts(t)
<1>1. MoveInv /\ Calm /\ CloseIsKnown /\ RetryIsDue /\ OpeningIsAlone
  BY IsCalm, InvIsMoveInv DEF CalmStep, AllInv, ServedInv
<1>2. Op \subseteq Task /\ Sid \subseteq Task /\ Conn \subseteq Task /\ Boot \in Task
      /\ Op \subseteq Closers /\ Boot \in Closers
  BY DEF Task, Closers
<1>3. ASSUME NEW o \in Op, OpStep(o)
      PROVE  Acts(o)
  BY <1>1, <1>2, <1>3, OpenIs, ClosingIs, RetryIs, CloseIs, AttemptIs DEF OpStep, Acts
<1>4. ASSUME NEW s \in Sid, StartStep(s)
      PROVE  Acts(s)
  <2>1. Active(s) /\ task[s].sid = s
    BY <1>1, <1>4, StartIsActive DEF OpeningIsAlone, Opening
  <2> QED
    BY <1>1, <1>4, <2>1, StartIs DEF Acts
<1>5. ASSUME NEW c \in Conn, WatcherStep(c)
      PROVE  Acts(c)
  BY <1>1, <1>2, <1>5, WatchIs, AttemptIs DEF WatcherStep, Acts, CalmStep
<1>6. ASSUME BootStep
      PROVE  Acts(Boot)
  BY <1>1, <1>2, <1>6, RecoveryIs, CloseIs, AttemptIs DEF BootStep, Acts
<1>7. ASSUME NEW o \in Op, NEW kind \in Requests, NEW a \in Alias, Request(o, kind, a)
      PROVE  Acts(o)
  BY <1>1, <1>7, RequestIs DEF OpDoes, Acts
<1>8. ASSUME NEW s \in Sid, HelperStep(s) \/ ProcessDies(s) \/ PidReused(s)
      PROVE  Still
  BY <1>8 DEF HelperStep, HelperRecords, HelperFails, ProcessDies, PidReused, OnlyRemote, memory, Still
<1>9. ASSUME NEW c \in Conn, ConnectionLost(c)
      PROVE  Still
  BY <1>9 DEF ConnectionLost, memory, Still
<1>10. UNCHANGED vars => Still
  BY DEF vars, Still
<1> QED
  BY <1>2, <1>3, <1>4, <1>5, <1>6, <1>7, <1>8, <1>9, <1>10 DEF CalmStep, Next, Environment, Quiescent

\* Two tasks that hold an alias lock for one session are the same.
LEMMA OneWorker ==
  ASSUME LifecycleInv, AliasesAgree, NEW t \in Task, NEW u \in Task, Holding(task[t]),
         Holding(task[u]), task[t].sid = task[u].sid, task[t].sid # None
  PROVE  t = u
<1>1. task[t].pc # "initial" /\ task[u].pc # "initial"
  BY DEF Holding, ReattachPcs, DoClosePcs
<1>2. task[t].alias = task[u].alias
  BY <1>1 DEF AliasesAgree, AtWork, LockedAlias, Busy
<1>3. OneHolder
  BY InvIsMoveInv, TaskFacts DEF LifecycleInv, LockOrder, LockOK, OneHolder
<1> QED
  BY <1>2, <1>3 DEF OneHolder

\* A session that is gone, or to be closed, does not come back while a task names it.
LEMMA NotStandingStays ==
  ASSUME LifecycleInv, [Next]_vars, NEW s \in Sid, ~Standing(s),
         NEW t \in Task, task[t].sid = s
  PROVE  ~(row'[s].state # "closed" /\ ~row'[s].close_reason)
<1>1. MoveInv /\ StoreInv
  BY InvIsMoveInv
<1>2. CASE ~Exists(s)
  BY <1>1, <1>2, GoneRowStays
<1>3. CASE row[s].close_reason
  <2>1. row'[s] = NoRow \/ row'[s].close_reason \/ row' = row
    BY <1>1, <1>3, StepKeeps, StatementKeepsIntent DEF Writes
  <2> QED
    BY <1>3, <2>1 DEF NoRow
<1> QED
  BY <1>2, <1>3 DEF Standing

\* Where a session stands, its row is not stopping; where it does not, not ready.
LEMMA StandingRows ==
  ASSUME LifecycleInv, CloseIsKnown, NEW s \in Sid
  PROVE  /\ Standing(s) => row[s].state # "stopping"
         /\ row[s].state \in {"ready", "starting"} => Standing(s)
BY DEF Standing, CloseIsKnown, LifecycleInv, ClosingRowIsDown, Exists

\* Kinds of task at their awaits.
LEMMA PcKinds ==
  ASSUME LifecycleInv, NEW t \in Task
  PROVE  /\ task[t].pc \in ReattachPcs => t \notin Sid /\ task[t].sid \in Sid
         /\ t \in Sid /\ Active(t) => task[t].kind = "start" /\ task[t].pc \in StartPcs
         /\ t \in Conn /\ Active(t) => task[t].kind = "watch" /\ task[t].pc \in WatchPcs
                                       /\ task[t].sid \in Sid
         /\ t = Boot /\ Active(t) => task[t].kind = "boot" /\ task[t].pc \in BootPcs
         /\ t \in Op /\ Active(t) => task[t].kind \in {"open", "close", "force", "retry"}
         /\ ~Active(t) => task[t].kind = "none"
<1>1. MoveInv /\ Suspended(task[t]) /\ KindOK(t, task[t].kind)
  BY InvIsMoveInv, TaskFacts
<1>2. task[t].pc \in ReattachPcs => task[t].sid \in Sid
  BY <1>1, TaskFacts DEF ReattachPcs
<1>3. task[t].pc \in ReattachPcs => t \notin Sid
  BY <1>1, ServiceAssumption DEF Suspended, KindOK, StartPcs, ReattachPcs, ClosePcs, DoClosePcs
<1>4. t \in Sid /\ Active(t) => task[t].kind = "start" /\ task[t].pc \in StartPcs
  BY <1>1, ServiceAssumption DEF Suspended, KindOK, Active
<1>5. t \in Conn /\ Active(t) => /\ task[t].kind = "watch" /\ task[t].pc \in WatchPcs
                                 /\ task[t].sid \in Sid
  BY <1>1, WatchFacts DEF Active
<1>6. t = Boot /\ Active(t) => task[t].kind = "boot" /\ task[t].pc \in BootPcs
  BY <1>1, ServiceAssumption DEF Suspended, KindOK, Active
<1>7. t \in Op /\ Active(t) => task[t].kind \in {"open", "close", "force", "retry"}
  BY <1>1, OpFacts DEF Active, Suspended
<1>8. ~Active(t) => task[t].kind = "none"
  BY <1>1 DEF Suspended, Active, ClosePcs, RetryPcs, StartPcs, WatchPcs, BootPcs, DoClosePcs, ReattachPcs
<1> QED
  BY <1>2, <1>3, <1>4, <1>5, <1>6, <1>7, <1>8

\* What is known of a step.
LEMMA CalmFacts ==
  ASSUME CalmStep
  PROVE  /\ MoveInv /\ StoreInv /\ LifecycleInv /\ [Next]_vars /\ ~GatewayCrashes /\ RecoveryIsAlone
         /\ "late" \notin Faults /\ "early_loss" \notin Faults /\ WorldOK
         /\ AliasesAgree /\ CancelledInTime /\ CloseIsKnown /\ RetryIsDue /\ AttemptIsAlone
         /\ OpeningIsAlone /\ PortIsWatched /\ WatchersAgree /\ WatcherReadsRight
         /\ ReadyIsMended /\ RecoveryStartsClean /\ ClaimsDiffer
         /\ Settled /\ InsertsAlone /\ Unlaunched /\ DeletedIsGone /\ InsertedExists
         /\ CancelledIsActive
         /\ MoveInv' /\ StoreInv' /\ RecoveryIsAlone' /\ WorldOK' /\ LifecycleInv' /\ Settled'
         /\ CancelledIsActive' /\ InsertsAlone' /\ InsertedExists' /\ DeletedIsGone'
<1>1. LifecycleInv /\ LifecycleInv'
  BY DEF CalmStep, AllInv
<1>2. MoveInv /\ StoreInv /\ RecoveryIsAlone /\ WorldOK
  BY <1>1, InvIsMoveInv
<1>3. (MoveInv /\ StoreInv /\ RecoveryIsAlone /\ WorldOK)'
  BY <1>1 DEF LifecycleInv, MoveInv, StoreInv, TypeOK, WorldOK
<1> QED
  BY <1>1, <1>2, <1>3 DEF CalmStep, AllInv, ServedInv, SafetyInv, SlotInv, DrivenInv

\* The sets of tasks, and the types of what is installed.
LEMMA CalmTypes ==
  ASSUME CalmStep
  PROVE  /\ Op \subseteq Task /\ Sid \subseteq Task /\ Conn \subseteq Task /\ Boot \in Task
         /\ Op \subseteq Closers /\ Boot \in Closers /\ Closers \subseteq Task
         /\ Closers \cap Sid = {} /\ Closers \cap Conn = {} /\ Sid \cap Conn = {}
         /\ None \notin Sid /\ None \notin Conn /\ Boot \notin Op
         /\ tunnels \in [Sid -> Tunnel] /\ registry \in [Sid -> Conn \cup {None}]
         /\ cancelled \subseteq Sid \cup Conn
         /\ \A s \in Sid : tunnels[s].c \in Conn \cup {None}
         /\ row \in [Sid -> Row] /\ row' \in [Sid -> Row]
  BY CalmFacts, ServiceAssumption, NoneAssumption
     DEF WorldOK, Task, Closers, CancelledInTime, Tunnel, StoreInv, StoreTypeOK

-----------------------------------------------------------------------------
(***************************************************************************)
(* What a step does to a session: its row, its tunnel and its port are     *)
(* left as they are, or one task that works on it changes some of them.    *)
(***************************************************************************)
Same(s) == SameRow(s) /\ tunnels'[s] = tunnels[s] /\ registry'[s] = registry[s]

\* u holds the lock for s, closes it, or is its start task.
Works(u, s) ==
  \/ u = s /\ Active(s)
  \/ /\ task[u].sid = s
     /\ \/ Holding(task[u])
        \/ u \in Op /\ task[u].kind \in {"close", "force"} /\ task[u].pc \in ClosePcs

SameWatchers == cancelled' \cap Conn = cancelled \cap Conn
OnlyRow(u, s) == Others(u) /\ OtherRows(s) /\ UNCHANGED <<tunnels, registry>> /\ SameWatchers

\* The row is inserted, marked stopping, deleted, marked as failed, ready, or repaired.
Inserts(u, s) == u \in Op /\ InsertsRow(u) /\ task'[u].sid = s
Asks(u, s) == u \in Op /\ AsksStop(u) /\ task[u].sid = s /\ Exists(s)
Deletes(u, s) ==
  /\ OnlyRow(u, s) /\ row'[s] = NoRow /\ u \in Closers
  /\ task[u].pc \in {"inserted", "finish", "drop"}
Fails(u, s) ==
  /\ OnlyRow(u, s) /\ Exists(s) /\ RowTo(s, "error")
  /\ \/ u = s /\ task[s].pc \in {"unhandled", "mark"} /\ task'[s] = IdleTask
     \/ u \in Conn /\ At(u, "lost_checks") /\ u \notin cancelled /\ task'[u] = IdleTask
     \/ u \in Closers /\ task[u].pc \in {"finish", "mark_lost"}
Readies(u, s) ==
  /\ u = s /\ OnlyRow(s, s) /\ At(s, "verify") /\ s \notin cancelled /\ cancelled' = cancelled
  /\ From(s, task[s], "ready") /\ task'[s].c = task[s].c
  /\ row[s].state = "starting" /\ RowTo(s, "ready")
Completes(u, s) ==
  /\ OnlyRow(u, s) /\ At(u, "reforward") /\ From(u, task[u], "commit")
  /\ Recoverable(s) /\ RowTo(s, "ready")

\* A close takes the port from the proxy, or the tunnel.
Shuts(u, s) ==
  /\ u \in Closers /\ Others(u) /\ SameWatchers /\ UNCHANGED tunnels
  /\ SameRow(s) /\ ~Standing(s) /\ registry'[s] = None
Empties(u, s) ==
  /\ u \in Closers /\ At(u, "fresh") /\ Others(u) /\ task'[u].c = tunnels[s].c
  /\ cancelled' = cancelled \cup WatcherOf(tunnels[s])
  /\ SameRow(s) /\ registry[s] = None /\ UNCHANGED registry /\ Keep(s, NoTunnel)

\* A connection that could not be closed is kept with the session.
KeepPcs == {"close_conn", "close_lost", "drop_conn", "undo_conn", "check_done"}
Retains(u, s) ==
  /\ Others(u) /\ SameWatchers /\ SameRow(s) /\ registry[s] = None /\ UNCHANGED registry
  /\ task'[u].c = None /\ task'[u].pc # task[u].pc /\ task[u].pc \in KeepPcs
  /\ "close" \in Faults
  /\ \E x : /\ Keep(s, x) /\ x.c = task[u].c
            /\ x.watched => u \in Conn /\ At(u, "close_lost") /\ x.c = u

\* A tunnel is installed and its port published, by the start task or an attempt.
Publishes(u, s) ==
  /\ u = s /\ At(s, "tunnel") /\ s \notin cancelled /\ cancelled' = cancelled
  /\ From(s, task[s], "verify") /\ task'[s].c = task[s].c /\ Births(s) /\ UNCHANGED row
  /\ Keep(s, LiveTunnel(task[s].c)) /\ Published(s, task[s].c)
Installs(u, s) ==
  /\ u \in Closers \cup Conn /\ At(u, "commit") /\ u \notin cancelled /\ cancelled' = cancelled
  /\ From(u, task[u], "installed") /\ task'[u].c = None /\ Births(u) /\ UNCHANGED row
  /\ Keep(s, LiveTunnel(task[u].c)) /\ Published(s, task[u].c)

\* Port and tunnel go, by the cleanup of the start task or by the watcher.
Drops(u, s) ==
  /\ u = s /\ task[s].pc \in OpeningPcs \cup {"ready_read"} /\ Others(s)
  /\ task'[s].pc \in {"watcher", "mark", "undo_remote", "undo_conn"}
  /\ task'[s].c = task[s].c
  /\ cancelled' = (cancelled \ {s}) \cup WatcherOf(tunnels[s])
  /\ UNCHANGED row /\ Keep(s, NoTunnel) /\ registry'[s] = None
TakesDown(u, s) ==
  /\ u \in Conn /\ At(u, "exit_checks") /\ u \notin cancelled /\ cancelled' = cancelled
  /\ ~GoneOrStopping(task[u].rec) /\ tunnels[s].c = u
  /\ From(u, task[u], "close_lost") /\ task'[u].c = u /\ task'[u].old = tunnels[s] /\ Others(u)
  /\ UNCHANGED row /\ Keep(s, NoTunnel) /\ Unpublished(s)

Event(u, s) ==
  \/ /\ Works(u, s)
     /\ \/ Asks(u, s) \/ Deletes(u, s) \/ Fails(u, s) \/ Readies(u, s) \/ Completes(u, s)
        \/ Shuts(u, s) \/ Empties(u, s) \/ Retains(u, s) \/ Publishes(u, s) \/ Installs(u, s)
        \/ Drops(u, s) \/ TakesDown(u, s)
  \/ Inserts(u, s)

\* What a task does to one session leaves the others as they are.
LEMMA Elsewhere ==
  ASSUME CalmStep, NEW s \in Sid, NEW x, NEW p
  PROVE  /\ OtherRows(s) => \A u \in Sid \ {s} : SameRow(u)
         /\ UNCHANGED row \/ SameRows => \A u \in Sid : SameRow(u)
         /\ Keep(s, x) => tunnels'[s] = x /\ \A u \in Sid \ {s} : tunnels'[u] = tunnels[u]
         /\ Published(s, p) => registry'[s] = p /\ \A u \in Sid \ {s} : registry'[u] = registry[u]
         /\ Unpublished(s) => /\ registry'[s] = None
                              /\ \A u \in Sid \ {s} : registry'[u] = registry[u]
         /\ RowTo(s, p) => OtherRows(s)
BY CalmTypes DEF OtherRows, SameRows, SameRow, Keep, Published, Unpublished, RowTo

\* A session in error without a start task has no port.
LEMMA FailingIsShut ==
  ASSUME CalmStep, NEW s \in Sid, Failing(s), ~Active(s)
  PROVE  registry[s] = None
BY CalmFacts DEF PortIsWatched, Failing, StopAsked

LEMMA OpEvents ==
  ASSUME CalmStep, NEW o \in Op, OpDoes(o), NEW s \in Sid
  PROVE  Same(s) \/ Event(o, s)
<1>1. MoveInv /\ CloseIsKnown /\ RetryIsDue /\ Suspended(task[o]) /\ o \in Closers
  BY CalmFacts, CalmTypes, TaskFacts
<1>2. CASE Arrives(o) \/ LooksUp(o) \/ Answers(o) \/ StartsOpening(o)
  BY <1>2 DEF Arrives, LooksUp, Answers, StartsOpening, Alone, Same, SameRow
<1>3. CASE InsertsRow(o)
  BY <1>3 DEF InsertsRow, OtherRows, Same, Event, Inserts
<1>4. CASE RemovesRow(o)
  <2>1. CASE s = task[o].sid
    <3>1. Works(o, s)
      BY <1>4, <2>1 DEF RemovesRow, Works, Holding, At
    <3>2. Deletes(o, s)
      BY <1>1, <1>4, <2>1 DEF RemovesRow, Deletes, OnlyRow, SameWatchers, At
    <3> QED
      BY <3>1, <3>2 DEF Event
  <2>2. CASE s # task[o].sid
    BY <1>4, <2>2 DEF RemovesRow, OtherRows, Same
  <2> QED
    BY <2>1, <2>2
<1>5. CASE AsksStop(o)
  <2>1. CASE s = task[o].sid /\ Exists(s)
    <3>1. Works(o, s)
      BY <1>5, <2>1 DEF AsksStop, Works, Holding, At
    <3> QED
      BY <1>5, <2>1, <3>1 DEF Event, Asks
  <2>2. CASE ~(s = task[o].sid /\ Exists(s))
    BY <1>5, <2>2 DEF AsksStop, OtherRows, SameRows, Same
  <2> QED
    BY <2>1, <2>2
<1>6. CASE /\ At(o, "stopping") /\ Unpublished(task[o].sid)
           /\ Others(o) /\ UNCHANGED <<row, tunnels>> /\ SameWatchers
  <2>1. CASE s = task[o].sid
    <3>1. task[o].kind \in {"close", "force"} /\ task[o].pc \in ClosePcs
      BY <1>1, <1>6 DEF Suspended, At, ClosePcs, DoClosePcs, RetryPcs, StartPcs, WatchPcs, BootPcs, ReattachPcs
    <3>2. ~Standing(s)
      BY <1>1, <2>1, <3>1 DEF CloseIsKnown
    <3>3. registry'[s] = None
      BY <1>6, <2>1, Elsewhere
    <3>4. Works(o, s)
      BY <2>1, <3>1 DEF Works
    <3> QED
      BY <1>1, <1>6, <3>2, <3>3, <3>4 DEF Event, Shuts, SameRow
  <2>2. CASE s # task[o].sid
    BY <1>6, <2>2, CalmTypes DEF Unpublished, Same, SameRow
  <2> QED
    BY <2>1, <2>2
<1>7. CASE SettlesStart(o)
  <2>1. task[o].sid \in Sid
    BY <1>1, <1>7, TaskFacts, CalmTypes DEF SettlesStart, At
  <2> QED
    BY <1>6, <1>7, <2>1, CalmTypes DEF SettlesStart, SameWatchers
<1>8. CASE BeginsClosing(o)
  BY <1>6, <1>8 DEF BeginsClosing, SameWatchers, Same, SameRow
<1>9. CASE BeginsRetry(o)
  <2>1. registry[task[o].sid] = None
    BY <1>1, <1>9, FailingIsShut DEF BeginsRetry, RetryIsDue
  <2> QED
    BY <1>9, <2>1, CalmTypes DEF BeginsRetry, Unpublished, SameRows, Same
<1> QED
  BY <1>2, <1>3, <1>4, <1>5, <1>7, <1>8, <1>9 DEF OpDoes

\* A task in _do_close works on its session, whose port is no longer published.
LEMMA CloserWorks ==
  ASSUME CalmStep, NEW t \in Closers, task[t].pc \in DoClosePcs
  PROVE  task[t].sid \in Sid /\ Works(t, task[t].sid) /\ registry[task[t].sid] = None
<1>1. Suspended(task[t]) /\ KindOK(t, task[t].kind) /\ task[t].sid \in Sid
  BY CalmFacts, CalmTypes, TaskFacts DEF DoClosePcs
<1>2. t \in Op \/ t = Boot
  BY DEF Closers
<1>3. task[t].kind = "close" => t \in Op
  BY <1>1, <1>2, ServiceAssumption DEF KindOK
<1>4. Works(t, task[t].sid)
  BY <1>3 DEF Works, Holding, ClosePcs
<1>5. CASE t \in Op
  BY <1>1, <1>4, <1>5, CalmFacts DEF CloseIsKnown, SettledPcs, DoClosePcs
<1>6. CASE t = Boot
  <2>1. task[Boot].sid # None
    BY <1>1, <1>6, CalmTypes
  <2> QED
    BY <1>1, <1>4, <1>6, <2>1, CalmFacts DEF RecoveryStartsClean, DoClosePcs, At
<1> QED
  BY <1>2, <1>5, <1>6

LEMMA CloseEvents ==
  ASSUME CalmStep, NEW t \in Closers, CloseDoes(t), NEW s \in Sid
  PROVE  Same(s) \/ Event(t, s)
<1> DEFINE s0 == task[t].sid
<1>1. task[t].pc \in DoClosePcs => s0 \in Sid /\ Works(t, s0) /\ registry[s0] = None
  BY CloserWorks
<1>2. At(t, "deleted") \/ (At(t, "fresh") /\ task[t].rec.state = "closed") => ~Standing(s0)
  BY CalmFacts DEF DeletedIsGone, DroppedRow, At, Standing
<1>3. CASE \/ UNCHANGED <<row, tunnels, registry>>
           \/ SameRows /\ UNCHANGED <<tunnels, registry>>
  BY <1>3 DEF Same, SameRow, SameRows
<1>4. CASE /\ At(t, "deleted") \/ (At(t, "fresh") /\ task[t].rec.state = "closed")
           /\ Others(t) /\ UNCHANGED <<row, tunnels, cancelled>> /\ Unpublished(s0)
  <2>1. s0 \in Sid /\ Works(t, s0)
    BY <1>1, <1>4 DEF DoClosePcs, At
  <2>2. CASE s = s0
    <3>1. Shuts(t, s)
      BY <1>2, <1>4, <2>1, <2>2, Elsewhere DEF Shuts, SameWatchers, SameRow
    <3> QED
      BY <2>1, <2>2, <3>1 DEF Event
  <2>3. CASE s # s0
    BY <1>4, <2>1, <2>3, Elsewhere DEF Same, SameRow
  <2> QED
    BY <2>2, <2>3
<1>5. CASE /\ At(t, "fresh") /\ Others(t) /\ UNCHANGED <<row, registry>> /\ Keep(s0, NoTunnel)
           /\ cancelled' = cancelled \cup WatcherOf(tunnels[s0])
           /\ task'[t].c = tunnels[s0].c
  <2>1. s0 \in Sid /\ Works(t, s0) /\ registry[s0] = None
    BY <1>1, <1>5 DEF DoClosePcs, At
  <2>2. CASE s = s0
    <3>1. Empties(t, s)
      BY <1>5, <2>1, <2>2 DEF Empties, SameRow
    <3> QED
      BY <2>1, <2>2, <3>1 DEF Event
  <2>3. CASE s # s0
    BY <1>5, <2>1, <2>3, Elsewhere DEF Same, SameRow
  <2> QED
    BY <2>2, <2>3
<1>6. CASE /\ At(t, "close_conn") /\ From(t, task[t], "forget") /\ Others(t)
           /\ task'[t].c = None /\ SameRows
           /\ UNCHANGED <<registry, cancelled>> /\ "close" \in Faults
           /\ Keep(s0, [NoTunnel EXCEPT !.c = task[t].c])
  <2>1. s0 \in Sid /\ Works(t, s0) /\ registry[s0] = None
    BY <1>1, <1>6 DEF DoClosePcs, At
  <2>2. CASE s = s0
    <3> DEFINE x == [NoTunnel EXCEPT !.c = task[t].c]
    <3>1. x.c = task[t].c /\ ~x.watched
      BY DEF NoTunnel
    <3> HIDE DEF x
    <3>2. Retains(t, s)
      BY <1>6, <2>1, <2>2, <3>1 DEF Retains, KeepPcs, SameRows, SameWatchers, x, From, At
    <3> QED
      BY <2>1, <2>2, <3>2 DEF Event
  <2>3. CASE s # s0
    BY <1>6, <2>1, <2>3, Elsewhere DEF Same, SameRow
  <2> QED
    BY <2>2, <2>3
<1>7. CASE At(t, "finish") /\ Marked(s0) /\ Others(t) /\ Kept
  <2>1. s0 \in Sid /\ Works(t, s0)
    BY <1>1, <1>7 DEF DoClosePcs, At
  <2>2. CASE s = s0 /\ Exists(s0)
    <3>1. Fails(t, s)
      BY <1>7, <2>2 DEF Fails, Marked, OnlyRow, Kept, SameWatchers, At, RowTo
    <3> QED
      BY <2>1, <2>2, <3>1 DEF Event
  <2>3. CASE ~(s = s0 /\ Exists(s0))
    BY <1>7, <2>1, <2>3 DEF Same, SameRows, RowTo, OtherRows, Marked, Kept
  <2> QED
    BY <2>2, <2>3
<1>8. CASE At(t, "finish") /\ Others(t) /\ row'[s0] = NoRow /\ OtherRows(s0) /\ Kept
  <2>1. s0 \in Sid /\ Works(t, s0)
    BY <1>1, <1>8 DEF DoClosePcs, At
  <2>2. CASE s = s0
    <3>1. Deletes(t, s)
      BY <1>8, <2>2 DEF Deletes, OnlyRow, Kept, SameWatchers, At
    <3> QED
      BY <2>1, <2>2, <3>1 DEF Event
  <2>3. CASE s # s0
    BY <1>8, <2>1, <2>3 DEF Same, OtherRows, Kept
  <2> QED
    BY <2>2, <2>3
<1>9. HasReturned(t) => Others(t)
  BY DEF HasReturned
<1> HIDE DEF s0
<1>10. CASE CloseGoesOn(t)
  BY <1>3, <1>10 DEF CloseGoesOn
<1> QED
  BY <1>3, <1>4, <1>5, <1>6, <1>7, <1>8, <1>9, <1>10 DEF CloseDoes, s0, Kept

LEMMA AttemptEvents ==
  ASSUME CalmStep, NEW t \in Closers \cup Conn, AttemptDoes(t), cancelled' = cancelled,
         t \notin cancelled, NEW s \in Sid
  PROVE  Same(s) \/ Event(t, s)
<1> DEFINE s0 == task[t].sid
<1>1. t \in Task /\ s0 \in Sid
  <2>1. t \in Task
    BY CalmTypes
  <2>2. task[t].pc \in ReattachPcs \cup {"backoff"}
    BY DEF AttemptDoes, AttemptOn, At, ReattachPcs
  <2> QED
    BY <2>1, <2>2, CalmFacts, TaskFacts DEF ReattachPcs
<1>2. task[t].pc \in ReattachPcs => Works(t, s0)
  BY DEF Works, Holding
<1>3. CASE UNCHANGED <<tunnels, registry>> /\ (UNCHANGED row \/ SameRows)
  BY <1>3 DEF Same, SameRow, SameRows
<1>4. CASE /\ At(t, "reforward") /\ Others(t) /\ From(t, task[t], "commit")
           /\ CompleteRecovery(s0) /\ UNCHANGED <<tunnels, registry>>
  <2>1. IF Recoverable(s0) THEN RowTo(s0, "ready") ELSE SameRows
    BY <1>1, <1>4, CalmFacts, StateEdited DEF StoreInv
  <2>2. CASE s = s0 /\ Recoverable(s0)
    <3>1. Completes(t, s)
      BY <1>4, <2>1, <2>2 DEF Completes, OnlyRow, SameWatchers, RowTo
    <3>2. Works(t, s)
      BY <1>2, <1>4, <2>2 DEF ReattachPcs, At
    <3> QED
      BY <3>1, <3>2 DEF Event
  <2>3. CASE ~(s = s0 /\ Recoverable(s0))
    BY <1>4, <2>1, <2>3 DEF Same, RowTo, OtherRows, SameRows
  <2> QED
    BY <2>2, <2>3
<1>5. CASE /\ At(t, "commit") /\ From(t, task[t], "installed") /\ Births(t) /\ task'[t].c = None
           /\ Keep(s0, LiveTunnel(task[t].c)) /\ Published(s0, task[t].c)
           /\ UNCHANGED <<row, unrecovered>>
  <2>1. CASE s = s0
    <3>1. Installs(t, s)
      BY <1>5, <2>1 DEF Installs
    <3>2. Works(t, s)
      BY <1>2, <1>5, <2>1 DEF ReattachPcs, At
    <3> QED
      BY <3>1, <3>2 DEF Event
  <2>2. CASE s # s0
    BY <1>1, <1>5, <2>2, Elsewhere DEF Same, SameRow
  <2> QED
    BY <2>1, <2>2
<1>6. CASE /\ At(t, "drop_conn") /\ HasRaised(t, task[t]) /\ UNCHANGED <<row, registry>>
           /\ Keep(s0, [task[t].old EXCEPT !.c = task[t].c]) /\ "close" \in Faults
  <2> DEFINE x == [task[t].old EXCEPT !.c = task[t].c]
  <2>1. registry[s0] = None /\ ~task[t].old.watched
    BY <1>1, <1>6, CalmFacts DEF AttemptIsAlone, ReattachPcs, At
  <2>2. x.c = task[t].c /\ ~x.watched
    <3>1. task[t].old \in Tunnel
      BY <1>1, CalmFacts, TaskFacts
    <3> QED
      BY <2>1, <3>1 DEF Tunnel
  <2> HIDE DEF x
  <2>3. Others(t) /\ task'[t].c = None /\ task'[t].pc # task[t].pc
    BY <1>6, RestingFields DEF HasRaised, From, At
  <2>4. CASE s = s0
    <3>1. Retains(t, s)
      BY <1>6, <2>1, <2>2, <2>3, <2>4 DEF Retains, KeepPcs, SameRow, SameWatchers, x, At
    <3>2. Works(t, s)
      BY <1>2, <1>6, <2>4 DEF ReattachPcs, At
    <3> QED
      BY <3>1, <3>2 DEF Event
  <2>5. CASE s # s0
    BY <1>1, <1>6, <2>5, Elsewhere DEF Same, SameRow
  <2> QED
    BY <2>4, <2>5
<1>7. BeginRecovery(s0) => SameRows
  BY <1>1, CalmFacts, ColumnsEdited DEF StoreInv
<1>8. CASE AttemptOn(t)
  <2>1. CASE At(t, "reforward") /\ task'[t].pc = "commit"
    <3>1. /\ Others(t) /\ UNCHANGED <<tunnels, registry>>
          /\ From(t, task[t], "commit") /\ CompleteRecovery(s0)
      BY <1>8, <2>1 DEF AttemptOn, At, From
    <3> QED
      BY <1>4, <2>1, <3>1
  <2>2. CASE ~(At(t, "reforward") /\ task'[t].pc = "commit")
    BY <1>3, <1>8, <2>2 DEF AttemptOn
  <2> QED
    BY <2>1, <2>2
<1> HIDE DEF s0
<1> QED
  BY <1>3, <1>5, <1>6, <1>7, <1>8 DEF AttemptDoes, s0

LEMMA StartEvents ==
  ASSUME CalmStep, NEW s0 \in Sid, Active(s0), StartDoes(s0), NEW s \in Sid
  PROVE  Same(s) \/ Event(s0, s)
<1>1. Opening(s0) /\ task[s0].sid = s0 /\ Works(s0, s0)
  BY CalmFacts DEF OpeningIsAlone, Opening, Works
<1>2. CASE UNCHANGED <<tunnels, registry>> /\ (UNCHANGED row \/ SameRows)
  BY <1>2 DEF Same, SameRow, SameRows
<1>3. CASE HasDropped(s0) /\ task[s0].pc \in OpeningPcs \cup {"ready_read"}
           /\ (At(s0, "ready") => s0 \in cancelled)
  <2>1. registry'[s0] = None
    <3>1. CASE "registry" \in task[s0].ledger
      BY <1>3, <3>1, Elsewhere DEF HasDropped
    <3>2. CASE "registry" \notin task[s0].ledger
      <4>1. registry[s0] = None
        BY <1>1, <1>3, <3>2 DEF Opening, At
      <4> QED
        BY <1>3, <3>2, <4>1 DEF HasDropped
    <3> QED
      BY <3>1, <3>2
  <2>2. \A u \in Sid \ {s0} : registry'[u] = registry[u]
    BY <1>3, Elsewhere DEF HasDropped
  <2>3. CASE s = s0
    <3>1. Drops(s0, s)
      BY <1>3, <2>1, <2>3 DEF Drops, HasDropped, From
    <3> QED
      BY <1>1, <2>3, <3>1 DEF Event
  <2>4. CASE s # s0
    BY <1>3, <2>2, <2>4, Elsewhere DEF Same, SameRow, HasDropped
  <2> QED
    BY <2>3, <2>4
<1>4. CASE OpeningDoes(s0) /\ s0 \notin cancelled /\ cancelled' = cancelled
  <2>1. CASE /\ At(s0, "tunnel") /\ From(s0, task[s0], "verify") /\ task'[s0].c = task[s0].c
             /\ Births(s0) /\ UNCHANGED row
             /\ Keep(s0, LiveTunnel(task[s0].c)) /\ Published(s0, task[s0].c)
    <3>1. CASE s = s0
      <4>1. Publishes(s0, s)
        BY <1>4, <2>1, <3>1 DEF Publishes
      <4> QED
        BY <1>1, <3>1, <4>1 DEF Event
    <3>2. CASE s # s0
      BY <2>1, <3>2, Elsewhere DEF Same, SameRow
    <3> QED
      BY <3>1, <3>2
  <2>2. CASE /\ At(s0, "verify") /\ From(s0, task[s0], "ready") /\ StartGoesOn(s0)
             /\ IF row[s0].state = "starting" THEN RowTo(s0, "ready") ELSE SameRows
    <3>1. CASE s = s0 /\ row[s0].state = "starting"
      <4>1. Readies(s0, s)
        BY <1>4, <2>2, <3>1 DEF Readies, OnlyRow, StartGoesOn, SameWatchers, RowTo
      <4> QED
        BY <1>1, <3>1, <4>1 DEF Event
    <3>2. CASE ~(s = s0 /\ row[s0].state = "starting")
      BY <2>2, <3>2 DEF Same, StartGoesOn, SameRows, RowTo, OtherRows
    <3> QED
      BY <3>1, <3>2
  <2>3. CASE OpensOn(s0)
    BY <1>2, <2>3 DEF OpensOn, StartGoesOn
  <2> QED
    BY <1>2, <1>4, <2>1, <2>2, <2>3 DEF OpeningDoes
<1>5. CASE OpeningEnds(s0)
  <2>1. CASE task[s0].pc \in OpeningPcs /\ (At(s0, "ready") => s0 \in cancelled) /\ HasDropped(s0)
    BY <1>3, <2>1
  <2> QED
    BY <1>2, <1>5, <2>1 DEF OpeningEnds, StartGoesOn
<1>6. CASE CleanupDoes(s0)
  <2>1. CASE /\ task[s0].pc \in {"unhandled", "mark"} /\ task'[s0] = IdleTask /\ Others(s0)
             /\ UNCHANGED <<tunnels, registry>> /\ Marked(s0)
             /\ cancelled' \in {cancelled, cancelled \ {s0}}
    <3>1. CASE s = s0 /\ Exists(s0)
      <4>1. SameWatchers
        BY <2>1, CalmTypes DEF SameWatchers
      <4>2. Fails(s0, s)
        BY <2>1, <3>1, <4>1 DEF Fails, Marked, OnlyRow, RowTo
      <4> QED
        BY <1>1, <3>1, <4>2 DEF Event
    <3>2. CASE ~(s = s0 /\ Exists(s0))
      BY <2>1, <3>2 DEF Same, Marked, SameRows, RowTo, OtherRows
    <3> QED
      BY <3>1, <3>2
  <2>2. CASE At(s0, "ready_read") /\ HasDropped(s0)
    BY <1>3, <2>2 DEF At
  <2>3. CASE /\ At(s0, "undo_conn") /\ From(s0, task[s0], "mark") /\ Others(s0)
             /\ task'[s0].c = None
             /\ UNCHANGED <<row, registry, cancelled>>
             /\ Keep(s0, [task[s0].old EXCEPT !.c = task[s0].c, !.watched = FALSE])
             /\ "close" \in Faults
    <3> DEFINE x == [task[s0].old EXCEPT !.c = task[s0].c, !.watched = FALSE]
    <3>1. x.c = task[s0].c /\ ~x.watched
      <4>1. task[s0].old \in Tunnel
        BY CalmTypes, CalmFacts, TaskFacts
      <4> QED
        BY <4>1 DEF Tunnel
    <3> HIDE DEF x
    <3>2. registry[s0] = None
      BY <1>1, <2>3 DEF Opening, At
    <3>3. CASE s = s0
      <4>1. Retains(s0, s)
        BY <2>3, <3>1, <3>2, <3>3 DEF Retains, KeepPcs, SameRow, SameWatchers, x, From, At
      <4> QED
        BY <1>1, <3>3, <4>1 DEF Event
    <3>4. CASE s # s0
      BY <2>3, <3>4, Elsewhere DEF Same, SameRow
    <3> QED
      BY <3>3, <3>4
  <2> QED
    BY <1>2, <1>6, <2>1, <2>2, <2>3 DEF CleanupDoes, StartGoesOn, At
<1> QED
  BY <1>4, <1>5, <1>6 DEF StartDoes

LEMMA WatchEvents ==
  ASSUME CalmStep, NEW c \in Conn, WatchDoes(c), NEW s \in Sid
  PROVE  Same(s) \/ Event(c, s)
<1> DEFINE s0 == task[c].sid
<1>1. Others(c) /\ (WatcherDies(c) \/ WatcherGoesOn(c) \/ WatcherLeaves(c) \/ WatcherMends(c))
  BY DEF WatchDoes
<1>2. c \in Task /\ (task[c].pc \in {"lost_checks", "exit_checks", "close_lost"} => s0 \in Sid)
  BY CalmFacts, CalmTypes, TaskFacts
<1>3. task[c].pc \in {"lost_checks", "exit_checks", "close_lost"} => Works(c, s0)
  BY DEF Works, Holding
<1>4. CASE UNCHANGED <<tunnels, registry>> /\ (UNCHANGED row \/ SameRows)
  BY <1>4 DEF Same, SameRow, SameRows
<1>5. CASE /\ At(c, "lost_checks") /\ c \notin cancelled /\ task'[c] = IdleTask
           /\ Marked(s0) /\ UNCHANGED <<tunnels, registry, cancelled>>
  <2>1. CASE s = s0 /\ Exists(s0)
    <3>1. Fails(c, s)
      BY <1>1, <1>5, <2>1 DEF Fails, Marked, OnlyRow, SameWatchers, RowTo
    <3> QED
      BY <1>3, <1>5, <2>1, <3>1 DEF Event, At
  <2>2. CASE ~(s = s0 /\ Exists(s0))
    BY <1>5, <2>2 DEF Same, Marked, SameRows, RowTo, OtherRows
  <2> QED
    BY <2>1, <2>2
<1>6. CASE /\ At(c, "exit_checks") /\ From(c, task[c], "close_lost") /\ c \notin cancelled
           /\ ~GoneOrStopping(task[c].rec) /\ tunnels[s0].c = c /\ UNCHANGED <<row, cancelled>>
           /\ task'[c].c = c /\ task'[c].old = tunnels[s0] /\ Unpublished(s0) /\ Keep(s0, NoTunnel)
  <2>1. CASE s = s0
    <3>1. TakesDown(c, s)
      BY <1>1, <1>6, <2>1 DEF TakesDown
    <3> QED
      BY <1>3, <1>6, <2>1, <3>1 DEF Event, At
  <2>2. CASE s # s0
    BY <1>2, <1>6, <2>2, Elsewhere DEF Same, SameRow, At
  <2> QED
    BY <2>1, <2>2
<1>7. CASE /\ At(c, "close_lost") /\ From(c, task[c], "attempt") /\ task'[c].c = None
           /\ UNCHANGED <<row, registry, cancelled>> /\ Keep(s0, task[c].old)
           /\ "close" \in Faults
  <2>1. task[c].c = c /\ task[c].old.c = c /\ registry[s0] = None
    BY <1>7, CalmFacts DEF ClaimsDiffer
  <2>2. CASE s = s0
    <3>1. Retains(c, s)
      BY <1>1, <1>7, <2>1, <2>2 DEF Retains, KeepPcs, SameRow, SameWatchers, From, At
    <3> QED
      BY <1>3, <1>7, <2>2, <3>1 DEF Event, At
  <2>3. CASE s # s0
    BY <1>2, <1>7, <2>3, Elsewhere DEF Same, SameRow, At
  <2> QED
    BY <2>2, <2>3
<1>8. CASE WatcherMends(c)
  BY <1>4, <1>6, <1>7, <1>8 DEF WatcherMends
<1>9. CASE WatcherLeaves(c)
  BY <1>4, <1>5, <1>9 DEF WatcherLeaves
<1> QED
  BY <1>1, <1>4, <1>8, <1>9 DEF WatcherDies, WatcherGoesOn

\* The row recovery is at work on, and what it may count on.
LEMMA BootWorks ==
  ASSUME CalmStep, task[Boot].pc \in {"reattach", "check_closing", "check_remote", "check_done",
                                      "drop", "dropped", "clear_lost", "mark_lost"}
  PROVE  LET s == task[Boot].sid IN
         s \in Sid /\ s \in unrecovered /\ registry[s] = None /\ Works(Boot, s)
<1>1. task[Boot].sid \in Sid
  BY CalmFacts, CalmTypes, TaskFacts
<1>2. task[Boot].sid \in unrecovered /\ registry[task[Boot].sid] = None
  BY <1>1, CalmFacts, CalmTypes DEF RecoveryStartsClean, At
<1> QED
  BY <1>1, <1>2 DEF Works, Holding

LEMMA RecoveryEvents ==
  ASSUME CalmStep, RecoveryDoes, NEW s \in Sid
  PROVE  Same(s) \/ Event(Boot, s)
<1> DEFINE s0 == task[Boot].sid
<1>1. Others(Boot) /\ cancelled' = cancelled
  BY DEF RecoveryDoes
<1>2. task[Boot].pc \in {"check_done", "drop", "mark_lost"} =>
        s0 \in Sid /\ registry[s0] = None /\ Works(Boot, s0)
  BY BootWorks
<1>3. CASE UNCHANGED <<tunnels, registry>> /\ (UNCHANGED row \/ SameRows)
  BY <1>3 DEF Same, SameRow, SameRows
<1>4. CASE At(Boot, "drop") /\ UNCHANGED <<tunnels, registry>> /\ row'[s0] = NoRow /\ OtherRows(s0)
  <2>1. CASE s = s0
    <3>1. Deletes(Boot, s)
      BY <1>1, <1>4, <2>1, CalmTypes DEF Deletes, OnlyRow, SameWatchers, At
    <3> QED
      BY <1>2, <1>4, <2>1, <3>1 DEF Event, At
  <2>2. CASE s # s0
    BY <1>4, <2>2 DEF Same, OtherRows
  <2> QED
    BY <2>1, <2>2
<1>5. CASE At(Boot, "mark_lost") /\ UNCHANGED <<tunnels, registry>> /\ Marked(s0)
  <2>1. CASE s = s0 /\ Exists(s0)
    <3>1. Fails(Boot, s)
      BY <1>1, <1>5, <2>1, CalmTypes DEF Fails, Marked, OnlyRow, SameWatchers, RowTo, At
    <3> QED
      BY <1>2, <1>5, <2>1, <3>1 DEF Event, At
  <2>2. CASE ~(s = s0 /\ Exists(s0))
    BY <1>5, <2>2 DEF Same, Marked, SameRows, RowTo, OtherRows
  <2> QED
    BY <2>1, <2>2
<1>6. CASE /\ At(Boot, "check_done") /\ task'[Boot] = NextRowTask /\ UNCHANGED <<row, registry>>
           /\ Keep(s0, [NoTunnel EXCEPT !.c = task[Boot].c]) /\ "close" \in Faults
  <2> DEFINE x == [NoTunnel EXCEPT !.c = task[Boot].c]
  <2>1. x.c = task[Boot].c /\ ~x.watched
    BY DEF NoTunnel
  <2> HIDE DEF x
  <2>2. s0 \in Sid /\ registry[s0] = None /\ Works(Boot, s0) /\ task'[Boot].c = None
    BY <1>2, <1>6, RestingFields DEF At
  <2>3. CASE s = s0
    <3>1. Retains(Boot, s)
      BY <1>1, <1>6, <2>1, <2>2, <2>3, RestingFields DEF Retains, KeepPcs, SameRow, SameWatchers, x, At
    <3> QED
      BY <2>2, <2>3, <3>1 DEF Event
  <2>4. CASE s # s0
    BY <1>6, <2>2, <2>4, Elsewhere DEF Same, SameRow
  <2> QED
    BY <2>3, <2>4
<1>7. CASE RecoveryTurns
  BY <1>3, <1>7 DEF RecoveryTurns
<1>8. CASE RecoveryWorks
  BY <1>3, <1>4, <1>8 DEF RecoveryWorks
<1>9. CASE RecoveryLeaves
  BY <1>3, <1>5, <1>6, <1>9 DEF RecoveryLeaves
<1> QED
  BY <1>3, <1>7, <1>8, <1>9 DEF RecoveryDoes

\* The shape of every step.
LEMMA StepEvents ==
  ASSUME CalmStep, NEW s \in Sid
  PROVE  Same(s) \/ \E u \in Task : Event(u, s)
<1>1. CASE Still
  BY <1>1 DEF Still, Same, SameRow
<1>2. ASSUME NEW t \in Task, Acts(t)
      PROVE  Same(s) \/ Event(t, s)
  BY <1>2, OpEvents, CloseEvents, AttemptEvents, StartEvents, WatchEvents, RecoveryEvents DEF Acts
<1> QED
  BY <1>1, <1>2, StepIs

-----------------------------------------------------------------------------
(***************************************************************************)
(* What a step does to the tasks.                                          *)
(***************************************************************************)
\* A watcher is created for the tunnel just installed; a start task by its open.
Born(c) ==
  /\ c \in Conn /\ At(c, "idle")
  /\ \E u \in Task \ {c} :
       /\ task[u].c = c /\ task[u].sid \in Sid /\ task'[c] = Watcher(task[u].sid)
       /\ Publishes(u, task[u].sid) \/ Installs(u, task[u].sid)
Started(s) == s \in Sid /\ \E o \in Op : StartsOpening(o) /\ task[o].sid = s

LEMMA OpMoves ==
  ASSUME CalmStep, NEW o \in Op, OpDoes(o), NEW u \in Task \ {o}
  PROVE  task'[u] = task[u] \/ Started(u)
<1>1. CASE StartsOpening(o)
  BY <1>1 DEF StartsOpening, Started
<1>2. CASE ~StartsOpening(o)
  <2>1. Others(o)
    BY <1>2 DEF OpDoes, Arrives, LooksUp, Answers, InsertsRow, RemovesRow, AsksStop, SettlesStart,
                BeginsClosing, BeginsRetry, Alone, HasBegun, HasRaised
  <2> QED
    BY <2>1 DEF Others
<1> QED
  BY <1>1, <1>2

LEMMA OtherMoves ==
  ASSUME CalmStep, NEW t \in Task, NEW u \in Task \ {t}
  PROVE  /\ CloseDoes(t) => task'[u] = task[u]
         /\ t \in Conn /\ WatchDoes(t) => task'[u] = task[u]
         /\ t = Boot /\ RecoveryDoes => task'[u] = task[u]
         /\ AttemptDoes(t) /\ ~Births(t) => task'[u] = task[u]
         /\ StartDoes(t) /\ ~Births(t) => task'[u] = task[u]
<1>1. CloseDoes(t) => Others(t)
  BY DEF CloseDoes, CloseGoesOn, HasReturned
<1>2. WatchDoes(t) => Others(t)
  BY DEF WatchDoes
<1>3. t = Boot /\ RecoveryDoes => Others(t)
  BY DEF RecoveryDoes
<1>4. AttemptDoes(t) /\ ~Births(t) => Others(t)
  BY DEF AttemptDoes, AttemptOn, HasRaised, HasBegun
<1>5. OpeningDoes(t) /\ ~Births(t) => Others(t)
  BY DEF OpeningDoes, OpensOn, StartGoesOn
<1>6. OpeningEnds(t) \/ CleanupDoes(t) => Others(t)
  BY DEF OpeningEnds, CleanupDoes, StartGoesOn, HasDropped
<1> QED
  BY <1>1, <1>2, <1>3, <1>4, <1>5, <1>6 DEF Others, StartDoes

LEMMA TaskMoves ==
  ASSUME CalmStep, NEW u \in Task
  PROVE  task'[u] = task[u] \/ Acts(u) \/ Born(u) \/ Started(u)
<1>1. CASE Still
  BY <1>1 DEF Still
<1>2. ASSUME NEW t \in Task, Acts(t), t # u, task'[u] # task[u]
      PROVE  Born(u) \/ Started(u)
  <2>1. CASE t \in Op /\ OpDoes(t)
    BY <1>2, <2>1, OpMoves
  <2>2. CASE Births(t) /\ t \in Closers \cup Conn /\ AttemptDoes(t) /\ cancelled' = cancelled
             /\ t \notin cancelled
    <3>1. task[t].c \in Conn /\ u = task[t].c /\ task'[u] = Watcher(task[t].sid) /\ At(u, "idle")
      BY <1>2, <2>2 DEF Births, At
    <3>2. At(t, "commit") /\ Installs(t, task[t].sid)
      <4>1. ~Others(t)
        BY <1>2 DEF Others
      <4>2. /\ At(t, "commit") /\ From(t, task[t], "installed") /\ task'[t].c = None
            /\ Keep(task[t].sid, LiveTunnel(task[t].c)) /\ Published(task[t].sid, task[t].c)
            /\ UNCHANGED <<row, unrecovered>>
        BY <2>2, <4>1 DEF AttemptDoes, AttemptOn, HasRaised, HasBegun
      <4> QED
        BY <2>2, <4>2 DEF Installs
    <3>3. task[t].sid \in Sid
      BY <3>2, CalmFacts, TaskFacts DEF At
    <3> QED
      BY <1>2, <3>1, <3>2, <3>3 DEF Born
  <2>3. CASE Births(t) /\ t \in Sid /\ Active(t) /\ StartDoes(t)
    <3>1. task[t].c \in Conn /\ u = task[t].c /\ task'[u] = Watcher(task[t].sid) /\ At(u, "idle")
      BY <1>2, <2>3 DEF Births, At
    <3>2. task[t].sid = t
      BY <2>3, CalmFacts DEF OpeningIsAlone, Opening
    <3>3. Publishes(t, t)
      <4>1. ~Others(t)
        BY <1>2 DEF Others
      <4>2. OpeningDoes(t) /\ t \notin cancelled /\ cancelled' = cancelled
        BY <2>3, <4>1 DEF StartDoes, OpeningEnds, CleanupDoes, StartGoesOn, HasDropped
      <4>3. /\ At(t, "tunnel") /\ From(t, task[t], "verify") /\ task'[t].c = task[t].c /\ Births(t)
            /\ UNCHANGED row /\ Keep(t, LiveTunnel(task[t].c)) /\ Published(t, task[t].c)
        BY <4>1, <4>2 DEF OpeningDoes, OpensOn, StartGoesOn
      <4> QED
        BY <4>2, <4>3 DEF Publishes
    <3> QED
      BY <1>2, <2>3, <3>1, <3>2, <3>3 DEF Born
  <2> QED
    BY <1>2, <2>1, <2>2, <2>3, OtherMoves DEF Acts
<1> QED
  BY <1>1, <1>2, StepIs

\* Watchers are cancelled with the tunnel they watch, and end by it.
LEMMA Cancels ==
  ASSUME CalmStep, NEW c \in Conn
  PROVE  /\ c \in cancelled' /\ c \notin cancelled =>
              \E s \in Sid : /\ c \in WatcherOf(tunnels[s]) /\ tunnels'[s] = NoTunnel
                             /\ task'[c] = task[c]
         /\ c \in cancelled /\ c \notin cancelled' => task'[c] = IdleTask
<1> DEFINE New == c \in cancelled' /\ c \notin cancelled =>
          \E s \in Sid : /\ c \in WatcherOf(tunnels[s]) /\ tunnels'[s] = NoTunnel
          /\ task'[c] = task[c]
<1> DEFINE Old == c \in cancelled /\ c \notin cancelled' => task'[c] = IdleTask
<1>1. Still => New /\ Old
  BY DEF Still
<1>2. ASSUME NEW t \in Task, Acts(t)
      PROVE  New /\ Old
  <2>1. CASE t \in Op /\ OpDoes(t)
    <3>1. cancelled' = cancelled \/ (t \in Op /\ SettlesStart(t))
      BY <2>1 DEF OpDoes, Arrives, LooksUp, Answers, InsertsRow, RemovesRow, AsksStop, StartsOpening,
                  BeginsClosing, BeginsRetry, Alone
    <3>2. SettlesStart(t) => cancelled' = cancelled \cup {task[t].sid} /\ task[t].sid \in Sid
      BY CalmFacts, TaskFacts DEF SettlesStart, At
    <3> QED
      BY <3>1, <3>2, CalmTypes
  <2>2. CASE t \in Closers /\ CloseDoes(t)
    <3>1. CASE cancelled' = cancelled
      BY <3>1
    <3>2. CASE cancelled' # cancelled
      <4>1. /\ At(t, "fresh") /\ Others(t) /\ Keep(task[t].sid, NoTunnel)
            /\ cancelled' = cancelled \cup WatcherOf(tunnels[task[t].sid])
        BY <2>2, <3>2 DEF CloseDoes, CloseGoesOn, Kept
      <4>2. task[t].sid \in Sid /\ c # t
        BY <2>2, <4>1, CalmFacts, CalmTypes, TaskFacts DEF At
      <4>3. tunnels'[task[t].sid] = NoTunnel
        BY <4>1, <4>2, Elsewhere
      <4> QED
        BY <4>1, <4>2, <4>3, CalmTypes DEF Others
    <3> QED
      BY <3>1, <3>2
  <2>3. CASE t \in Sid /\ Active(t) /\ StartDoes(t)
    <3>1. CASE cancelled' \in {cancelled, cancelled \ {t}}
      BY <2>3, <3>1, CalmTypes
    <3>2. CASE cancelled' \notin {cancelled, cancelled \ {t}}
      <4>1. HasDropped(t)
        BY <2>3, <3>2 DEF StartDoes, OpeningEnds, CleanupDoes
      <4>2. Others(t) /\ Keep(t, NoTunnel) /\ cancelled' = (cancelled \ {t}) \cup WatcherOf(tunnels[t])
        BY <4>1 DEF HasDropped
      <4>3. tunnels'[t] = NoTunnel
        BY <2>3, <4>2, Elsewhere
      <4> QED
        BY <2>3, <4>2, <4>3, CalmTypes DEF Others
    <3> QED
      BY <3>1, <3>2
  <2>4. CASE t \in Conn /\ WatchDoes(t)
    BY <2>4 DEF WatchDoes, WatcherDies, WatcherGoesOn, WatcherLeaves, WatcherMends
  <2>5. CASE t = Boot /\ RecoveryDoes
    BY <2>5 DEF RecoveryDoes
  <2> QED
    BY <1>2, <2>1, <2>2, <2>3, <2>4, <2>5 DEF Acts
<1> HIDE DEF New, Old
<1>3. New /\ Old
  BY <1>1, <1>2, StepIs
<1> QED
  BY <1>3 DEF New, Old

\* A start task is cancelled by a close that awaits it, and is told at its next await.
LEMMA StartCancels ==
  ASSUME CalmStep, NEW s \in Sid
  PROVE  /\ s \in cancelled' /\ s \notin cancelled =>
              \E o \in Op : SettlesStart(o) /\ task[o].sid = s
         /\ s \in cancelled /\ s \notin cancelled' => task'[s].pc \notin OpeningPcs
<1> DEFINE New == s \in cancelled' /\ s \notin cancelled =>
          \E o \in Op : SettlesStart(o) /\ task[o].sid = s
<1> DEFINE Old == s \in cancelled /\ s \notin cancelled' => task'[s].pc \notin OpeningPcs
<1>1. Still => New /\ Old
  BY DEF Still
<1>2. ASSUME NEW t \in Task, Acts(t)
      PROVE  New /\ Old
  <2>1. CASE t \in Op /\ OpDoes(t)
    <3>1. cancelled' = cancelled \/ (t \in Op /\ SettlesStart(t))
      BY <2>1 DEF OpDoes, Arrives, LooksUp, Answers, InsertsRow, RemovesRow, AsksStop, StartsOpening,
                  BeginsClosing, BeginsRetry, Alone
    <3>2. SettlesStart(t) => cancelled' = cancelled \cup {task[t].sid}
      BY DEF SettlesStart
    <3> QED
      BY <3>1, <3>2
  <2>2. CASE t \in Closers /\ CloseDoes(t)
    <3>1. cancelled' = cancelled \/ cancelled' = cancelled \cup WatcherOf(tunnels[task[t].sid])
      BY <2>2 DEF CloseDoes, CloseGoesOn, Kept
    <3> QED
      BY <3>1, WatchersAreConns, CalmTypes
  <2>3. CASE t \in Sid /\ Active(t) /\ StartDoes(t)
    <3>1. s \in cancelled' => s \in cancelled
      <4>1. HasDropped(t) => cancelled' = (cancelled \ {t}) \cup WatcherOf(tunnels[t])
        BY DEF HasDropped
      <4>2. cancelled' \in {cancelled, cancelled \ {t}} \/ HasDropped(t)
        BY <2>3 DEF StartDoes, OpeningEnds, CleanupDoes
      <4> QED
        BY <4>1, <4>2, WatchersAreConns, CalmTypes
    <3>2. s \in cancelled /\ s \notin cancelled' => s = t
      <4>1. HasDropped(t) => cancelled' = (cancelled \ {t}) \cup WatcherOf(tunnels[t])
        BY DEF HasDropped
      <4>2. cancelled' \in {cancelled, cancelled \ {t}} \/ HasDropped(t)
        BY <2>3 DEF StartDoes, OpeningEnds, CleanupDoes
      <4> QED
        BY <4>1, <4>2
    <3>3. cancelled' = cancelled \/ task'[t].pc \notin OpeningPcs
      BY <2>3, RestingFields DEF StartDoes, OpeningEnds, CleanupDoes, HasDropped, From, OpeningPcs
    <3> QED
      BY <3>1, <3>2, <3>3
  <2>4. CASE t \in Conn /\ WatchDoes(t)
    BY <2>4, CalmTypes DEF WatchDoes, WatcherDies, WatcherGoesOn, WatcherLeaves, WatcherMends
  <2>5. CASE t = Boot /\ RecoveryDoes
    BY <2>5 DEF RecoveryDoes
  <2> QED
    BY <1>2, <2>1, <2>2, <2>3, <2>4, <2>5 DEF Acts
<1> HIDE DEF New, Old
<1>3. New /\ Old
  BY <1>1, <1>2, StepIs
<1> QED
  BY <1>3 DEF New, Old

\* A watcher's own steps: within an attempt to reattach, and outside of it.
LEMMA WatcherRepairs ==
  ASSUME CalmStep, NEW c \in Conn, AttemptDoes(c)
  PROVE  /\ task[c].pc \in LostPcs
         /\ \/ task'[c].sid = task[c].sid /\ task'[c].pc \in LostPcs
            \/ At(c, "installed") /\ task'[c] = IdleTask /\ UNCHANGED <<row, tunnels, registry>>
<1>1. Active(c) => task[c].kind = "watch"
  BY CalmFacts, CalmTypes, PcKinds
<1>2. task[c].pc \in ReattachPcs \cup {"backoff"}
  BY DEF AttemptDoes, AttemptOn, At, ReattachPcs
<1>3. task[c].kind = "watch" /\ c # Boot
  BY <1>1, <1>2, CalmTypes, ServiceAssumption DEF Active, ReattachPcs
<1>4. HasRaised(c, task[c]) => Others(c) /\ task'[c].sid = task[c].sid /\ task'[c].pc \in LostPcs
  BY <1>3 DEF HasRaised, From, LostPcs
<1>5. AttemptOn(c) => Others(c) /\ task'[c].sid = task[c].sid /\ task'[c].pc \in LostPcs
  BY DEF AttemptOn, From, LostPcs, ReattachPcs
<1> QED
  BY <1>2, <1>3, <1>4, <1>5 DEF AttemptDoes, From, LostPcs, ReattachPcs

LEMMA WatcherPosts ==
  ASSUME CalmStep, NEW c \in Conn, WatchDoes(c)
  PROVE  \/ c \in cancelled /\ task'[c] = IdleTask
         \/ /\ c \notin cancelled /\ task'[c].sid = task[c].sid /\ UNCHANGED <<row, tunnels, registry>>
            /\ task[c].pc \in EarlyPcs /\ task'[c].pc \in EarlyPcs
         \/ task'[c].sid = task[c].sid /\ task[c].pc \in LostPcs /\ task'[c].pc \in LostPcs
         \/ TakesDown(c, task[c].sid)
         \/ WatcherLeaves(c)
<1>1. WatcherGoesOn(c) => /\ c \notin cancelled /\ task'[c].sid = task[c].sid
                          /\ UNCHANGED <<row, tunnels, registry>>
                          /\ \/ task[c].pc \in EarlyPcs /\ task'[c].pc \in EarlyPcs
                             \/ task[c].pc \in LostPcs /\ task'[c].pc \in LostPcs
  BY DEF WatcherGoesOn, EarlyPcs, LostPcs, At
<1>2. CASE WatcherMends(c)
  <2>1. CASE At(c, "exit_checks")
    BY <1>2, <2>1 DEF WatcherMends, TakesDown, At, WatchDoes
  <2>2. CASE At(c, "close_lost")
    BY <1>2, <2>2 DEF WatcherMends, At, From, LostPcs
  <2>3. CASE At(c, "attempt_checks")
    <3>1. task[c].kind = "watch" /\ c # Boot
      BY <2>3, CalmFacts, CalmTypes, PcKinds, ServiceAssumption DEF At, Active
    <3>2. HasRaised(c, task[c]) => task'[c].sid = task[c].sid /\ task'[c].pc \in LostPcs
      BY <3>1 DEF HasRaised, From, LostPcs
    <3>3. HasBegun(c, task[c]) => task'[c].sid = task[c].sid /\ task'[c].pc \in LostPcs
      BY <3>2 DEF HasBegun, From, LostPcs, ReattachPcs
    <3> QED
      BY <1>2, <2>3, <3>2, <3>3 DEF WatcherMends, LostPcs, At
  <2> QED
    BY <1>2, <2>1, <2>2, <2>3 DEF WatcherMends
<1> QED
  BY <1>1, <1>2 DEF WatchDoes, WatcherDies

\* A watcher cancelled by this step watches the tunnel that goes.
LEMMA CancelledWatch ==
  ASSUME CalmStep, NEW c \in Conn, c \in cancelled', c \notin cancelled
  PROVE  LET s == task[c].sid IN
         /\ s \in Sid /\ Active(c) /\ tunnels[s].c = c /\ tunnels[s].watched
         /\ tunnels'[s] = NoTunnel /\ task'[c] = task[c]
<1>1. PICK s \in Sid : /\ c \in WatcherOf(tunnels[s]) /\ tunnels'[s] = NoTunnel
                       /\ task'[c] = task[c]
  BY Cancels
<1>2. tunnels[s].c = c /\ tunnels[s].watched /\ Active(c)
  BY <1>1 DEF WatcherOf
<1>3. task[c].sid = s
  BY <1>2, CalmFacts DEF ClaimsDiffer
<1> QED
  BY <1>1, <1>2, <1>3

\* Watchers take their post when a port is published, and begin repair work when
\* they have taken it down.
LEMMA GuardBegins ==
  ASSUME CalmStep, NEW s \in Sid, NEW c \in Conn, Guards(c, s)'
  PROVE  Guards(c, s) \/ \E u \in Task : task[u].c = c /\ (Publishes(u, s) \/ Installs(u, s))
<1>1. task'[c].sid = s /\ task'[c].pc \in EarlyPcs /\ c \notin cancelled'
  BY DEF Guards
<1>2. task'[c] # IdleTask
  BY <1>1, RestingFields DEF EarlyPcs
<1>3. c \notin cancelled
  BY <1>1, <1>2, Cancels
<1>4. CASE task'[c] = task[c]
  BY <1>1, <1>3, <1>4 DEF Guards
<1>5. CASE AttemptDoes(c)
  BY <1>1, <1>2, <1>5, WatcherRepairs DEF EarlyPcs, LostPcs, ReattachPcs
<1>6. CASE WatchDoes(c)
  <2>1. ~WatcherLeaves(c)
    BY <1>2 DEF WatcherLeaves
  <2>2. ~TakesDown(c, task[c].sid)
    BY <1>1 DEF TakesDown, From, EarlyPcs
  <2> QED
    BY <1>1, <1>2, <1>3, <1>6, <2>1, <2>2, WatcherPosts DEF Guards, EarlyPcs, LostPcs, ReattachPcs
<1>7. CASE Born(c)
  BY <1>1, <1>7, RestingFields DEF Born
<1>8. Acts(c) => AttemptDoes(c) \/ WatchDoes(c)
  BY CalmTypes, ServiceAssumption DEF Acts, Closers
<1>9. ~Started(c)
  BY CalmTypes DEF Started
<1> QED
  BY <1>4, <1>5, <1>6, <1>7, <1>8, <1>9, CalmTypes, TaskMoves

LEMMA RepairBegins ==
  ASSUME CalmStep, NEW s \in Sid, NEW c \in Conn, Repairs(c, s)'
  PROVE  Repairs(c, s) \/ TakesDown(c, s)
<1>1. task'[c].sid = s /\ task'[c].pc \in LostPcs /\ c \notin cancelled'
  BY DEF Repairs
<1>2. task'[c] # IdleTask
  BY <1>1, RestingFields DEF LostPcs, ReattachPcs
<1>3. c \notin cancelled
  BY <1>1, <1>2, Cancels
<1>4. CASE task'[c] = task[c]
  BY <1>1, <1>3, <1>4 DEF Repairs
<1>5. CASE AttemptDoes(c)
  BY <1>1, <1>2, <1>3, <1>5, WatcherRepairs DEF Repairs, LostPcs
<1>6. CASE WatchDoes(c)
  <2>1. ~WatcherLeaves(c)
    BY <1>2 DEF WatcherLeaves
  <2>2. TakesDown(c, task[c].sid) => task[c].sid = s
    BY <1>1 DEF TakesDown, From
  <2> QED
    BY <1>1, <1>2, <1>3, <1>6, <2>1, <2>2, WatcherPosts DEF Repairs, EarlyPcs, LostPcs, ReattachPcs
<1>7. ~Born(c)
  BY <1>1, RestingFields DEF Born, LostPcs, ReattachPcs
<1>8. Acts(c) => AttemptDoes(c) \/ WatchDoes(c)
  BY CalmTypes, ServiceAssumption DEF Acts, Closers
<1>9. ~Started(c)
  BY CalmTypes DEF Started
<1> QED
  BY <1>4, <1>5, <1>6, <1>7, <1>8, <1>9, CalmTypes, TaskMoves

\* They leave either when cancelled with their tunnel, or by what they read.
CutOff(c, s) ==
  tunnels[s].c = c /\ tunnels[s].watched /\ tunnels'[s] = NoTunnel /\ task'[c] = task[c]

LEMMA GuardEnds ==
  ASSUME CalmStep, NEW s \in Sid, NEW c \in Conn, Guards(c, s)
  PROVE  Guards(c, s)' \/ CutOff(c, s) \/ TakesDown(c, s) \/ WatcherLeaves(c)
<1>1. task[c].sid = s /\ task[c].pc \in EarlyPcs /\ c \notin cancelled
  BY DEF Guards
<1>2. CASE c \in cancelled'
  BY <1>1, <1>2, CancelledWatch DEF CutOff
<1>3. CASE c \notin cancelled'
  <2>1. CASE task'[c] = task[c]
    BY <1>1, <1>3, <2>1 DEF Guards
  <2>2. ~AttemptDoes(c)
    BY <1>1, WatcherRepairs DEF EarlyPcs, LostPcs, ReattachPcs, At, AttemptDoes, AttemptOn
  <2>3. CASE WatchDoes(c)
    BY <1>1, <1>3, <2>3, WatcherPosts DEF Guards, EarlyPcs, LostPcs, ReattachPcs
  <2>4. ~Born(c)
    BY <1>1 DEF Born, EarlyPcs, At
  <2>5. Acts(c) => AttemptDoes(c) \/ WatchDoes(c)
    BY CalmTypes, ServiceAssumption DEF Acts, Closers
  <2>6. ~Started(c)
    BY CalmTypes DEF Started
  <2> QED
    BY <2>1, <2>2, <2>3, <2>4, <2>5, <2>6, CalmTypes, TaskMoves
<1> QED
  BY <1>2, <1>3

LEMMA RepairEnds ==
  ASSUME CalmStep, NEW s \in Sid, NEW c \in Conn, Repairs(c, s)
  PROVE  \/ Repairs(c, s)' \/ CutOff(c, s) \/ WatcherLeaves(c)
         \/ At(c, "installed") /\ UNCHANGED <<row, tunnels, registry>>
<1>1. task[c].sid = s /\ task[c].pc \in LostPcs /\ c \notin cancelled
  BY DEF Repairs
<1>2. CASE c \in cancelled'
  BY <1>1, <1>2, CancelledWatch DEF CutOff
<1>3. CASE c \notin cancelled'
  <2>1. CASE task'[c] = task[c]
    BY <1>1, <1>3, <2>1 DEF Repairs
  <2>2. CASE AttemptDoes(c)
    BY <1>1, <1>3, <2>2, WatcherRepairs DEF Repairs
  <2>3. CASE WatchDoes(c)
    <3>1. ~TakesDown(c, task[c].sid)
      BY <1>1 DEF TakesDown, LostPcs, ReattachPcs, At
    <3> QED
      BY <1>1, <1>3, <2>3, <3>1, WatcherPosts DEF Repairs, EarlyPcs, LostPcs, ReattachPcs
  <2>4. ~Born(c)
    BY <1>1 DEF Born, LostPcs, ReattachPcs, At
  <2>5. Acts(c) => AttemptDoes(c) \/ WatchDoes(c)
    BY CalmTypes, ServiceAssumption DEF Acts, Closers
  <2>6. ~Started(c)
    BY CalmTypes DEF Started
  <2> QED
    BY <2>1, <2>2, <2>3, <2>4, <2>5, <2>6, CalmTypes, TaskMoves
<1> QED
  BY <1>2, <1>3

\* A row just inserted is unknown to every task and has nothing installed.
LEMMA InsertsAreNew ==
  ASSUME CalmStep, NEW u \in Task, NEW s \in Sid, Inserts(u, s)
  PROVE  /\ ~Exists(s) /\ registry[s] = None /\ tunnels[s] = NoTunnel /\ ~Active(s)
         /\ \A t \in Task : task[t].sid # s
         /\ Others(u) /\ UNCHANGED <<tunnels, registry, cancelled, unrecovered>> /\ u \in Op
         /\ row'[s].state = "starting" /\ ~row'[s].close_reason
         /\ row'[s].alias = task'[u].alias /\ At(u, "looked_up") /\ task'[u].pc = "inserted"
BY DEF Inserts, InsertsRow, FreeSid

\* No other task works on the session of an attempt to reattach.
LEMMA AttemptLocks ==
  ASSUME CalmStep, NEW t \in Task, task[t].pc \in ReattachPcs, NEW u \in Task,
         Works(u, task[t].sid)
  PROVE  u = t
<1> DEFINE s == task[t].sid
<1>1. s \in Sid /\ Standing(s) /\ Holding(task[t]) /\ s # None
  BY CalmFacts, CalmTypes, PcKinds DEF AttemptIsAlone, Holding
<1>2. ~Active(s)
  <2>1. CASE t \in Op
    BY <2>1, CalmFacts DEF Settled, SettledPcs
  <2>2. CASE t = Boot
    BY <1>1, <2>2, CalmFacts DEF Settled, Active, ReattachPcs
  <2>3. CASE t \in Conn
    BY <1>1, <2>3, CalmFacts DEF OpeningIsAlone, Opening, At, ReattachPcs
  <2>4. t \notin Sid
    BY CalmFacts, PcKinds
  <2> QED
    BY <2>1, <2>2, <2>3, <2>4 DEF Task
<1>3. CASE task[u].sid = s /\ Holding(task[u])
  BY <1>1, <1>3, CalmFacts, OneWorker
<1>4. CASE u \in Op /\ task[u].kind \in {"close", "force"} /\ task[u].pc \in ClosePcs /\ task[u].sid = s
  BY <1>1, <1>4, CalmFacts DEF CloseIsKnown
<1> QED
  BY <1>2, <1>3, <1>4 DEF Works

\* A task that does not move during an attempt of its own finds its session as it was.
LEMMA AttemptSame ==
  ASSUME CalmStep, NEW t \in Task, task[t].pc \in ReattachPcs, task'[t] = task[t]
  PROVE  Same(task[t].sid)
<1> DEFINE s == task[t].sid
<1>1. s \in Sid /\ Standing(s) /\ t \notin Sid
  BY CalmFacts, PcKinds DEF AttemptIsAlone
<1>2. ASSUME NEW u \in Task, Inserts(u, s)
      PROVE  FALSE
  BY <1>1, <1>2, InsertsAreNew
<1>3. ASSUME NEW u \in Task, Works(u, s),
             \/ Asks(u, s) \/ Deletes(u, s) \/ Fails(u, s) \/ Readies(u, s) \/ Completes(u, s)
             \/ Shuts(u, s) \/ Empties(u, s) \/ Retains(u, s) \/ Publishes(u, s)
             \/ Installs(u, s) \/ Drops(u, s) \/ TakesDown(u, s)
      PROVE  FALSE
  <2>1. u = t
    BY <1>3, AttemptLocks
  <2>2. ~Shuts(u, s)
    BY <1>1 DEF Shuts
  <2>3. ~Retains(u, s)
    BY <2>1 DEF Retains
  <2>4. ~Asks(u, s) /\ ~Deletes(u, s) /\ ~Fails(u, s) /\ ~Empties(u, s) /\ ~TakesDown(u, s)
    BY <1>1, <2>1 DEF Asks, AsksStop, Deletes, Fails, Empties, TakesDown, At, ReattachPcs
  <2>5. ~Readies(u, s) /\ ~Publishes(u, s) /\ ~Drops(u, s)
    BY <1>1, <2>1 DEF Readies, Publishes, Drops
  <2>6. ~Completes(u, s) /\ ~Installs(u, s)
    BY <2>1 DEF Completes, Installs, From, At
  <2> QED
    BY <1>3, <2>2, <2>3, <2>4, <2>5, <2>6
<1> QED
  BY <1>1, <1>2, <1>3, StepEvents DEF Event

\* A port is published by the start task or by an attempt only.
LEMMA PortBegins ==
  ASSUME CalmStep, NEW s \in Sid, registry[s] = None, registry'[s] # None
  PROVE  \E u \in Task : Works(u, s) /\ (Publishes(u, s) \/ Installs(u, s))
<1>1. PICK u \in Task : Event(u, s)
  BY StepEvents DEF Same
<1>2. ~Inserts(u, s) /\ ~Asks(u, s) /\ ~Deletes(u, s) /\ ~Fails(u, s) /\ ~Readies(u, s)
      /\ ~Completes(u, s) /\ ~Empties(u, s) /\ ~Retains(u, s)
  BY DEF Inserts, InsertsRow, Asks, AsksStop, Deletes, Fails, Readies, Completes, OnlyRow,
         Empties, Retains
<1>3. ~Shuts(u, s) /\ ~Drops(u, s)
  BY DEF Shuts, Drops
<1>4. ~TakesDown(u, s)
  BY Elsewhere DEF TakesDown
<1> QED
  BY <1>1, <1>2, <1>3, <1>4 DEF Event

\* How the other tasks move.
LEMMA StartMoves ==
  ASSUME CalmStep, NEW s \in Sid
  PROVE  task'[s] = task[s] \/ (Active(s) /\ StartDoes(s)) \/ Started(s)
BY TaskMoves, CalmTypes, ServiceAssumption DEF Acts, Born, Closers

LEMMA OpTurns ==
  ASSUME CalmStep, NEW o \in Op
  PROVE  task'[o] = task[o] \/ OpDoes(o) \/ CloseDoes(o) \/ AttemptDoes(o)
BY TaskMoves, CalmTypes, ServiceAssumption DEF Acts, Born, Started

LEMMA StartOpens ==
  ASSUME CalmStep, NEW s \in Sid, task'[s].pc \in OpeningPcs
  PROVE  \/ task'[s] = task[s]
         \/ /\ OpeningDoes(s) /\ s \notin cancelled /\ cancelled' = cancelled
            /\ task[s].pc \in OpeningPcs
         \/ Started(s)
<1>1. CASE Active(s) /\ StartDoes(s)
  <2>1. ~OpeningEnds(s) /\ ~CleanupDoes(s)
    BY RestingFields DEF OpeningEnds, CleanupDoes, HasDropped, From, OpeningPcs
  <2> QED
    BY <1>1, <2>1 DEF StartDoes, OpeningDoes, OpensOn, OpeningPcs, At
<1> QED
  BY <1>1, StartMoves

\* A session whose start task was just created is known to its open only.
LEMMA StartedAlone ==
  ASSUME CalmStep, NEW s \in Sid, Started(s)
  PROVE  \E o \in Op : /\ StartsOpening(o) /\ task[o].sid = s /\ ~Active(s)
                       /\ \A p \in Op \ {o} : task[p].sid # s
                       /\ \A c \in Conn : task[c].sid # s
                       /\ registry[s] = None /\ tunnels[s] = NoTunnel /\ row[s].state = "starting"
<1>1. PICK o \in Op : StartsOpening(o) /\ task[o].sid = s
  BY DEF Started
<1>2. At(o, "inserted")
  BY <1>1 DEF StartsOpening
<1>3. ~Active(s) /\ \A p \in Op \ {o} : task[p].sid # s
  BY <1>1, <1>2, CalmFacts DEF Unlaunched, InsertsAlone
<1>4. NothingYet(s) /\ row[s].state = "starting"
  BY <1>1, <1>2, CalmFacts DEF OpeningIsAlone
<1> QED
  BY <1>1, <1>3, <1>4 DEF NothingYet

\* A close or an attempt at work goes on with its session, or ends.
LEMMA OpStays ==
  ASSUME CalmStep, NEW o \in Op, CloseDoes(o) \/ AttemptDoes(o)
  PROVE  \/ task'[o] = IdleTask
         \/ /\ task'[o].sid = task[o].sid /\ task'[o].kind = task[o].kind
            /\ task'[o].alias = task[o].alias
            /\ task[o].pc \in SettledPcs /\ task'[o].pc \in SettledPcs
<1>1. Suspended(task[o]) /\ o # Boot /\ o \notin Conn
  BY CalmFacts, CalmTypes, TaskFacts, ServiceAssumption
<1>2. CASE CloseDoes(o)
  <2>1. task[o].pc \in {"do_close"} \cup DoClosePcs
    BY <1>2 DEF CloseDoes, CloseGoesOn, DoClosePcs, At
  <2>2. CASE HasReturned(o)
    BY <1>1, <2>1, <2>2 DEF HasReturned, From, SettledPcs
  <2>3. CASE ~HasReturned(o)
    BY <1>2, <2>1, <2>3 DEF CloseDoes, CloseGoesOn, From, SettledPcs, DoClosePcs
  <2> QED
    BY <2>2, <2>3
<1>3. CASE AttemptDoes(o)
  <2>1. task[o].pc \in {"backoff"} \cup ReattachPcs
    BY <1>3 DEF AttemptDoes, AttemptOn, ReattachPcs, At
  <2>2. task[o].kind = "retry"
    <3>1. KindOK(o, task[o].kind)
      BY CalmFacts, CalmTypes, TaskFacts
    <3> QED
      BY <1>1, <2>1, <3>1, ServiceAssumption DEF Suspended, KindOK, ReattachPcs, ClosePcs, DoClosePcs, StartPcs
  <2>3. ASSUME NEW r, HasRaised(o, r), r.kind = "retry", r.sid = task[o].sid, r.alias = task[o].alias
        PROVE  \/ task'[o] = IdleTask
               \/ /\ task'[o].sid = task[o].sid /\ task'[o].kind = task[o].kind
                  /\ task'[o].alias = task[o].alias /\ task'[o].pc \in SettledPcs
    BY <2>2, <2>3 DEF HasRaised, From, SettledPcs, DoClosePcs
  <2>4. ASSUME NEW r, HasBegun(o, r), r.kind = "retry", r.sid = task[o].sid, r.alias = task[o].alias
        PROVE  \/ task'[o] = IdleTask
               \/ /\ task'[o].sid = task[o].sid /\ task'[o].kind = task[o].kind
                  /\ task'[o].alias = task[o].alias /\ task'[o].pc \in SettledPcs
    BY <2>2, <2>3, <2>4 DEF HasBegun, From, SettledPcs, ReattachPcs
  <2>5. CASE At(o, "backoff")
    BY <1>3, <2>1, <2>2, <2>4, <2>5 DEF AttemptDoes, AttemptOn, At, SettledPcs
  <2>6. CASE HasRaised(o, task[o])
    BY <2>1, <2>2, <2>3, <2>6 DEF SettledPcs
  <2>7. CASE ~At(o, "backoff") /\ ~HasRaised(o, task[o])
    BY <1>1, <1>3, <2>1, <2>2, <2>7 DEF AttemptDoes, AttemptOn, From, SettledPcs, ReattachPcs
  <2> QED
    BY <2>5, <2>6, <2>7
<1> QED
  BY <1>2, <1>3

\* What makes a row change: six of the events.
LEMMA RowTurns ==
  ASSUME CalmStep, NEW s \in Sid
  PROVE  \/ SameRow(s)
         \/ \E u \in Task : \/ Inserts(u, s)
                            \/ /\ Works(u, s)
                               /\ \/ Asks(u, s) \/ Deletes(u, s) \/ Fails(u, s)
                                  \/ Readies(u, s) \/ Completes(u, s)
<1>1. ASSUME NEW u \in Task
      PROVE  /\ Shuts(u, s) \/ Empties(u, s) \/ Retains(u, s) => SameRow(s)
             /\ Publishes(u, s) \/ Installs(u, s) \/ Drops(u, s) \/ TakesDown(u, s) => SameRow(s)
  BY DEF Shuts, Empties, Retains, Publishes, Installs, Drops, TakesDown, SameRow
<1> QED
  BY <1>1, StepEvents DEF Event, Same

\* What it then is.
LEMMA RowValues ==
  ASSUME CalmStep, NEW s \in Sid, NEW u \in Task
  PROVE  /\ Inserts(u, s) => row'[s].state = "starting" /\ ~row'[s].close_reason
         /\ Asks(u, s) => /\ row'[s].state = "stopping" /\ row'[s].close_reason
                          /\ row'[s].alias = row[s].alias /\ At(u, "looked_up")
         /\ Deletes(u, s) => row'[s].state = "closed"
         /\ Fails(u, s) => /\ row'[s].state = "error" /\ row'[s].alias = row[s].alias
                           /\ row'[s].close_reason = row[s].close_reason
         /\ Readies(u, s) \/ Completes(u, s) => 
              /\ row'[s].state = "ready" /\ row'[s].alias = row[s].alias
              /\ row'[s].close_reason = row[s].close_reason
BY DEF Inserts, InsertsRow, Asks, AsksStop, Deletes, NoRow, Fails, Readies, Completes, RowTo

\* A request past its lookup works on its session.
LEMMA OpWorks ==
  ASSUME CalmStep, NEW o \in Op, task[o].pc \in SettledPcs \cup {"stopping", "start_settles"}
  PROVE  Works(o, task[o].sid) /\ task[o].sid \in Sid
<1>1. o \in Task /\ ShapeOK(o, task[o]) /\ o # Boot
  BY CalmFacts, CalmTypes DEF MoveInv, TaskShape
<1>2. task[o].sid \in Sid
  BY <1>1 DEF ShapeOK, SettledPcs, DoClosePcs, ReattachPcs
<1>3. task[o].pc \notin {"idle", "enter", "looked_up", "inserted"}
  BY DEF SettledPcs, DoClosePcs, ReattachPcs
<1>4. task[o].kind \in {"close", "force", "retry"}
  BY <1>1, <1>3, ServiceAssumption DEF ShapeOK, KindOK, Suspended
<1>5. CASE task[o].kind \in {"close", "force"}
  <2>1. task[o].pc \in ClosePcs
    BY <1>1, <1>3, <1>5 DEF ShapeOK, Suspended
  <2> QED
    BY <1>2, <1>5, <2>1 DEF Works
<1>6. CASE task[o].kind = "retry"
  <2>1. task[o].pc \in RetryPcs
    BY <1>1, <1>3, <1>6 DEF ShapeOK, Suspended
  <2>2. Holding(task[o])
    BY <1>6, <2>1 DEF Holding, RetryPcs
  <2> QED
    BY <1>2, <2>2 DEF Works
<1> QED
  BY <1>2, <1>4, <1>5, <1>6

=============================================================================
