----------------------- MODULE SessionInvariantProofs -----------------------
(***************************************************************************)
(* The lifecycle invariant is preserved by every step, and what follows    *)
(* from it.  SessionMoves has shown what each step does to tasks and       *)
(* locks; this module adds what it does to the rest of the state, to the   *)
(* table and to recovery, and combines them.  The last part is a second    *)
(* invariant, inductive relative to the first.  SafetyInv: what the        *)
(* lifecycle may rely on when it deletes a row, that the editor is gone or *)
(* never was.                                                              *)
(***************************************************************************)
EXTENDS SessionMoves, FiniteSetTheorems

-----------------------------------------------------------------------------
(***************************************************************************)
(* The variables beside the table, the tasks and the locks.                *)
(***************************************************************************)
\* Their types.
WorldOK ==
  /\ owned \subseteq Sid /\ abandoned \subseteq Sid /\ unrecovered \subseteq Sid
  /\ tunnels \in [Sid -> Tunnel]
  /\ registry \in [Sid -> Conn \cup {None}]
  /\ conn \in [Conn -> BOOLEAN]
  /\ remote \in [Sid -> RemoteState]
  /\ cancelled \subseteq Task
  /\ faults \in 0..MaxFaults

\* The tunnels the code builds.
LEMMA TunnelsTyped ==
  /\ \A c \in Conn \cup {None} :
       /\ LiveTunnel(c) \in Tunnel /\ [NoTunnel EXCEPT !.c = c] \in Tunnel
       /\ [LiveTunnel(c) EXCEPT !.watched = FALSE] \in Tunnel
  /\ \A x \in Tunnel, c \in Conn \cup {None} :
       [x EXCEPT !.c = c] \in Tunnel /\ [x EXCEPT !.c = c, !.watched = FALSE] \in Tunnel
  /\ NoTunnel \in Tunnel
BY DEF LiveTunnel, NoTunnel, Tunnel

\* Storing a tunnel keeps the types.
LEMMA KeepTyped ==
  ASSUME tunnels \in [Sid -> Tunnel], NEW s, NEW x \in Tunnel, Keep(s, x)
  PROVE  tunnels' \in [Sid -> Tunnel]
BY DEF Keep

\* The fault count stays in its bound.
LEMMA FaultTyped ==
  ASSUME faults \in 0..MaxFaults, NoFault \/ \E kind \in Faults : Fault(kind)
  PROVE  faults' \in 0..MaxFaults
BY ServiceAssumption DEF NoFault, Fault

\* A watcher is a task.
LEMMA WatcherOfTyped ==
  ASSUME NEW x
  PROVE  WatcherOf(x) \subseteq Task
BY DEF WatcherOf, Task

\* The remote state keeps its type under every command.
LEMMA RemoteTyped ==
  ASSUME remote \in [Sid -> RemoteState], NEW s,
         \/ remote' = remote \/ Stopped(s) \/ Removed(s)
         \/ \E x \in RemoteState : remote' = [remote EXCEPT ![s] = x]
  PROVE  remote' \in [Sid -> RemoteState]
BY DEF Stopped, Removed, RemoteState

\* The body of a start task.
LEMMA StartBodyWorld ==
  ASSUME MoveInv, NEW s \in Sid,
         \/ StartConnects(s) \/ StartInstalls(s) \/ StartLaunches(s) \/ StartForwards(s)
         \/ StartForwarded(s) \/ StartPublishes(s) \/ StartVerifies(s) \/ StartDone(s)
         \/ StartUnhandled(s)
  PROVE  WorldOK'
<1> USE DEF StartConnects, StartInstalls, StartLaunches, StartForwards, StartForwarded,
        StartPublishes, StartVerifies, StartDone, StartUnhandled, memory, world
<1>0. WorldOK /\ s \in Task /\ task[s].c \in Conn \cup {None}
  BY TaskFacts DEF MoveInv, TypeOK, WorldOK, Task
<1>1. owned' \subseteq Sid /\ abandoned' \subseteq Sid /\ unrecovered' \subseteq Sid
  BY <1>0 DEF WorldOK
<1>2. tunnels' \in [Sid -> Tunnel]
  BY <1>0, TunnelsTyped DEF WorldOK, Keep
<1>3. registry' \in [Sid -> Conn \cup {None}]
  BY <1>0 DEF WorldOK, Published
<1>4. conn' \in [Conn -> BOOLEAN]
  BY <1>0 DEF WorldOK, Opened
<1>5. remote' \in [Sid -> RemoteState]
  BY <1>0, RemoteTyped DEF WorldOK, RemoteState
<1>6. cancelled' \subseteq Task
  BY <1>0 DEF WorldOK, Delivered
<1>7. faults' \in 0..MaxFaults
  <2>1. NoFault \/ \E kind \in Faults : Fault(kind)
    BY DEF Answered, Connects, NoFault, Fault
  <2> QED
    BY <1>0, <2>1, FaultTyped DEF WorldOK
<1> QED
  BY <1>1, <1>2, <1>3, <1>4, <1>5, <1>6, <1>7 DEF WorldOK

\* A failure's cleanup.
LEMMA StartCleanupWorld ==
  ASSUME MoveInv, NEW s \in Sid,
         \/ StartCancelled(s) \/ StartFails(s) \/ CleanupCancelled(s) \/ CleanupDecides(s)
         \/ CleanupWatcherEnded(s) \/ CleanupListener(s) \/ CleanupRemote(s)
         \/ CleanupConn(s) \/ CleanupMarks(s)
  PROVE  WorldOK'
<1> USE DEF StartCancelled, StartFails, CleanupCancelled, CleanupDecides, CleanupWatcherEnded,
        CleanupListener, CleanupRemote, CleanupConn, CleanupMarks, memory, world
<1>0. /\ WorldOK /\ s \in Task /\ task[s].c \in Conn \cup {None} /\ task[s].old \in Tunnel
      /\ WatcherOf(tunnels[s]) \subseteq Task
  BY TaskFacts, WatcherOfTyped DEF MoveInv, TypeOK, WorldOK, Task
<1>1. owned' \subseteq Sid /\ abandoned' \subseteq Sid /\ unrecovered' \subseteq Sid
  BY <1>0 DEF WorldOK, GivesUp
<1>2. tunnels' \in [Sid -> Tunnel]
  <2> DEFINE kept == [task[s].old EXCEPT !.c = task[s].c, !.watched = FALSE]
  <2>1. kept \in Tunnel /\ NoTunnel \in Tunnel
    BY <1>0, TunnelsTyped
  <2>2. CleansUp(s, task[s].exc) \/ (\E exc : CleansUp(s, exc)) \/ (\E exc : DropLocal(s, exc))
          => tunnels' = tunnels \/ Keep(s, NoTunnel)
    BY DEF CleansUp, DropLocal
  <2>3. tunnels' = tunnels \/ Keep(s, NoTunnel) \/ Keep(s, kept)
    BY <2>2
  <2> HIDE DEF kept
  <2> QED
    BY <1>0, <2>1, <2>3, KeepTyped DEF WorldOK
<1>3. registry' \in [Sid -> Conn \cup {None}]
  BY <1>0 DEF WorldOK, Unpublished, CleansUp, DropLocal
<1>4. conn' \in [Conn -> BOOLEAN]
  BY <1>0 DEF WorldOK, Closed
<1>5. remote' \in [Sid -> RemoteState]
  <2>1. remote' = remote \/ Stopped(s)
    BY DEF StopsRemote, StopFails
  <2> QED
    BY <1>0, <2>1, RemoteTyped DEF WorldOK
<1>6. cancelled' \subseteq Task
  BY <1>0 DEF WorldOK, Delivered, CleansUp, DropLocal
<1>7. faults' \in 0..MaxFaults
  <2>1. NoFault \/ \E kind \in Faults : Fault(kind)
    BY DEF StopsRemote, StopFails, Answered, Failed, NoFault, Fault
  <2> QED
    BY <1>0, <2>1, FaultTyped DEF WorldOK
<1> QED
  BY <1>1, <1>2, <1>3, <1>4, <1>5, <1>6, <1>7 DEF WorldOK

\* Recovery only takes rows off its list.
LEMMA NextRowShrinks ==
  ASSUME NEW r, NextRow(r)
  PROVE  unrecovered' \subseteq unrecovered
BY DEF NextRow

\* An exception of an attempt adds none.
LEMMA RaisesShrinks ==
  ASSUME NEW t, NEW r, r.kind \in {"retry", "watch", "boot"}, NEW exc, Raises(t, r, exc)
  PROVE  unrecovered' \subseteq unrecovered
<1>1. unrecovered' = unrecovered \/ NextRow(r)
  <2>1. CASE r.kind \in {"retry", "watch"}
    BY <2>1 DEF Raises
  <2>2. CASE r.kind = "boot" /\ exc = "absent"
    BY <2>2 DEF Raises
  <2>3. CASE r.kind = "boot" /\ exc # "absent"
    BY <2>3 DEF Raises
  <2> QED
    BY <2>1, <2>2, <2>3
<1> QED
  BY <1>1, NextRowShrinks

\* Beginning an attempt adds none.
LEMMA ReattachesShrinks ==
  ASSUME NEW t, NEW r, r.kind \in {"retry", "watch", "boot"}, Reattaches(t, r)
  PROVE  unrecovered' \subseteq unrecovered
BY RaisesShrinks DEF Reattaches

\* The end of _do_close adds none.
LEMMA DoCloseReturnsShrinks ==
  ASSUME NEW t, task[t].kind \in {"close", "force", "retry", "boot"}, DoCloseReturns(t)
  PROVE  unrecovered' \subseteq unrecovered
<1>1. unrecovered' = unrecovered \/ NextRow(task[t])
  BY DEF DoCloseReturns
<1> QED
  BY <1>1, NextRowShrinks

\* _do_close adds none.
LEMMA DoCloseShrinks ==
  ASSUME MoveInv, NEW t \in Task, DoCloseStep(t)
  PROVE  unrecovered' \subseteq unrecovered
<1>1. unrecovered' = unrecovered \/ (task[t].pc \in DoClosePcs /\ DoCloseReturns(t))
  BY DEF DoCloseStep, DoCloseReads, DoCloseTakesTunnel, DoCloseStopsListener, DoCloseDials,
     DoCloseStopsRemote, DoCloseClosesConn, DoCloseForgets, DoCloseFinishes,
     DoCloseReleases, At, DoClosePcs
<1>2. ASSUME task[t].pc \in DoClosePcs, DoCloseReturns(t)
      PROVE  unrecovered' \subseteq unrecovered
  <2>1. task[t].kind \in {"close", "force", "retry", "boot"}
    BY <1>2, AtDoClose DEF DoCloseTask
  <2> QED
    BY <1>2, <2>1, DoCloseReturnsShrinks
<1> QED
  BY <1>1, <1>2

\* _do_close.
LEMMA DoCloseWorld ==
  ASSUME MoveInv, NEW t \in Task, DoCloseStep(t)
  PROVE  WorldOK'
<1> USE DEF DoCloseStep, DoCloseReads, DoCloseTakesTunnel, DoCloseStopsListener, DoCloseDials,
        DoCloseStopsRemote, DoCloseClosesConn, DoCloseForgets, DoCloseFinishes,
        DoCloseReleases, memory, world
<1>0. /\ WorldOK /\ task[t].c \in Conn \cup {None} /\ task[t].old \in Tunnel
      /\ WatcherOf(tunnels[task[t].sid]) \subseteq Task
  BY TaskFacts, WatcherOfTyped DEF MoveInv, TypeOK, WorldOK
<1>1. owned' \subseteq Sid /\ abandoned' \subseteq Sid
  BY <1>0 DEF WorldOK
<1>2. unrecovered' \subseteq Sid
  BY <1>0, DoCloseShrinks DEF WorldOK
<1>3. tunnels' \in [Sid -> Tunnel]
  BY <1>0, TunnelsTyped DEF WorldOK, Keep
<1>4. registry' \in [Sid -> Conn \cup {None}]
  BY <1>0 DEF WorldOK, Unpublished
<1>5. conn' \in [Conn -> BOOLEAN]
  BY <1>0 DEF WorldOK, Closed, Opened
<1>6. remote' \in [Sid -> RemoteState]
  <2>1. remote' = remote \/ Stopped(task[t].sid) \/ Removed(task[t].sid)
    BY DEF StopFails
  <2> QED
    BY <1>0, <2>1, RemoteTyped DEF WorldOK
<1>7. cancelled' \subseteq Task
  BY <1>0 DEF WorldOK
<1>8. faults' \in 0..MaxFaults
  <2>1. NoFault \/ \E kind \in Faults : Fault(kind)
    BY DEF StopFails, Answered, Failed, Connects, NoFault, Fault
  <2> QED
    BY <1>0, <2>1, FaultTyped DEF WorldOK
<1> QED
  BY <1>1, <1>2, <1>3, <1>4, <1>5, <1>6, <1>7, <1>8 DEF WorldOK

\* Open, close and retry.
LEMMA OpWorld ==
  ASSUME MoveInv, NEW o \in Op, OpenStep(o) \/ CloseStep(o) \/ RetryStep(o)
  PROVE  WorldOK'
<1> USE DEF OpenStep, CloseStep, RetryStep, Enter, OpenChecks, OpenStarts, CloseRecordsIntent,
        CloseCancelsStart, CloseStarts, RetryBegins, RetryProceeds, RetryReopens, memory, world
<1>0. WorldOK /\ o \in Task /\ task[o] \in TaskRecord /\ Sid \subseteq Task
  BY OpFacts DEF MoveInv, TypeOK, WorldOK, Task
<1>1. owned' \subseteq Sid /\ abandoned' \subseteq Sid
  <2>1. task[o].pc = "inserted" => task[o].sid \in Sid
    BY OpFacts
  <2> QED
    BY <1>0, <2>1 DEF WorldOK, At
<1>2. unrecovered' \subseteq Sid
  <2>1. CASE RetriesNow(o) /\ task[o].kind = "retry"
    <3> DEFINE r == [task[o] EXCEPT !.tries = 1]
    <3>1. r.kind = "retry"
      BY <1>0, <2>1 DEF TaskRecord
    <3>2. unrecovered' = unrecovered \/ Reattaches(o, r)
      BY <2>1 DEF RetriesNow
    <3> HIDE DEF r
    <3> QED
      BY <1>0, <3>1, <3>2, ReattachesShrinks DEF WorldOK
  <2>2. CASE unrecovered' = unrecovered
    BY <1>0, <2>2 DEF WorldOK
  <2> QED
    BY <2>1, <2>2
<1>3. tunnels' \in [Sid -> Tunnel]
  BY <1>0 DEF WorldOK
<1>4. registry' \in [Sid -> Conn \cup {None}]
  BY <1>0 DEF WorldOK, Unpublished, RetriesNow
<1>5. conn' \in [Conn -> BOOLEAN] /\ remote' \in [Sid -> RemoteState]
  BY <1>0 DEF WorldOK
<1>6. cancelled' \subseteq Task
  <2>1. cancelled' = cancelled \/ (Cancel(task[o].sid) /\ task[o].sid \in Sid \cup {None})
    BY <1>0 DEF TaskRecord
  <2>2. Cancel(task[o].sid) /\ task[o].sid \in Sid => cancelled' \subseteq Task
    BY <1>0 DEF Cancel, WorldOK
  <2>3. cancelled' = cancelled \/ (Cancel(task[o].sid) /\ task[o].sid \in Sid)
    <3>1. task[o].pc \in {"stopping"} => task[o].sid \in Sid
      BY OpFacts
    <3>2. task[o].pc = "looked_up" /\ task[o].rec.state = "error" => task[o].sid \in Sid
      <4>1. NoRow.state = "closed"
        BY NoRowIsRow
      <4>2. ShapeOK(o, task[o])
        BY <1>0 DEF MoveInv, TaskShape
      <4> QED
        BY <1>0, <2>1, <4>1, <4>2 DEF ShapeOK, TaskRecord
    <3> QED
      BY <3>1, <3>2 DEF At
  <2> QED
    BY <1>0, <2>2, <2>3 DEF WorldOK
<1>7. faults' \in 0..MaxFaults
  BY <1>0 DEF WorldOK
<1> QED
  BY <1>1, <1>2, <1>3, <1>4, <1>5, <1>6, <1>7 DEF WorldOK

\* An interruption delivers a cancellation or is a fault.
LEMMA InterruptTyped ==
  ASSUME NEW t, NEW exc, Interrupts(t, exc)
  PROVE  cancelled' \subseteq cancelled /\ (NoFault \/ \E kind \in Faults : Fault(kind))
BY DEF Interrupts, Delivered, NoFault, Fault

\* No step of an attempt adds a row to recovery's list.
LEMMA ReattachStepShrinks ==
  ASSUME MoveInv, NEW t \in Task, ReattachStep(t)
  PROVE  unrecovered' \subseteq unrecovered
<1> DEFINE n == task[t].tries + 1
           r == [task[t] EXCEPT !.pc = "attempt", !.tries = n]
<1>1. task[t].kind \in {"retry", "watch", "boot"} /\ task[t] \in TaskRecord
  <2>1. task[t].pc \in ReattachPcs \/ task[t].pc = "backoff"
    BY DEF ReattachStep, Reconnects, Interrupted, Inspects, RemovesAbsent, ReattachVerifies,
       ReattachInstalls, ReattachReads, DropsConn, BackoffEnds, At, ReattachPcs
  <2>2. CASE task[t].pc \in ReattachPcs
    BY <2>2, AtReattach DEF Reattacher
  <2>3. CASE task[t].pc = "backoff"
    BY <2>3, TaskFacts DEF Suspended, ClosePcs, StartPcs, BootPcs, DoClosePcs, ReattachPcs
  <2> QED
    BY <2>1, <2>2, <2>3, TaskFacts
<1>2. \/ unrecovered' = unrecovered
      \/ Reattached(t)
      \/ \E exc : Raises(t, task[t], exc)
      \/ Reattaches(t, r)
  BY DEF ReattachStep, Reconnects, Interrupted, Inspects, RemovesAbsent, ReattachVerifies,
     ReattachInstalls, ReattachReads, DropsConn, BackoffEnds
<1>3. Reattached(t) => unrecovered' \subseteq unrecovered
  BY <1>1, NextRowShrinks DEF Reattached
<1>4. r.kind = task[t].kind
  BY <1>1 DEF TaskRecord
<1> HIDE DEF r
<1>5. Reattaches(t, r) => unrecovered' \subseteq unrecovered
  BY <1>1, <1>4, ReattachesShrinks
<1> QED
  BY <1>1, <1>2, <1>3, <1>5, RaisesShrinks

\* An attempt to reattach.
LEMMA ReattachWorld ==
  ASSUME MoveInv, NEW t \in Task, ReattachStep(t)
  PROVE  WorldOK'
<1> USE DEF ReattachStep, Reconnects, Interrupted, Inspects, RemovesAbsent, ReattachVerifies,
        ReattachInstalls, ReattachReads, DropsConn, BackoffEnds, memory, world
<1>0. /\ WorldOK /\ task[t].c \in Conn \cup {None} /\ task[t].old \in Tunnel
      /\ task[t] \in TaskRecord
  BY TaskFacts DEF MoveInv, TypeOK, WorldOK
<1>1. owned' \subseteq Sid /\ abandoned' \subseteq Sid
  BY <1>0 DEF WorldOK
<1>2. unrecovered' \subseteq Sid
  BY <1>0, ReattachStepShrinks DEF WorldOK
<1>3. tunnels' \in [Sid -> Tunnel]
  <2>1. \/ tunnels' = tunnels
        \/ Keep(task[t].sid, LiveTunnel(task[t].c))
        \/ Keep(task[t].sid, [LiveTunnel(task[t].c) EXCEPT !.watched = FALSE])
        \/ Keep(task[t].sid, [task[t].old EXCEPT !.c = task[t].c])
    OBVIOUS
  <2>2. /\ LiveTunnel(task[t].c) \in Tunnel /\ [task[t].old EXCEPT !.c = task[t].c] \in Tunnel
        /\ [LiveTunnel(task[t].c) EXCEPT !.watched = FALSE] \in Tunnel
    BY <1>0, TunnelsTyped
  <2> QED
    BY <1>0, <2>1, <2>2, KeepTyped DEF WorldOK
<1>4. registry' \in [Sid -> Conn \cup {None}]
  BY <1>0 DEF WorldOK, Published
<1>5. conn' \in [Conn -> BOOLEAN]
  BY <1>0 DEF WorldOK, Closed, Opened
<1>6. remote' \in [Sid -> RemoteState]
  <2>1. remote' = remote \/ Removed(task[t].sid)
    OBVIOUS
  <2> QED
    BY <1>0, <2>1, RemoteTyped DEF WorldOK
<1>7. cancelled' \subseteq Task
  BY <1>0, InterruptTyped DEF WorldOK, Uninterrupted
<1>8. faults' \in 0..MaxFaults
  <2>1. NoFault \/ \E kind \in Faults : Fault(kind)
    BY InterruptTyped DEF Answered, Failed, Connects, NoFault, Fault
  <2> QED
    BY <1>0, <2>1, FaultTyped DEF WorldOK
<1> QED
  BY <1>1, <1>2, <1>3, <1>4, <1>5, <1>6, <1>7, <1>8 DEF WorldOK

\* A watcher adds no row to recovery's list.
LEMMA WatchShrinks ==
  ASSUME MoveInv, NEW c \in Conn, WatchStep(c)
  PROVE  unrecovered' \subseteq unrecovered
<1>1. CASE WatcherAttempts(c)
  <2>1. task[c].kind = "watch"
    BY <1>1, WatchFacts DEF WatcherAttempts, Resumes, At
  <2>2. (\E exc : Raises(c, task[c], exc)) \/ Reattaches(c, task[c])
    BY <1>1 DEF WatcherAttempts
  <2> QED
    BY <2>1, <2>2, RaisesShrinks, ReattachesShrinks
<1>2. CASE ~WatcherAttempts(c)
  BY <1>2 DEF WatchStep, WatcherWakes, WatcherQueues, WatcherReads, WatcherExits,
     WatcherDrops, WatcherLate, WatcherMarksLoss, WatcherCancelled
<1> QED
  BY <1>1, <1>2

\* The watchers.
LEMMA WatchWorld ==
  ASSUME MoveInv, NEW c \in Conn, WatchStep(c)
  PROVE  WorldOK'
<1> USE DEF WatchStep, WatcherWakes, WatcherQueues, WatcherReads, WatcherExits, WatcherDrops,
        WatcherAttempts, WatcherLate, WatcherMarksLoss, WatcherCancelled, memory, world
<1>0. /\ WorldOK /\ task[c].old \in Tunnel /\ task[c] \in TaskRecord
  BY TaskFacts DEF MoveInv, TypeOK, WorldOK, Task
<1>1. owned' \subseteq Sid /\ abandoned' \subseteq Sid
  BY <1>0 DEF WorldOK
<1>2. unrecovered' \subseteq Sid
  BY <1>0, WatchShrinks DEF WorldOK
<1>3. tunnels' \in [Sid -> Tunnel]
  BY <1>0, TunnelsTyped DEF WorldOK, Keep
<1>4. registry' \in [Sid -> Conn \cup {None}]
  BY <1>0 DEF WorldOK, Unpublished
<1>5. conn' \in [Conn -> BOOLEAN] /\ remote' \in [Sid -> RemoteState]
  BY <1>0 DEF WorldOK
<1>6. cancelled' \subseteq Task
  BY <1>0 DEF WorldOK, Delivered
<1>7. faults' \in 0..MaxFaults
  <2>1. NoFault \/ \E kind \in Faults : Fault(kind)
    BY DEF NoFault, Fault
  <2> QED
    BY <1>0, <2>1, FaultTyped DEF WorldOK
<1> QED
  BY <1>1, <1>2, <1>3, <1>4, <1>5, <1>6, <1>7 DEF WorldOK

\* No step of recovery adds a row to its list.
LEMMA RecoveryShrinks ==
  ASSUME MoveInv, RecoveryStep(Boot)
  PROVE  unrecovered' \subseteq unrecovered
<1>1. task[Boot].pc # "idle"
  BY DEF RecoveryStep, RecoverRow, RecoveryReattaches, RecoveryEnds, RecoveryDials,
     RecoveryInspects, RecoveryChecked, RecoveryDrops, RecoveryReleases,
     RecoveryClearsLost, RecoveryMarks, At
<1>2. task[Boot].kind = "boot"
  BY <1>1, BootFacts
<1>3. unrecovered' = unrecovered \/ NextRow(task[Boot]) \/ Reattaches(Boot, task[Boot])
  BY DEF RecoveryStep, RecoverRow, RecoveryReattaches, RecoveryEnds, RecoveryDials,
     RecoveryInspects, RecoveryChecked, RecoveryDrops, RecoveryReleases,
     RecoveryClearsLost, RecoveryMarks
<1> QED
  BY <1>2, <1>3, NextRowShrinks, ReattachesShrinks

\* Startup recovery.
LEMMA RecoveryWorld ==
  ASSUME MoveInv, RecoveryStep(Boot)
  PROVE  WorldOK'
<1> USE DEF RecoveryStep, RecoverRow, RecoveryReattaches, RecoveryEnds, RecoveryDials,
        RecoveryInspects, RecoveryChecked, RecoveryDrops, RecoveryReleases,
        RecoveryClearsLost, RecoveryMarks, memory, world
<1>0. /\ WorldOK /\ task[Boot].c \in Conn \cup {None} /\ task[Boot].pc # "idle"
  BY TaskFacts DEF MoveInv, TypeOK, WorldOK, Task, At
<1>1. owned' \subseteq Sid /\ abandoned' \subseteq Sid
  BY <1>0 DEF WorldOK
<1>2. unrecovered' \subseteq Sid
  BY <1>0, RecoveryShrinks DEF WorldOK
<1>3. tunnels' \in [Sid -> Tunnel]
  BY <1>0, TunnelsTyped DEF WorldOK, Keep
<1>4. registry' \in [Sid -> Conn \cup {None}]
  BY <1>0 DEF WorldOK
<1>5. conn' \in [Conn -> BOOLEAN]
  BY <1>0 DEF WorldOK, Closed, Opened
<1>6. remote' \in [Sid -> RemoteState]
  <2>1. remote' = remote \/ Removed(task[Boot].sid)
    OBVIOUS
  <2> QED
    BY <1>0, <2>1, RemoteTyped DEF WorldOK
<1>7. cancelled' \subseteq Task
  BY <1>0 DEF WorldOK
<1>8. faults' \in 0..MaxFaults
  <2>1. NoFault \/ \E kind \in Faults : Fault(kind)
    BY DEF Answered, Failed, Connects, NoFault, Fault
  <2> QED
    BY <1>0, <2>1, FaultTyped DEF WorldOK
<1> QED
  BY <1>1, <1>2, <1>3, <1>4, <1>5, <1>6, <1>7, <1>8 DEF WorldOK

-----------------------------------------------------------------------------
(***************************************************************************)
(* The statements each step issues.                                        *)
(***************************************************************************)
\* A statement that neither inserts nor deletes.  Only a close sets a row to stopping,
\* and only the cleanup of an open records a failure as one before the remote start.
EditStatement(s) ==
  \/ SetRemoteIdentity(s) \/ ClearRemoteIdentity(s)
  \/ SetTunnelIdentity(s) \/ ClearTunnelIdentity(s)
  \/ BeginRecovery(s) \/ CompleteRecovery(s)
  \/ MarkReady(s)
  \/ MarkStopping(s) /\ \E o \in Op : CloseRecordsIntent(o) /\ task[o].sid = s
  \/ \E code \in ErrorCode : MarkError(s, code) /\ (code # "pre_remote" \/ CleanupMarks(s))

\* At most one such statement, on s.
Edited(s) == row' = row \/ (s \in Sid /\ EditStatement(s))

\* An edit keeps which rows exist and their aliases.
LEMMA EditedRows ==
  ASSUME StoreTypeOK, NEW s, Edited(s)
  PROVE  /\ row' \in [Sid -> Row]
         /\ \A u \in Sid : (row'[u].state # "closed" <=> row[u].state # "closed")
                           /\ row'[u].alias = row[u].alias
<1>1. row \in [Sid -> Row]
  BY DEF StoreTypeOK
<1>2. CASE row' = row
  BY <1>1, <1>2
<1>3. ASSUME s \in Sid, NEW new \in LiveRow, Edits(s, new)
      PROVE  /\ row' \in [Sid -> Row]
             /\ \A u \in Sid : (row'[u].state # "closed" <=> row[u].state # "closed")
                               /\ row'[u].alias = row[u].alias
  <2>1. row' = [row EXCEPT ![s] = new] /\ new.alias = row[s].alias /\ row[s] \in LiveRow
    BY <1>3 DEF Edits
  <2>2. new \in Row /\ new.state # "closed" /\ row[s].state # "closed"
    BY <2>1, LiveRows DEF Row
  <2> QED
    BY <1>1, <2>1, <2>2
<1>4. s \in Sid /\ EditStatement(s) => row' = row \/ \E new \in LiveRow : Edits(s, new)
  BY IdentityKinds, StateKinds, RecoveryKinds DEF EditStatement
<1> QED
  BY <1>2, <1>3, <1>4 DEF Edited

\* An edit is nothing or one statement of the table.
LEMMA EditedIsStatement ==
  ASSUME NEW s, Edited(s)
  PROVE  row' = row \/ \E u \in Sid : Statement(u)
BY DEF Edited, EditStatement, Statement

\* The start task only edits its own row.
LEMMA StartRows ==
  ASSUME MoveInv, NEW s \in Sid, StartStep(s)
  PROVE  Edited(s)
<1>1. CASE CleanupMarks(s)
  <2>1. task[s].pc # "idle"
    BY <1>1 DEF CleanupMarks, Resumes, At
  <2>2. task[s].exc \in ErrorCode
    BY <2>1, StartFacts
  <2> QED
    BY <1>1, <2>2 DEF CleanupMarks, Edited, EditStatement
<1>2. CASE StartUnhandled(s)
  BY <1>2, ExcTyped DEF StartUnhandled, Edited, EditStatement
<1>3. CASE /\ ~CleanupMarks(s) /\ ~StartUnhandled(s)
  BY <1>3 DEF StartStep, StartConnects, StartInstalls, StartLaunches, StartForwards,
     StartForwarded, StartPublishes, StartVerifies, StartDone, StartCancelled, StartFails,
     CleanupCancelled, CleanupDecides, CleanupWatcherEnded, CleanupListener, CleanupRemote,
     CleanupConn, Edited, EditStatement
<1> QED
  BY <1>1, <1>2, <1>3

\* Beginning an attempt edits at most the row.
LEMMA ReattachesRows ==
  ASSUME NEW t, NEW r, r.sid \in Sid, Reattaches(t, r)
  PROVE  Edited(r.sid)
BY DEF Reattaches, Edited, EditStatement

\* The error codes the lifecycle stores.
LEMMA ErrorCodes ==
  "tunnel_lost" \in ErrorCode /\ "recovery_failed" \in ErrorCode /\ "stop_failed" \in ErrorCode
BY DEF ErrorCode

\* A watcher only edits its session's row.
LEMMA WatchRows ==
  ASSUME MoveInv, NEW c \in Conn, WatchStep(c)
  PROVE  Edited(task[c].sid)
<1>1. CASE WatcherAttempts(c)
  <2>1. task[c].sid \in Sid
    BY <1>1, WatchFacts DEF WatcherAttempts, Resumes, At
  <2> QED
    BY <1>1, <2>1, ReattachesRows DEF WatcherAttempts, Edited
<1>2. CASE WatcherMarksLoss(c)
  <2>1. task[c].sid \in Sid
    BY <1>2, WatchFacts DEF WatcherMarksLoss, Resumes, At
  <2> QED
    BY <1>2, <2>1, ErrorCodes DEF WatcherMarksLoss, Edited, EditStatement
<1>3. CASE ~WatcherAttempts(c) /\ ~WatcherMarksLoss(c)
  BY <1>3 DEF WatchStep, WatcherWakes, WatcherQueues, WatcherReads, WatcherExits,
     WatcherDrops, WatcherLate, WatcherCancelled, Edited
<1> QED
  BY <1>1, <1>2, <1>3

\* An attempt only edits its session's row.
LEMMA ReattachRows ==
  ASSUME MoveInv, NEW t \in Task, ReattachStep(t)
  PROVE  Edited(task[t].sid)
<1>1. CASE BackoffEnds(t)
  <2> DEFINE n == task[t].tries + 1
             r == [task[t] EXCEPT !.pc = "attempt", !.tries = n]
  <2>1. task[t].sid \in Sid /\ task[t] \in TaskRecord
    BY <1>1, TaskFacts DEF BackoffEnds, At
  <2>2. row' = row \/ Reattaches(t, r)
    BY <1>1 DEF BackoffEnds
  <2>3. r.sid = task[t].sid
    BY <2>1 DEF TaskRecord
  <2> HIDE DEF r
  <2> QED
    BY <2>1, <2>2, <2>3, ReattachesRows DEF Edited
<1>2. CASE ReattachVerifies(t)
  <2>1. task[t].sid \in Sid
    BY <1>2, TaskFacts DEF ReattachVerifies, At
  <2> QED
    BY <1>2, <2>1 DEF ReattachVerifies, Edited, EditStatement
<1>3. CASE ~BackoffEnds(t) /\ ~ReattachVerifies(t)
  BY <1>3 DEF ReattachStep, Reconnects, Interrupted, Inspects, RemovesAbsent,
     ReattachInstalls, ReattachReads, DropsConn, Edited
<1> QED
  BY <1>1, <1>2, <1>3

\* _do_close edits or deletes its session's row.
LEMMA DoCloseRows ==
  ASSUME MoveInv, NEW t \in Task, DoCloseStep(t)
  PROVE  /\ task[t].sid \in Sid
         /\ Edited(task[t].sid) \/ (DoCloseFinishes(t) /\ Delete(task[t].sid))
<1>1. task[t].sid \in Sid
  <2>1. task[t].pc \in DoClosePcs \cup {"do_close"}
    BY DEF DoCloseStep, DoCloseReads, DoCloseTakesTunnel, DoCloseStopsListener, DoCloseDials,
       DoCloseStopsRemote, DoCloseClosesConn, DoCloseForgets, DoCloseFinishes,
       DoCloseReleases, At, DoClosePcs
  <2> QED
    BY <2>1, TaskFacts DEF DoClosePcs
<1>2. CASE DoCloseClosesConn(t)
  BY <1>1, <1>2 DEF DoCloseClosesConn, Edited, EditStatement
<1>3. CASE DoCloseForgets(t)
  BY <1>1, <1>3 DEF DoCloseForgets, Edited, EditStatement
<1>4. CASE DoCloseFinishes(t)
  BY <1>1, <1>4, ErrorCodes DEF DoCloseFinishes, Edited, EditStatement
<1>5. CASE ~DoCloseClosesConn(t) /\ ~DoCloseForgets(t) /\ ~DoCloseFinishes(t)
  <2>1. DoCloseReads(t) \/ DoCloseStopsListener(t) \/ DoCloseDials(t) => row' = row
    BY DEF DoCloseReads, DoCloseStopsListener, DoCloseDials
  <2>2. DoCloseTakesTunnel(t) => row' = row
    BY DEF DoCloseTakesTunnel
  <2>3. DoCloseStopsRemote(t) \/ DoCloseReleases(t) => row' = row
    BY DEF DoCloseStopsRemote, DoCloseReleases
  <2> QED
    BY <1>1, <1>5, <2>1, <2>2, <2>3 DEF DoCloseStep, Edited
<1> QED
  BY <1>1, <1>2, <1>3, <1>4, <1>5

\* A retry at work on a row knows its session.
LEMMA RetrySid ==
  ASSUME MoveInv, NEW o \in Op, RetryStep(o)
  PROVE  row' = row \/ task[o].sid \in Sid
<1>1. o \in Task /\ task[o] \in TaskRecord /\ ShapeOK(o, task[o])
  BY OpFacts DEF MoveInv, TaskShape
<1>2. CASE RetryBegins(o)
  <2>1. task[o].rec.state = "error" => task[o].rec # NoRow
    BY DEF NoRow
  <2>2. task[o].pc = "looked_up"
    BY <1>2 DEF RetryBegins, At
  <2>3. task[o].rec.state = "error" => task[o].sid \in Sid
    BY <1>1, <2>1, <2>2 DEF ShapeOK, TaskRecord
  <2> QED
    BY <1>2, <2>3 DEF RetryBegins
<1>3. CASE RetryProceeds(o)
  BY <1>3, OpFacts DEF RetryProceeds, At
<1>4. CASE RetryReopens(o)
  BY <1>4 DEF RetryReopens
<1> QED
  BY <1>2, <1>3, <1>4 DEF RetryStep

\* New ids are session ids.
LEMMA FreeSids == FreeSid \subseteq Sid
BY DEF FreeSid

\* A request edits or deletes its session's row, or open() inserts one for its
\* alias right after its lookup.
LEMMA OpRows ==
  ASSUME MoveInv, NEW o \in Op, OpenStep(o) \/ CloseStep(o) \/ RetryStep(o)
  PROVE  \/ Edited(task[o].sid)
         \/ OpenStarts(o) /\ task[o].sid \in Sid /\ Delete(task[o].sid)
         \/ /\ OpenChecks(o) /\ At(o, "looked_up") /\ NewSid \in FreeSid
            /\ Insert(NewSid, task[o].alias)
<1>1. CASE OpenStep(o)
  <2>1. task[o].pc = "inserted" => task[o].sid \in Sid
    BY OpFacts
  <2>2. FreeSid # {} => NewSid \in FreeSid
    BY DEF NewSid
  <2> QED
    BY <1>1, <2>1, <2>2 DEF OpenStep, Enter, OpenChecks, OpenStarts, Edited, At
<1>2. CASE CloseStep(o)
  <2>1. task[o].sid # None => task[o].sid \in Sid
    BY OpFacts DEF TaskRecord
  <2> QED
    BY <1>2, <2>1 DEF CloseStep, CloseRecordsIntent, CloseCancelsStart, CloseStarts, Edited,
       EditStatement
<1>3. CASE RetryStep(o)
  <2> DEFINE r == [task[o] EXCEPT !.tries = 1]
  <2>1. row' = row \/ Reattaches(o, r)
    BY <1>3 DEF RetryStep, RetryBegins, RetryProceeds, RetryReopens, RetriesNow
  <2>2. r.sid = task[o].sid
    BY OpFacts DEF TaskRecord
  <2>3. row' = row \/ task[o].sid \in Sid
    BY <1>3, RetrySid
  <2> HIDE DEF r
  <2> QED
    BY <2>1, <2>2, <2>3, ReattachesRows DEF Edited
<1> QED
  BY <1>1, <1>2, <1>3

\* Recovery edits or deletes the row it handles.
LEMMA RecoveryRows ==
  ASSUME MoveInv, RecoveryStep(Boot)
  PROVE  \/ Edited(task[Boot].sid)
         \/ RecoveryDrops(Boot) /\ task[Boot].sid \in Sid /\ Delete(task[Boot].sid)
<1>1. task[Boot].pc \in RowPcs => task[Boot].sid \in Sid
  BY AtRow DEF Reattacher
<1>2. CASE RecoveryReattaches(Boot)
  BY <1>1, <1>2, ReattachesRows DEF RecoveryReattaches, At, RowPcs
<1>3. CASE RecoveryDrops(Boot) \/ RecoveryClearsLost(Boot) \/ RecoveryMarks(Boot)
  BY <1>1, <1>3, ErrorCodes DEF RecoveryDrops, RecoveryClearsLost, RecoveryMarks, At, RowPcs,
     Edited, EditStatement
<1>4. CASE ~RecoveryReattaches(Boot) /\ ~RecoveryDrops(Boot) /\ ~RecoveryClearsLost(Boot)
           /\ ~RecoveryMarks(Boot)
  BY <1>4 DEF RecoveryStep, RecoverRow, RecoveryEnds, RecoveryDials, RecoveryInspects,
     RecoveryChecked, RecoveryReleases, Edited
<1> QED
  BY <1>2, <1>3, <1>4

-----------------------------------------------------------------------------
(***************************************************************************)
(* How a request handler or the recovery task goes on: at another await    *)
(* for the same session, at its end, or (recovery) at the next row.        *)
(***************************************************************************)
\* At another await, for the same session.
Goes(t) ==
  /\ task'[t].pc \notin {"idle", "enter", "looked_up", "inserted", "stopping"}
  /\ task'[t].sid = task[t].sid /\ task'[t].kind = task[t].kind
  /\ unrecovered' = unrecovered
Continues(t) ==
  \/ Goes(t)
  \/ /\ task'[t].pc = "idle" /\ task'[t].sid = None
     /\ unrecovered' = unrecovered /\ task[t].kind # "boot"
  \/ /\ t = Boot /\ task'[t].pc = "next_row" /\ task'[t].sid = None
     /\ unrecovered' = unrecovered \ {task[t].sid}

\* Going on with a new record.
LEMMA BecomeGoes ==
  ASSUME MoveInv, NEW t \in Task, NEW r, Become(t, r), unrecovered' = unrecovered,
         r.pc \notin {"idle", "enter", "looked_up", "inserted", "stopping"},
         r.sid = task[t].sid, r.kind = task[t].kind
  PROVE  Continues(t)
<1>1. task'[t] = r
  BY DEF Become, MoveInv, TypeOK
<1> QED
  BY <1>1 DEF Continues, Goes

\* Going on with the same locals.
LEMMA GotoGoes ==
  ASSUME MoveInv, NEW t \in Task, NEW p, Goto(t, p),
         p \notin {"idle", "enter", "looked_up", "inserted", "stopping"},
         unrecovered' = unrecovered
  PROVE  Continues(t)
<1> DEFINE r == [task[t] EXCEPT !.pc = p]
<1>1. task[t] \in TaskRecord /\ task \in [Task -> TaskRecord]
  BY TaskFacts DEF MoveInv, TypeOK
<1>2. r.pc = p /\ r.sid = task[t].sid /\ r.kind = task[t].kind
  BY <1>1 DEF TaskRecord
<1>3. Become(t, r)
  BY <1>1 DEF Goto, Become
<1> HIDE DEF r
<1> QED
  BY <1>2, <1>3, BecomeGoes

\* A request ends.
LEMMA EndContinues ==
  ASSUME MoveInv, NEW t \in Task, End(t), unrecovered' = unrecovered, task[t].kind # "boot"
  PROVE  Continues(t)
BY IdleTyped DEF End, Become, Continues, MoveInv, TypeOK

\* Recovery turns to the next row.
LEMMA NextRowContinues ==
  ASSUME MoveInv, NEW r, r.sid = task[Boot].sid, NextRow(r)
  PROVE  Continues(Boot)
<1>1. Boot \in Task /\ task' = [task EXCEPT ![Boot] = NextRowTask]
  BY DEF Task, NextRow, Become, NextRowTask
<1>2. task'[Boot] = NextRowTask /\ NextRowTask.pc = "next_row" /\ NextRowTask.sid = None
  BY <1>1, IdleTyped DEF MoveInv, TypeOK, NextRowTask, TaskRecord
<1> QED
  BY <1>2 DEF Continues, NextRow

\* Entering _do_close, the session is the same.
LEMMA DoesCloseContinues ==
  ASSUME MoveInv, NEW t \in Task, NEW r \in TaskRecord, r.sid = task[t].sid,
         r.kind = task[t].kind, DoesClose(t, r),
         unrecovered' = unrecovered
  PROVE  Continues(t)
<1> DEFINE x == Read(r.sid)
           q == [r EXCEPT !.pc = "fresh", !.rec = x, !.c = None, !.old = NoTunnel,
                          !.exc = "none"]
<1>1. q.pc = "fresh" /\ q.sid = r.sid /\ q.kind = r.kind
  BY DEF TaskRecord
<1>2. Become(t, q)
  BY DEF DoesClose
<1> HIDE DEF q
<1> QED
  BY <1>1, <1>2, BecomeGoes

\* Leaving _do_close.
LEMMA DoCloseReturnsContinues ==
  ASSUME MoveInv, NEW t \in Task, task[t].pc \in DoClosePcs, DoCloseReturns(t)
  PROVE  Continues(t)
<1>1. DoCloseTask(t, task[t]) /\ task[t] \in TaskRecord
  BY AtDoClose DEF DoCloseTask
<1>2. CASE task[t].kind \in {"close", "force"}
  <2>1. End(t) /\ unrecovered' = unrecovered
    BY <1>2 DEF DoCloseReturns
  <2> QED
    BY <1>2, <2>1, EndContinues
<1>3. CASE task[t].kind = "retry"
  <2> DEFINE x == row'[task[t].sid]
             q == [task[t] EXCEPT !.pc = "closed", !.rec = x]
  <2>1. q.pc = "closed" /\ q.sid = task[t].sid /\ q.kind = task[t].kind
    BY <1>1 DEF TaskRecord
  <2>2. Become(t, q) /\ unrecovered' = unrecovered
    BY <1>3 DEF DoCloseReturns
  <2> HIDE DEF q
  <2> QED
    BY <2>1, <2>2, BecomeGoes
<1>4. CASE task[t].kind = "boot"
  <2>1. t = Boot /\ NextRow(task[Boot])
    BY <1>1, <1>4 DEF DoCloseReturns, DoCloseTask
  <2> QED
    BY <2>1, NextRowContinues
<1> QED
  BY <1>1, <1>2, <1>3, <1>4 DEF DoCloseTask

\* Every step of _do_close goes on like this.
LEMMA DoCloseContinues ==
  ASSUME MoveInv, NEW t \in Task, DoCloseStep(t)
  PROVE  Continues(t)
<1>1. task[t] \in TaskRecord
  BY TaskFacts
<1>2. CASE DoCloseReads(t)
  BY <1>1, <1>2, DoesCloseContinues DEF DoCloseReads
<1>3. CASE DoCloseTakesTunnel(t)
  <2>1. CASE task[t].rec.state = "closed"
    BY <1>3, <2>1, DoCloseReturnsContinues DEF DoCloseTakesTunnel, At, DoClosePcs
  <2>2. CASE task[t].rec.state # "closed"
    <3> DEFINE s == task[t].sid
               x == tunnels[s]
               b == CanCloseWithoutRemote(task[t].rec)
               p == IF x.c = None THEN RemoteStage(task[t].rec, None) ELSE "take_over"
               q == [task[t] EXCEPT !.c = x.c, !.old = x, !.absent = b, !.pc = p]
    <3>1. Become(t, q) /\ unrecovered' = unrecovered
      BY <1>3, <2>2 DEF DoCloseTakesTunnel
    <3>2. p \notin {"idle", "enter", "looked_up", "inserted", "stopping"}
      BY RemoteStageIsDoClose
    <3> HIDE DEF p, x, b
    <3>3. q.pc = p /\ q.sid = task[t].sid /\ q.kind = task[t].kind
      BY <1>1 DEF TaskRecord
    <3> HIDE DEF q
    <3> QED
      BY <3>1, <3>2, <3>3, BecomeGoes
  <2> QED
    BY <2>1, <2>2
<1>4. CASE DoCloseStopsListener(t)
  <2> DEFINE p == RemoteStage(task[t].rec, task[t].c)
             q == [task[t] EXCEPT !.pc = p, !.errors = TRUE, !.old = NoTunnel]
  <2>1. unrecovered' = unrecovered /\ (Goto(t, p) \/ Become(t, q))
    BY <1>4 DEF DoCloseStopsListener
  <2>2. p \notin {"idle", "enter", "looked_up", "inserted", "stopping"}
    BY RemoteStageIsDoClose
  <2> HIDE DEF p
  <2>3. q.pc = p /\ q.sid = task[t].sid /\ q.kind = task[t].kind
    BY <1>1 DEF TaskRecord
  <2> HIDE DEF q
  <2> QED
    BY <2>1, <2>2, <2>3, BecomeGoes, GotoGoes
<1>5. CASE DoCloseDials(t)
  <2>1. PICK q : /\ Become(t, q) /\ q.pc \in {"stop", "finish"}
                 /\ q.sid = task[t].sid /\ q.kind = task[t].kind
                 /\ unrecovered' = unrecovered
    BY <1>1, <1>5 DEF DoCloseDials, TaskRecord
  <2> QED
    BY <2>1, BecomeGoes
<1>6. CASE DoCloseStopsRemote(t)
  <2>1. PICK q : /\ Become(t, q) /\ q.pc = "close_conn"
                 /\ q.sid = task[t].sid /\ q.kind = task[t].kind
                 /\ unrecovered' = unrecovered
    BY <1>1, <1>6 DEF DoCloseStopsRemote, TaskRecord
  <2> QED
    BY <2>1, BecomeGoes
<1>7. CASE DoCloseClosesConn(t)
  <2>1. PICK q : /\ Become(t, q) /\ q.pc = "forget"
                 /\ q.sid = task[t].sid /\ q.kind = task[t].kind
                 /\ unrecovered' = unrecovered
    BY <1>1, <1>7 DEF DoCloseClosesConn, TaskRecord
  <2> QED
    BY <2>1, BecomeGoes
<1>8. CASE DoCloseForgets(t)
  BY <1>8, GotoGoes DEF DoCloseForgets
<1>9. CASE DoCloseFinishes(t) \/ DoCloseReleases(t)
  <2>1. \/ DoCloseReturns(t)
        \/ Goto(t, "deleted") /\ unrecovered' = unrecovered
    BY <1>9 DEF DoCloseFinishes, DoCloseReleases
  <2>2. task[t].pc \in DoClosePcs
    BY <1>9 DEF DoCloseFinishes, DoCloseReleases, At, DoClosePcs
  <2> QED
    BY <2>1, <2>2, GotoGoes, DoCloseReturnsContinues
<1> QED
  BY <1>2, <1>3, <1>4, <1>5, <1>6, <1>7, <1>8, <1>9 DEF DoCloseStep

\* An attempt's exception leads to another await.
LEMMA OnContinues ==
  ASSUME MoveInv, NEW t \in Task, NEW r \in TaskRecord, r.sid = task[t].sid, r.kind = task[t].kind,
         NEW label, label \notin {"idle", "enter", "looked_up", "inserted", "stopping"},
         unrecovered' = unrecovered,
         Become(t, [r EXCEPT !.pc = label, !.c = None, !.old = NoTunnel, !.exc = "none"])
  PROVE  Continues(t)
<1> DEFINE q == [r EXCEPT !.pc = label, !.c = None, !.old = NoTunnel, !.exc = "none"]
<1>1. q.pc = label /\ q.sid = r.sid /\ q.kind = r.kind
  BY DEF TaskRecord
<1>2. Become(t, q)
  OBVIOUS
<1> HIDE DEF q
<1> QED
  BY <1>1, <1>2, BecomeGoes

\* However an attempt ends with an exception.
LEMMA RaisesContinues ==
  ASSUME MoveInv, NEW t \in Task, NEW r, Reattacher(t, r), r.sid = task[t].sid,
         r.kind = task[t].kind, NEW exc, Raises(t, r, exc)
  PROVE  Continues(t)
<1>1. r \in TaskRecord
  BY DEF Reattacher
<1>2. ASSUME unrecovered' = unrecovered, End(t), r.kind # "boot" PROVE Continues(t)
  BY <1>2, EndContinues
<1>3. ASSUME NEW label, label \in {"backoff", "lost", "clear_lost", "drop", "mark_lost"},
             unrecovered' = unrecovered,
             Become(t, [r EXCEPT !.pc = label, !.c = None, !.old = NoTunnel, !.exc = "none"])
      PROVE  Continues(t)
  BY <1>1, <1>3, OnContinues
<1>4. CASE r.kind = "retry"
  <2>1. \/ End(t) /\ unrecovered' = unrecovered
        \/ DoesClose(t, r) /\ unrecovered' = unrecovered
        \/ /\ unrecovered' = unrecovered
           /\ Become(t, [r EXCEPT !.pc = "backoff", !.c = None, !.old = NoTunnel, !.exc = "none"])
    BY <1>4 DEF Raises
  <2>2. DoesClose(t, r) /\ unrecovered' = unrecovered => Continues(t)
    BY <1>1, DoesCloseContinues
  <2> QED
    BY <1>2, <1>3, <1>4, <2>1, <2>2
<1>5. CASE r.kind = "watch"
  <2>1. \/ End(t) /\ unrecovered' = unrecovered
        \/ /\ unrecovered' = unrecovered
           /\ Become(t, [r EXCEPT !.pc = "lost", !.c = None, !.old = NoTunnel, !.exc = "none"])
        \/ /\ unrecovered' = unrecovered
           /\ Become(t, [r EXCEPT !.pc = "backoff", !.c = None, !.old = NoTunnel, !.exc = "none"])
    BY <1>5 DEF Raises
  <2> QED
    BY <1>2, <1>3, <1>5, <2>1
<1>6. CASE r.kind = "boot"
  <2>1. \/ NextRow(r)
        \/ /\ unrecovered' = unrecovered
           /\ \E label \in {"clear_lost", "drop", "mark_lost"} :
                Become(t, [r EXCEPT !.pc = label, !.c = None, !.old = NoTunnel, !.exc = "none"])
    <3>1. CASE exc = "absent"
      BY <1>6, <3>1 DEF Raises
    <3>2. CASE exc # "absent"
      BY <1>6, <3>2 DEF Raises
    <3> QED
      BY <3>1, <3>2
  <2>2. t = Boot
    BY <1>6 DEF Reattacher, KindOK
  <2>3. NextRow(r) => Continues(t)
    BY <2>2, NextRowContinues
  <2> QED
    BY <1>3, <2>1, <2>3
<1> QED
  BY <1>4, <1>5, <1>6 DEF Reattacher

\* An attempt begins.
LEMMA ReattachesContinues ==
  ASSUME MoveInv, NEW t \in Task, NEW r, Reattacher(t, r), r.sid = task[t].sid,
         r.kind = task[t].kind, Reattaches(t, r)
  PROVE  Continues(t)
<1> DEFINE q == [r EXCEPT !.pc = "reconnect"]
<1>1. \/ \E exc : Raises(t, r, exc)
      \/ Become(t, q) /\ unrecovered' = unrecovered
  BY DEF Reattaches
<1>2. q.pc = "reconnect" /\ q.sid = r.sid /\ q.kind = r.kind
  BY DEF Reattacher, TaskRecord
<1> HIDE DEF q
<1> QED
  BY <1>1, <1>2, RaisesContinues, BecomeGoes

\* Every step of an attempt goes on like this.
LEMMA ReattachContinues ==
  ASSUME MoveInv, NEW t \in Task, ReattachStep(t)
  PROVE  Continues(t)
<1>1. task[t] \in TaskRecord /\ task \in [Task -> TaskRecord]
  BY TaskFacts DEF MoveInv, TypeOK
<1>2. CASE BackoffEnds(t)
  <2> DEFINE n == task[t].tries + 1
             r == [task[t] EXCEPT !.pc = "attempt", !.tries = n]
  <2>1. /\ ShapeOK(t, task[t]) /\ task[t].pc = "backoff"
    BY <1>2 DEF BackoffEnds, At, MoveInv, TaskShape
  <2>2. /\ task[t].tries < MaxTries /\ task[t].sid \in Sid /\ task[t].alias \in Alias
        /\ KindOK(t, task[t].kind) /\ Suspended(task[t])
    BY <2>1 DEF ShapeOK
  <2>3. n \in 0..MaxTries
    <3>1. task[t].tries \in 0..MaxTries
      BY <1>1 DEF TaskRecord
    <3> QED
      BY <2>2, <3>1, ServiceAssumption
  <2>4. "attempt" \in Label /\ task[t].kind \in {"retry", "watch"}
    BY <2>1, <2>2 DEF Label, WatchPcs, Suspended, ClosePcs, StartPcs, BootPcs, DoClosePcs,
       ReattachPcs
  <2>5. \/ Reattaches(t, r)
        \/ Become(t, r) /\ unrecovered' = unrecovered
    BY <1>2 DEF BackoffEnds
  <2> HIDE DEF n
  <2>6. Like(r, task[t]) /\ r.pc = "attempt"
    BY <1>1, <2>3, <2>4 DEF TaskRecord, Like
  <2> HIDE DEF r
  <2>7. Reattacher(t, r)
    BY <2>2, <2>4, <2>6 DEF Like, Reattacher
  <2> QED
    BY <2>5, <2>6, <2>7, ReattachesContinues, BecomeGoes DEF Like
<1>3. CASE ~BackoffEnds(t)
  <2>1. task[t].pc \in ReattachPcs
    BY <1>3 DEF ReattachStep, Reconnects, Interrupted, Inspects, RemovesAbsent,
       ReattachVerifies, ReattachInstalls, ReattachReads, DropsConn, At, ReattachPcs
  <2>2. Reattacher(t, task[t])
    BY <2>1, AtReattach
  <2>3. ASSUME NEW exc, Raises(t, task[t], exc) PROVE Continues(t)
    BY <2>2, <2>3, RaisesContinues
  <2>4. ASSUME NEW exc, Abandons(t, exc), unrecovered' = unrecovered PROVE Continues(t)
    <3>1. PICK f : Become(t, [task[t] EXCEPT !.pc = "drop_conn", !.exc = exc, !.ledger = {},
                                             !.old = [NoTunnel EXCEPT !.listener = f]])
      BY <2>4 DEF Abandons
    <3> DEFINE x == [NoTunnel EXCEPT !.listener = f]
               q == [task[t] EXCEPT !.pc = "drop_conn", !.exc = exc, !.ledger = {}, !.old = x]
    <3>2. Become(t, q)
      BY <3>1
    <3> HIDE DEF x
    <3>3. q.pc = "drop_conn" /\ q.sid = task[t].sid /\ q.kind = task[t].kind
      BY <1>1 DEF TaskRecord
    <3> HIDE DEF q
    <3> QED
      BY <2>4, <3>2, <3>3, BecomeGoes
  <2>5. CASE Reconnects(t)
    <3>1. \/ \E exc : Raises(t, task[t], exc)
          \/ /\ unrecovered' = unrecovered
             /\ \E c \in Conn : Become(t, [task[t] EXCEPT !.pc = "inspect", !.c = c])
      BY <2>5 DEF Reconnects
    <3>2. ASSUME NEW c \in Conn, unrecovered' = unrecovered,
                 Become(t, [task[t] EXCEPT !.pc = "inspect", !.c = c])
          PROVE  Continues(t)
      <4> DEFINE q == [task[t] EXCEPT !.pc = "inspect", !.c = c]
      <4>1. q.pc = "inspect" /\ q.sid = task[t].sid /\ q.kind = task[t].kind
        BY <1>1 DEF TaskRecord
      <4>2. Become(t, q)
        BY <3>2
      <4> HIDE DEF q
      <4> QED
        BY <3>2, <4>1, <4>2, BecomeGoes
    <3> QED
      BY <2>3, <3>1, <3>2
  <2>6. CASE Interrupted(t) \/ Inspects(t) \/ RemovesAbsent(t)
    <3>1. unrecovered' = unrecovered
      BY <2>6 DEF Interrupted, Inspects, RemovesAbsent
    <3>2. (\E exc : Abandons(t, exc)) \/ Goto(t, "reforward") \/ Goto(t, "remove")
      BY <2>6 DEF Interrupted, Inspects, RemovesAbsent
    <3> QED
      BY <2>4, <3>1, <3>2, GotoGoes
  <2>7. CASE ReattachVerifies(t)
    <3>1. unrecovered' = unrecovered
      BY <2>7 DEF ReattachVerifies
    <3> DEFINE l == IF Recoverable(task[t].sid) THEN {"completed"} ELSE {}
               q == [task[t] EXCEPT !.pc = "commit", !.ledger = l]
    <3>2. (\E exc : Abandons(t, exc)) \/ Become(t, q)
      BY <2>7 DEF ReattachVerifies
    <3> HIDE DEF l
    <3>3. q.pc = "commit" /\ q.sid = task[t].sid /\ q.kind = task[t].kind
      BY <1>1 DEF TaskRecord
    <3> HIDE DEF q
    <3> QED
      BY <2>4, <3>1, <3>2, <3>3, BecomeGoes
  <2>8. CASE ReattachInstalls(t)
    <3>1. CASE Raises(t, task[t], "error")
      BY <2>3, <3>1
    <3>2. CASE Abandons(t, "unavailable") /\ unrecovered' = unrecovered
      BY <2>4, <3>2
    <3>3. CASE Installable(t)
      <4> DEFINE r == [task[t] EXCEPT !.pc = "installed", !.c = None, !.ledger = {}]
      <4>1. r.pc = "installed" /\ r.sid = task[t].sid /\ r.kind = task[t].kind
        BY <1>1 DEF TaskRecord
      <4>2. /\ task' = [[task EXCEPT ![t] = r] EXCEPT ![task[t].c] = Watcher(task[t].sid)]
            /\ unrecovered' = unrecovered
        BY <1>1, <2>8, <3>3 DEF ReattachInstalls, Installable
      <4> HIDE DEF r
      <4>3. task[t].c # t
        <5>1. Fresh(task[t])
          BY <2>8 DEF ReattachInstalls, At, Fresh
        <5> QED
          BY <5>1 DEF MoveInv, FreshConnections, FreshOK, Fresh
      <4>4. task'[t] = r
        BY <1>1, <4>2, <4>3
      <4> QED
        BY <4>1, <4>2, <4>4 DEF Continues, Goes
    <3> QED
      BY <2>8, <3>1, <3>2, <3>3 DEF ReattachInstalls, Installable
  <2>9. CASE ReattachReads(t) \/ DropsConn(t)
    <3>1. Reattached(t) \/ \E exc : Raises(t, task[t], exc)
      BY <2>9 DEF ReattachReads, DropsConn
    <3>2. ASSUME Reattached(t) PROVE Continues(t)
      <4>1. CASE task[t].kind \in {"retry", "watch"}
        <5>1. End(t) /\ unrecovered' = unrecovered
          BY <3>2, <4>1 DEF Reattached
        <5> QED
          BY <4>1, <5>1, EndContinues
      <4>2. CASE task[t].kind = "boot"
        <5>1. t = Boot /\ NextRow(task[Boot])
          BY <2>2, <3>2, <4>2 DEF Reattached, Reattacher, KindOK
        <5> QED
          BY <5>1, NextRowContinues
      <4> QED
        BY <2>2, <4>1, <4>2 DEF Reattacher
    <3> QED
      BY <2>3, <3>1, <3>2
  <2> QED
    BY <1>3, <2>5, <2>6, <2>7, <2>8, <2>9 DEF ReattachStep
<1> QED
  BY <1>2, <1>3

-----------------------------------------------------------------------------
(***************************************************************************)
(* A step changes the record of its own task, and of no other request      *)
(* handler or recovery task: the second task it may start is a start task  *)
(* or a watcher.                                                           *)
(***************************************************************************)
\* No request handler and no recovery but t.
Apart(t) == \A u \in Closers \ {t} : task'[u] = task[u]

\* A move changes one task.
LEMMA MovesApart ==
  ASSUME NEW t \in Task, Moves(t)
  PROVE  Apart(t)
BY DEF Moves, Changes, Apart, Closers, Task

\* A record is written for t and another one for a start task or a watcher.
LEMMA PairApart ==
  ASSUME MoveInv, NEW t \in Task, NEW c \in Sid \cup Conn, NEW r, NEW w,
         task' = [[task EXCEPT ![t] = r] EXCEPT ![c] = w]
  PROVE  Apart(t)
<1>1. \A u \in Closers : u \in Task /\ u # c
  BY ServiceAssumption DEF Closers, Task
<1> QED
  BY <1>1 DEF Apart, MoveInv, TypeOK

\* open() starts a start task.
LEMMA OpenStartsApart ==
  ASSUME MoveInv, NEW o \in Op, OpenStarts(o)
  PROVE  Apart(o)
<1>1. o \in Task /\ (task[o].pc = "inserted" => task[o].sid \in Sid)
  BY OpFacts
<1>2. CASE Cardinality(owned) >= Capacity
  BY <1>1, <1>2, OpenGivesUpMoves, MovesApart
<1>3. CASE ~(Cardinality(owned) >= Capacity)
  <2> DEFINE s == task[o].sid
             r == StartTask(task[o].alias, s)
  <2>1. s \in Sid /\ task' = [[task EXCEPT ![o] = IdleTask] EXCEPT ![s] = r]
    BY <1>1, <1>3 DEF OpenStarts, At, StartTask, MoveInv, TypeOK
  <2> HIDE DEF s, r
  <2> QED
    BY <1>1, <2>1, PairApart
<1> QED
  BY <1>2, <1>3

\* The start task starts a watcher.
LEMMA StartPublishesApart ==
  ASSUME MoveInv, NEW s \in Sid, StartPublishes(s)
  PROVE  Apart(s)
<1> DEFINE l == task[s].ledger \cup {"registry"}
           r == [task[s] EXCEPT !.pc = "verify", !.ledger = l]
           c == task[s].c
           w == Watcher(s)
<1>1. Fresh(task[s]) /\ s \in Task
  BY DEF StartPublishes, Resumes, At, Fresh, Task
<1>2. c \in Conn
  BY <1>1 DEF MoveInv, FreshConnections, FreshOK
<1>3. task' = [[task EXCEPT ![s] = r] EXCEPT ![c] = w]
  BY <1>1 DEF StartPublishes, MoveInv, TypeOK
<1> HIDE DEF c, r, w
<1> QED
  BY <1>1, <1>2, <1>3, PairApart

\* An attempt starts a watcher.
LEMMA ReattachInstallsApart ==
  ASSUME MoveInv, NEW t \in Task, ReattachInstalls(t)
  PROVE  Apart(t)
<1>1. CASE ~Installable(t)
  BY <1>1, InstallFailsMoves, MovesApart
<1>2. CASE Installable(t)
  <2> DEFINE r == [task[t] EXCEPT !.pc = "installed", !.c = None, !.ledger = {}]
             c == task[t].c
             w == Watcher(task[t].sid)
  <2>1. Fresh(task[t])
    BY DEF ReattachInstalls, At, Fresh
  <2>2. c \in Conn
    BY <2>1 DEF MoveInv, FreshConnections, FreshOK
  <2>3. task' = [[task EXCEPT ![t] = r] EXCEPT ![c] = w]
    BY <1>2 DEF ReattachInstalls, Installable, MoveInv, TypeOK
  <2> HIDE DEF c, r, w
  <2> QED
    BY <2>2, <2>3, PairApart
<1> QED
  BY <1>1, <1>2

\* No step of an attempt touches another request or recovery.
LEMMA ReattachApart ==
  ASSUME MoveInv, NEW t \in Task, ReattachStep(t)
  PROVE  Apart(t)
<1>1. ReattachInstalls(t) \/ Moves(t)
  BY ReconnectsMoves, AttemptMoves, VerifiesMoves, AttemptEndMoves, BackoffMoves
     DEF ReattachStep
<1> QED
  BY <1>1, ReattachInstallsApart, MovesApart

-----------------------------------------------------------------------------
(***************************************************************************)
(* Each kind of step, for the task taking it: what it preserves of the     *)
(* tasks and locks, and that it leaves the others apart.                   *)
(***************************************************************************)
\* What a step of t preserves.
Steps(t) == TasksOK(task', lock') /\ Apart(t)

\* Moves are steps in this sense.
LEMMA MovesStep ==
  ASSUME MoveInv, NEW t \in Task, Moves(t)
  PROVE  Steps(t)
BY MovesKeep, MovesApart DEF Steps

\* Rows stay typed under an edit or a deletion.
LEMMA DeleteTyped ==
  ASSUME row \in [Sid -> Row], NEW s, Edited(s) \/ Delete(s), StoreTypeOK
  PROVE  row' \in [Sid -> Row]
BY EditedRows, NoRowIsRow DEF Delete

\* The steps of _do_close.
LEMMA DoCloseSteps ==
  ASSUME MoveInv, NEW t \in Task, DoCloseStep(t)
  PROVE  Steps(t)
<1>1. row' \in [Sid -> Row]
  BY DoCloseRows, DeleteTyped DEF MoveInv, TypeOK, StoreTypeOK
<1> QED
  BY <1>1, DoCloseStepMoves, MovesStep

\* The steps of a request handler.
LEMMA OpSteps ==
  ASSUME MoveInv, NEW o \in Op, OpStep(o)
  PROVE  Steps(o)
<1>1. o \in Task
  BY OpFacts
<1>2. CASE OpenStarts(o)
  BY <1>2, OpenStartsTasks, OpenStartsApart DEF Steps
<1>3. CASE Enter(o) \/ OpenChecks(o)
  BY <1>1, <1>3, EnterMoves, OpenChecksMoves, MovesStep
<1>4. CASE CloseStep(o) \/ RetryStep(o)
  BY <1>1, <1>4, CloseMoves, RetryMoves, MovesStep
<1>5. CASE DoCloseStep(o)
  BY <1>1, <1>5, DoCloseSteps
<1>6. CASE ReattachStep(o)
  BY <1>1, <1>6, ReattachStepTasks, ReattachApart DEF Steps
<1> QED
  BY <1>2, <1>3, <1>4, <1>5, <1>6 DEF OpStep, OpenStep

\* The steps of a start task.
LEMMA StartSteps ==
  ASSUME MoveInv, NEW s \in Sid, StartStep(s)
  PROVE  Steps(s)
<1>1. s \in Task
  BY DEF Task
<1> QED
  BY <1>1, StartStepMoves, MovesStep, StartPublishesTasks, StartPublishesApart DEF Steps

\* The steps of a watcher.
LEMMA WatcherSteps ==
  ASSUME MoveInv, NEW c \in Conn, WatcherStep(c)
  PROVE  Steps(c)
<1>1. c \in Task
  BY DEF Task
<1> QED
  BY <1>1, WatchStepMoves, MovesStep, ReattachStepTasks, ReattachApart DEF Steps, WatcherStep

\* The steps of recovery.
LEMMA BootSteps ==
  ASSUME MoveInv, RecoveryIsAlone, BootStep
  PROVE  Steps(Boot)
<1>1. Boot \in Task
  BY DEF Task
<1> QED
  BY <1>1, RecoveryStepMoves, MovesStep, DoCloseSteps, ReattachStepTasks, ReattachApart
     DEF Steps, BootStep

-----------------------------------------------------------------------------
(***************************************************************************)
(* Recovery goes on, row by row.                                           *)
(***************************************************************************)
\* Every step of recovery within a row.
LEMMA RecoveryContinues ==
  ASSUME MoveInv, RecoveryStep(Boot), ~RecoverRow(Boot), ~RecoveryEnds(Boot)
  PROVE  Continues(Boot)
<1>1. /\ Boot \in Task /\ task[Boot] \in TaskRecord /\ NoRow \in Row
  BY TaskFacts, NoRowIsRow DEF Task
<1>2. CASE RecoveryReattaches(Boot)
  BY <1>1, <1>2, AtRow, ReattachesContinues DEF RecoveryReattaches, At, RowPcs
<1>3. CASE RecoveryDials(Boot)
  <2>1. \/ /\ unrecovered' = unrecovered
           /\ \E c \in Conn : Become(Boot, [task[Boot] EXCEPT !.pc = "check_remote", !.c = c])
        \/ NextRow(task[Boot])
    BY <1>3 DEF RecoveryDials
  <2>2. ASSUME NEW c \in Conn, unrecovered' = unrecovered,
               Become(Boot, [task[Boot] EXCEPT !.pc = "check_remote", !.c = c])
        PROVE  Continues(Boot)
    <3> DEFINE q == [task[Boot] EXCEPT !.pc = "check_remote", !.c = c]
    <3>1. q.pc = "check_remote" /\ q.sid = task[Boot].sid /\ q.kind = task[Boot].kind
      BY <1>1 DEF TaskRecord
    <3>2. Become(Boot, q)
      BY <2>2
    <3> HIDE DEF q
    <3> QED
      BY <1>1, <2>2, <3>1, <3>2, BecomeGoes
  <2> QED
    BY <2>1, <2>2, NextRowContinues
<1>4. CASE RecoveryInspects(Boot)
  <2>1. /\ unrecovered' = unrecovered
        /\ \E x \in BOOLEAN : Become(Boot, [task[Boot] EXCEPT !.pc = "check_done", !.absent = x])
    BY <1>4 DEF RecoveryInspects
  <2>2. ASSUME NEW x \in BOOLEAN,
               Become(Boot, [task[Boot] EXCEPT !.pc = "check_done", !.absent = x])
        PROVE  Continues(Boot)
    <3> DEFINE q == [task[Boot] EXCEPT !.pc = "check_done", !.absent = x]
    <3>1. q.pc = "check_done" /\ q.sid = task[Boot].sid /\ q.kind = task[Boot].kind
      BY <1>1 DEF TaskRecord
    <3>2. Become(Boot, q)
      BY <2>2
    <3> HIDE DEF q
    <3> QED
      BY <1>1, <2>1, <3>1, <3>2, BecomeGoes
  <2> QED
    BY <2>1, <2>2
<1>5. CASE RecoveryChecked(Boot)
  <2> DEFINE q == [task[Boot] EXCEPT !.pc = "drop", !.c = None]
  <2>1. \/ unrecovered' = unrecovered /\ Become(Boot, q)
        \/ NextRow(task[Boot])
    BY <1>5 DEF RecoveryChecked
  <2>2. q.pc = "drop" /\ q.sid = task[Boot].sid /\ q.kind = task[Boot].kind
    BY <1>1 DEF TaskRecord
  <2> HIDE DEF q
  <2> QED
    BY <1>1, <2>1, <2>2, BecomeGoes, NextRowContinues
<1>6. CASE RecoveryDrops(Boot) \/ RecoveryClearsLost(Boot)
  <2>1. (Goto(Boot, "dropped") \/ Goto(Boot, "mark_lost")) /\ unrecovered' = unrecovered
    BY <1>6 DEF RecoveryDrops, RecoveryClearsLost
  <2> QED
    BY <1>1, <2>1, GotoGoes
<1>7. CASE RecoveryReleases(Boot) \/ RecoveryMarks(Boot)
  <2>1. NextRow(task[Boot])
    BY <1>7 DEF RecoveryReleases, RecoveryMarks
  <2> QED
    BY <2>1, NextRowContinues
<1> QED
  BY <1>2, <1>3, <1>4, <1>5, <1>6, <1>7 DEF RecoveryStep

\* Recovery runs alone until it ends, and the rows it has not handled exist.
LEMMA BootKeepsAlone ==
  ASSUME MoveInv, RecoveryIsAlone, BootStep
  PROVE  RecoveryIsAlone'
<1>1. Boot \in Task /\ task[Boot].pc # "idle"
  BY DEF Task, BootStep, RecoveryStep, RecoverRow, RecoveryReattaches, RecoveryEnds,
     RecoveryDials, RecoveryInspects, RecoveryChecked, RecoveryDrops, RecoveryReleases,
     RecoveryClearsLost, RecoveryMarks, DoCloseStep, DoCloseReads, DoCloseTakesTunnel,
     DoCloseStopsListener, DoCloseDials, DoCloseStopsRemote, DoCloseClosesConn,
     DoCloseForgets, DoCloseFinishes, DoCloseReleases, ReattachStep, Reconnects, Interrupted,
     Inspects, RemovesAbsent, ReattachVerifies, ReattachInstalls, ReattachReads, DropsConn,
     BackoffEnds, At
<1>2. task[Boot].kind = "boot"
  BY <1>1, BootFacts
<1>3. \A o \in Op : task[o].pc = "idle" /\ task'[o] = task[o]
  BY <1>1, BootSteps, ServiceAssumption
     DEF RecoveryIsAlone, Active, Steps, Apart, Closers
<1>4. unrecovered' \subseteq unrecovered
  BY <1>1, RecoveryShrinks, DoCloseShrinks, ReattachStepShrinks DEF BootStep
<1>5. unrecovered \subseteq Sid /\ row \in [Sid -> Row] /\ StoreTypeOK
  BY DEF MoveInv, TypeOK, StoreTypeOK
<1>6. CASE RecoverRow(Boot)
  <2>1. task'[Boot].pc # "idle"
    BY <1>6, RecoverRowMoves
  <2>2. task[Boot].sid = None /\ row' = row
    BY <1>1, <1>6, BootFacts DEF RecoverRow, At
  <2>3. \A s \in unrecovered : Exists(s)
    BY <1>5, <2>2, NoneAssumption DEF RecoveryIsAlone
  <2> QED
    BY <1>3, <1>4, <2>1, <2>2, <2>3 DEF RecoveryIsAlone, Active, Exists
<1>7. CASE RecoveryEnds(Boot)
  BY <1>3, <1>4, <1>7 DEF RecoveryEnds, RecoveryIsAlone, Active
<1>8. CASE ~RecoverRow(Boot) /\ ~RecoveryEnds(Boot)
  <2>1. Continues(Boot)
    BY <1>1, <1>8, RecoveryContinues, DoCloseContinues, ReattachContinues DEF BootStep
  <2>2. /\ task'[Boot].pc # "idle"
        /\ \/ task'[Boot].sid = task[Boot].sid
           \/ task[Boot].sid \notin unrecovered'
    BY <1>2, <2>1 DEF Continues, Goes
  <2>3. \A s \in Sid \ {task[Boot].sid} : Exists(s) => Exists(s)'
    <3>1. Edited(task[Boot].sid) \/ Delete(task[Boot].sid)
      BY <1>1, RecoveryRows, DoCloseRows, ReattachRows DEF BootStep
    <3> QED
      BY <1>5, <3>1, EditedRows DEF Delete, Exists
  <2> QED
    BY <1>3, <1>4, <1>5, <2>2, <2>3 DEF RecoveryIsAlone, Active
<1> QED
  BY <1>6, <1>7, <1>8

-----------------------------------------------------------------------------
(***************************************************************************)
(* The other steps leave recovery alone.                                   *)
(***************************************************************************)
\* The start task leaves recovery's list alone.
LEMMA StartShrinks ==
  ASSUME NEW s \in Sid, StartStep(s)
  PROVE  unrecovered' = unrecovered
BY DEF StartStep, StartConnects, StartInstalls, StartLaunches, StartForwards,
     StartForwarded, StartPublishes, StartVerifies, StartDone, StartUnhandled,
     StartCancelled, StartFails, CleanupCancelled, CleanupDecides, CleanupWatcherEnded,
     CleanupListener, CleanupRemote, CleanupConn, CleanupMarks

\* Start tasks and watchers only edit rows.
LEMMA OthersKeepAlone ==
  ASSUME MoveInv, RecoveryIsAlone, NEW t \in Sid \cup Conn, Apart(t), NEW s, Edited(s),
         unrecovered' \subseteq unrecovered
  PROVE  RecoveryIsAlone'
<1>1. \A u \in Closers : task'[u] = task[u]
  BY ServiceAssumption DEF Apart, Closers
<1>2. \A u \in Sid : Exists(u) => Exists(u)'
  BY EditedRows DEF MoveInv, TypeOK, Exists
<1>3. unrecovered \subseteq Sid
  BY DEF MoveInv, TypeOK
<1> QED
  BY <1>1, <1>2, <1>3 DEF RecoveryIsAlone, Active, Closers

\* Requests are served once recovery is over.
LEMMA OpKeepsAlone ==
  ASSUME RecoveryIsAlone, NEW o \in Op, Apart(o), unrecovered' \subseteq unrecovered,
         ~Active(Boot)
  PROVE  RecoveryIsAlone'
BY ServiceAssumption DEF RecoveryIsAlone, Apart, Closers, Active

\* Only a running request takes steps.
LEMMA OpIsActive ==
  ASSUME NEW o \in Op, OpStep(o)
  PROVE  Active(o)
BY DEF OpStep, OpenStep, CloseStep, RetryStep, Enter, OpenChecks, OpenStarts,
     CloseRecordsIntent, CloseCancelsStart, CloseStarts, RetryBegins, RetryProceeds,
     RetryReopens, DoCloseStep, DoCloseReads, DoCloseTakesTunnel,
     DoCloseStopsListener, DoCloseDials, DoCloseStopsRemote, DoCloseClosesConn,
     DoCloseForgets, DoCloseFinishes, DoCloseReleases, ReattachStep, Reconnects, Interrupted,
     Inspects, RemovesAbsent, ReattachVerifies, ReattachInstalls, ReattachReads, DropsConn,
     BackoffEnds, At, Active

\* A request adds nothing to recovery's list.
LEMMA OpShrinks ==
  ASSUME MoveInv, NEW o \in Op, OpStep(o)
  PROVE  unrecovered' \subseteq unrecovered
<1>1. o \in Task /\ task[o] \in TaskRecord
  BY OpFacts
<1>2. CASE OpenStep(o) \/ CloseStep(o)
  BY <1>2 DEF OpenStep, Enter, OpenChecks, OpenStarts, CloseStep, CloseRecordsIntent,
     CloseCancelsStart, CloseStarts
<1>3. CASE RetryStep(o)
  <2>1. CASE RetryReopens(o)
    BY <2>1 DEF RetryReopens
  <2>2. CASE ~RetryReopens(o)
    <3> DEFINE r == [task[o] EXCEPT !.tries = 1]
    <3>1. unrecovered' = unrecovered \/ Reattaches(o, r)
      BY <1>3, <2>2 DEF RetryStep, RetryBegins, RetryProceeds, RetriesNow
    <3>2. task[o].kind = "retry"
      <4>1. task[o].kind = "retry"
        BY <1>3, <2>2 DEF RetryStep, RetryBegins, RetryProceeds
      <4> QED
        BY <4>1
    <3>3. r.kind = "retry"
      BY <1>1, <3>2 DEF TaskRecord
    <3> HIDE DEF r
    <3> QED
      BY <3>1, <3>3, ReattachesShrinks
  <2> QED
    BY <2>1, <2>2
<1>4. CASE DoCloseStep(o) \/ ReattachStep(o)
  BY <1>1, <1>4, DoCloseShrinks, ReattachStepShrinks
<1> QED
  BY <1>2, <1>3, <1>4 DEF OpStep

-----------------------------------------------------------------------------
(***************************************************************************)
(* The parts of the invariant together, and each step's.                   *)
(***************************************************************************)
\* The invariant by its parts.
LEMMA InvParts ==
  LifecycleInv <=> StoreInv /\ TasksOK(task, lock) /\ WorldOK /\ RecoveryIsAlone
BY DEF LifecycleInv, TypeOK, StoreInv, TasksOK, WorldOK, TaskShape, LockOrder,
   FreshConnections, ShapeOK

\* The invariant by the parts the earlier lemmas assume.
LEMMA InvIsMoveInv ==
  ASSUME LifecycleInv
  PROVE  MoveInv /\ StoreInv /\ RecoveryIsAlone /\ WorldOK
BY InvParts DEF LifecycleInv, MoveInv

\* The next state's invariant from its parts.
LEMMA NextParts ==
  ASSUME StoreInv', TasksOK(task', lock'), WorldOK', RecoveryIsAlone'
  PROVE  LifecycleInv'
BY DEF LifecycleInv, TypeOK, StoreInv, TasksOK, WorldOK, TaskShape, LockOrder,
   FreshConnections, ShapeOK

\* What a step does to the table: nothing, or one statement.
Writes == row' = row \/ \E u \in Sid : Statement(u)

\* One statement at most: the table keeps its invariant.
LEMMA WritesKeepStore ==
  ASSUME StoreInv, Writes
  PROVE  StoreInv'
<1>1. CASE row' = row
  BY <1>1 DEF StoreInv, StoreTypeOK, OneRowPerAlias, ClosingRowIsDown, Exists
<1> QED
  BY <1>1, StatementPreserves DEF Writes

\* Edits and deletions are such steps.
LEMMA RowsAreWrites ==
  ASSUME NEW s, Edited(s) \/ (s \in Sid /\ Delete(s))
  PROVE  Writes
BY EditedIsStatement DEF Writes, Statement

\* A request issues at most one statement per step.
LEMMA OpWrites ==
  ASSUME MoveInv, NEW o \in Op, OpStep(o)
  PROVE  Writes
<1>1. o \in Task /\ (Busy(task[o]) => task[o].alias \in Alias)
  BY OpFacts
<1>2. CASE DoCloseStep(o) \/ ReattachStep(o)
  BY <1>1, <1>2, DoCloseRows, ReattachRows, RowsAreWrites
<1>3. CASE OpenStep(o) \/ CloseStep(o) \/ RetryStep(o)
  <2>1. At(o, "looked_up") => task[o].alias \in Alias
    BY <1>1 DEF At, Busy, Holding
  <2> QED
    BY <1>3, <2>1, OpRows, FreeSids, RowsAreWrites DEF Writes, Statement
<1> QED
  BY <1>2, <1>3 DEF OpStep

\* A request arrives.
LEMMA RequestKeeps ==
  ASSUME LifecycleInv, NEW o \in Op, NEW kind \in Requests, NEW a \in Alias,
         Request(o, kind, a)
  PROVE  LifecycleInv' /\ row' = row
<1>1. MoveInv /\ StoreInv /\ RecoveryIsAlone /\ WorldOK /\ o \in Task
  BY InvIsMoveInv, OpFacts
<1>2. Steps(o)
  BY <1>1, RequestMoves, MovesStep
<1>3. WorldOK'
  BY <1>1 DEF Request, WorldOK, memory, world
<1>4. row' = row /\ unrecovered' = unrecovered /\ ~Active(Boot)
  BY DEF Request
<1>5. RecoveryIsAlone'
  BY <1>1, <1>2, <1>4, OpKeepsAlone DEF Steps
<1> QED
  BY <1>1, <1>2, <1>3, <1>4, <1>5, NextParts, WritesKeepStore DEF Writes, Steps

\* A request handler takes a step.
LEMMA OpKeeps ==
  ASSUME LifecycleInv, NEW o \in Op, OpStep(o)
  PROVE  LifecycleInv' /\ Writes
<1>1. MoveInv /\ StoreInv /\ RecoveryIsAlone /\ o \in Task
  BY InvIsMoveInv, OpFacts
<1>2. Steps(o) /\ Writes
  BY <1>1, OpSteps, OpWrites
<1>3. WorldOK'
  BY <1>1, OpWorld, DoCloseWorld, ReattachWorld DEF OpStep
<1>4. ~Active(Boot)
  BY <1>1, OpIsActive DEF RecoveryIsAlone
<1>5. RecoveryIsAlone'
  BY <1>1, <1>2, <1>4, OpKeepsAlone, OpShrinks DEF Steps
<1> QED
  BY <1>1, <1>2, <1>3, <1>5, NextParts, WritesKeepStore DEF Steps

\* A start task takes a step.
LEMMA StartKeeps ==
  ASSUME LifecycleInv, NEW s \in Sid, StartStep(s)
  PROVE  LifecycleInv' /\ Writes
<1>1. MoveInv /\ StoreInv /\ RecoveryIsAlone
  BY InvIsMoveInv
<1>2. Steps(s) /\ Edited(s) /\ Writes
  BY <1>1, StartSteps, StartRows, RowsAreWrites
<1>3. WorldOK'
  BY <1>1, StartBodyWorld, StartCleanupWorld DEF StartStep
<1>4. RecoveryIsAlone'
  BY <1>1, <1>2, OthersKeepAlone, StartShrinks DEF Steps
<1> QED
  BY <1>1, <1>2, <1>3, <1>4, NextParts, WritesKeepStore DEF Steps

\* A watcher takes a step.
LEMMA WatcherKeeps ==
  ASSUME LifecycleInv, NEW c \in Conn, WatcherStep(c)
  PROVE  LifecycleInv' /\ Writes
<1>1. MoveInv /\ StoreInv /\ RecoveryIsAlone /\ c \in Task
  BY InvIsMoveInv DEF Task
<1>2. Steps(c) /\ Edited(task[c].sid)
  BY <1>1, WatcherSteps, WatchRows, ReattachRows DEF WatcherStep
<1>3. WorldOK'
  BY <1>1, WatchWorld, ReattachWorld DEF WatcherStep
<1>4. RecoveryIsAlone'
  BY <1>1, <1>2, OthersKeepAlone, WatchShrinks, ReattachStepShrinks DEF Steps, WatcherStep
<1> QED
  BY <1>1, <1>2, <1>3, <1>4, NextParts, WritesKeepStore, RowsAreWrites DEF Steps

\* Recovery takes a step.
LEMMA BootKeeps ==
  ASSUME LifecycleInv, BootStep
  PROVE  LifecycleInv' /\ Writes
<1>1. MoveInv /\ StoreInv /\ RecoveryIsAlone /\ Boot \in Task
  BY InvIsMoveInv DEF Task
<1>2. Steps(Boot)
  BY <1>1, BootSteps
<1>3. Writes
  BY <1>1, RecoveryRows, DoCloseRows, ReattachRows, RowsAreWrites DEF BootStep
<1>4. WorldOK'
  BY <1>1, RecoveryWorld, DoCloseWorld, ReattachWorld DEF BootStep
<1>5. RecoveryIsAlone'
  BY <1>1, BootKeepsAlone
<1> QED
  BY <1>1, <1>2, <1>3, <1>4, <1>5, NextParts, WritesKeepStore DEF Steps

\* A step of the outside world leaves rows, locks and tasks alone.
LEMMA StillKeeps ==
  ASSUME LifecycleInv, UNCHANGED <<row, lock, task, unrecovered>>, WorldOK'
  PROVE  LifecycleInv'
<1>1. StoreInv /\ RecoveryIsAlone /\ TasksOK(task, lock)
  BY InvIsMoveInv, InvParts
<1>2. RecoveryIsAlone'
  BY <1>1 DEF RecoveryIsAlone, Active, Exists
<1> QED
  BY <1>1, <1>2, NextParts, WritesKeepStore DEF Writes

\* The helper records or fails, the editor process dies, its pid is reused.
LEMMA HelperKeeps ==
  ASSUME LifecycleInv, NEW s \in Sid,
         HelperStep(s) \/ ProcessDies(s) \/ PidReused(s)
  PROVE  LifecycleInv' /\ row' = row
<1>1. WorldOK
  BY InvIsMoveInv
<1>2. /\ UNCHANGED <<row, memory, conn, abandoned, lock, task, cancelled, unrecovered>>
      /\ \E x \in RemoteState : remote' = [remote EXCEPT ![s] = x]
  BY DEF HelperStep, HelperRecords, HelperFails, ProcessDies, PidReused, OnlyRemote,
     RemoteState
<1>3. NoFault \/ \E kind \in Faults : Fault(kind)
  BY DEF HelperStep, HelperRecords, HelperFails, ProcessDies, PidReused, Fault
<1>4. remote' \in [Sid -> RemoteState] /\ faults' \in 0..MaxFaults
  BY <1>1, <1>2, <1>3, RemoteTyped, FaultTyped DEF WorldOK
<1>5. WorldOK'
  BY <1>1, <1>2, <1>4 DEF WorldOK, memory
<1> QED
  BY <1>2, <1>5, StillKeeps

\* A forward is lost.
LEMMA LossKeeps ==
  ASSUME LifecycleInv, NEW c \in Conn, ConnectionLost(c)
  PROVE  LifecycleInv' /\ row' = row
<1>1. WorldOK
  BY InvIsMoveInv
<1>2. /\ UNCHANGED <<row, memory, remote, abandoned, lock, task, cancelled, unrecovered>>
      /\ conn' = [conn EXCEPT ![c] = FALSE]
      /\ \E kind \in Faults : Fault(kind)
  BY DEF ConnectionLost, Closed, Fault
<1>3. conn' \in [Conn -> BOOLEAN] /\ faults' \in 0..MaxFaults
  BY <1>1, <1>2, FaultTyped DEF WorldOK
<1>4. WorldOK'
  BY <1>1, <1>2, <1>3 DEF WorldOK, memory
<1> QED
  BY <1>2, <1>4, StillKeeps

-----------------------------------------------------------------------------
(***************************************************************************)
(* The start of the gateway, the first and after a crash.                  *)
(***************************************************************************)
\* The queue of a free lock.
LEMMA EmptyQueue == Queue(<<>>, {})
BY DEF Queue

\* With no task running, or only recovery between rows, and free locks.
LEMMA StartedTasks ==
  ASSUME NEW T \in [Task -> TaskRecord], NEW L,
         L = [a \in Alias |-> <<>>],
         \A t \in Task : T[t] = IdleTask \/ (t = Boot /\ T[t] = NextRowTask)
  PROVE  TasksOK(T, L)
<1>1. \A t \in Task : ShapeOK(t, T[t]) /\ ~Busy(T[t])
  BY IdleShape, NextRowShape
<1>2. \A t \in Task : ~Fresh(T[t])
  <2>1. NextRowTask.pc = "next_row" /\ IdleTask.pc = "idle"
    BY IdleTyped DEF NextRowTask, TaskRecord
  <2> QED
    BY <2>1 DEF Fresh
<1>3. L \in [Alias -> Seq(Task)]
  <2>1. <<>> \in Seq(Task)
    OBVIOUS
  <2> QED
    BY <2>1
<1>4. \A a \in Alias : Queue(L[a], Waiters(T, a))
  <2> TAKE a \in Alias
  <2>1. Waiters(T, a) = {}
    BY <1>1 DEF Waiters
  <2> QED
    BY <2>1, EmptyQueue
<1>5. LockOK(T, L)
  BY <1>1, <1>4 DEF LockOK, Busy
<1> QED
  BY <1>1, <1>2, <1>3, <1>5 DEF TasksOK, FreshOK

\* The first start.
LEMMA InitKeeps ==
  ASSUME Init
  PROVE  LifecycleInv
<1>1. StoreInv
  BY NoRowIsRow DEF Init, StoreInit, StoreInv, StoreTypeOK, OneRowPerAlias,
     ClosingRowIsDown, Exists
<1>2. TasksOK(task, lock)
  <2>1. task \in [Task -> TaskRecord] /\ \A t \in Task : task[t] = IdleTask
    BY IdleTyped DEF Init
  <2> QED
    BY <2>1, StartedTasks DEF Init
<1>3. WorldOK
  <2>1. NoTunnel \in Tunnel /\ 0 \in 0..MaxFaults /\ "none" \in RemoteState
    BY NoTunnelTyped, ServiceAssumption DEF RemoteState
  <2> QED
    BY <2>1 DEF WorldOK, Init
<1>4. RecoveryIsAlone
  BY IdleTyped DEF Init, RecoveryIsAlone, Active, Task
<1> QED
  BY <1>1, <1>2, <1>3, <1>4, InvParts

\* A crash and the restart.
LEMMA CrashKeeps ==
  ASSUME LifecycleInv, GatewayCrashes
  PROVE  LifecycleInv' /\ row' = row
<1>1. StoreInv /\ WorldOK /\ row' = row
  BY InvIsMoveInv DEF GatewayCrashes
<1>2. NextRowTask \in TaskRecord /\ NextRowTask.pc = "next_row"
  BY NextRowShape, IdleTyped DEF ShapeOK, NextRowTask, TaskRecord
<1>3. /\ task' = [t \in Task |-> IF t = Boot THEN NextRowTask ELSE IdleTask]
      /\ lock' = [a \in Alias |-> <<>>]
  BY DEF GatewayCrashes, NextRowTask
<1>4. TasksOK(task', lock')
  <2>1. /\ task' \in [Task -> TaskRecord]
        /\ \A t \in Task : task'[t] = IdleTask \/ (t = Boot /\ task'[t] = NextRowTask)
    BY <1>2, <1>3, IdleTyped
  <2> QED
    BY <1>3, <2>1, StartedTasks
<1>5. WorldOK'
  <2>1. NoTunnel \in Tunnel
    BY NoTunnelTyped
  <2>2. faults' \in 0..MaxFaults
    BY <1>1, FaultTyped DEF GatewayCrashes, WorldOK, Fault
  <2> QED
    BY <1>1, <2>1, <2>2 DEF WorldOK, GatewayCrashes
<1>6. RecoveryIsAlone'
  <2>1. task'[Boot].pc # "idle" /\ \A o \in Op : task'[o].pc = "idle"
    BY <1>2, <1>3, IdleTyped, ServiceAssumption DEF Task
  <2>2. \A s \in unrecovered' : Exists(s)'
    BY <1>1 DEF GatewayCrashes, Exists
  <2> QED
    BY <2>1, <2>2 DEF RecoveryIsAlone, Active
<1> QED
  BY <1>1, <1>4, <1>5, <1>6, NextParts, WritesKeepStore DEF Writes

\* Every step of the gateway and its environment preserves the invariant and
\* issues at most one statement.
LEMMA StepKeeps ==
  ASSUME LifecycleInv, [Next]_vars
  PROVE  LifecycleInv' /\ Writes
<1>1. CASE UNCHANGED vars
  <2>1. WorldOK'
    BY <1>1, InvIsMoveInv DEF vars, WorldOK
  <2> QED
    BY <1>1, <2>1, StillKeeps DEF vars, Writes
<1>2. CASE Environment
  BY <1>2, HelperKeeps, LossKeeps, CrashKeeps DEF Environment, Writes
<1>3. CASE Quiescent
  BY <1>1, <1>3 DEF Quiescent
<1>4. ASSUME NEW s \in Sid, StartStep(s) \/ HelperStep(s)
      PROVE  LifecycleInv' /\ Writes
  BY <1>4, StartKeeps, HelperKeeps DEF Writes
<1> QED
  BY <1>1, <1>2, <1>3, <1>4, RequestKeeps, OpKeeps, WatcherKeeps, BootKeeps DEF Next, Writes

\* At every moment of every execution: rows and variables are typed, an alias has
\* at most one row, each task is where its kind may be with the session it should
\* have, each lock's queue is exactly the tasks at work on its alias with the
\* holder first, connections being set up belong to one task, and recovery runs
\* alone (sessions.py as a whole).
THEOREM LifecycleInvariant == Spec => []LifecycleInv
<1>1. Init => LifecycleInv
  BY InitKeeps
<1>2. LifecycleInv /\ [Next]_vars => LifecycleInv'
  BY StepKeeps
<1> QED
  BY <1>1, <1>2, PTL DEF Spec

\* The type invariant of the lifecycle, for any sets of sessions, aliases,
\* connections and requests.
THEOREM LifecycleTypes == Spec => []TypeOK
<1>1. LifecycleInv => TypeOK
  BY DEF LifecycleInv
<1> QED
  BY <1>1, LifecycleInvariant, PTL

\* Once a close request is recorded for a session no task of the gateway, in any
\* interleaving and across crashes, withdraws it or makes the session starting or
\* ready again (mark_stopping against mark_ready, recovery and watchers).
THEOREM CloseIntentStays == Spec => CloseIntentIsFinal
<1>1. LifecycleInv /\ [Next]_vars =>
        [\A s \in Sid : row[s].close_reason =>
           \/ row'[s] = NoRow
           \/ row'[s].close_reason /\ row'[s].state \in {"stopping", "error"}]_row
  BY StepKeeps, StatementKeepsIntent, InvIsMoveInv DEF Writes
<1> QED
  BY <1>1, LifecycleInvariant, PTL DEF Spec, CloseIntentIsFinal

\* Two tasks never hold the lock of one alias (`async with` of _alias_locks), with
\* every early return, cancellation, timeout and requeueing.
THEOREM AliasLocksExclude == Spec => []OneHolder
<1>1. LifecycleInv => OneHolder
  BY DEF LifecycleInv, LockOrder, LockOK, OneHolder
<1> QED
  BY <1>1, LifecycleInvariant, PTL

-----------------------------------------------------------------------------
(***************************************************************************)
(* The lookup of open() is current while it holds the lock.                *)
(***************************************************************************)
\* open() has looked and found nothing.
Looked(o) == task[o].pc = "looked_up" /\ task[o].sid = None

\* Edits and deletions give no alias a new row.
LEMMA RowsShrink ==
  ASSUME StoreTypeOK, NEW s, Edited(s) \/ (s \in Sid /\ Delete(s)), NEW a
  PROVE  \A u \in Sid : row'[u].state # "closed" /\ row'[u].alias = a =>
           row[u].state # "closed" /\ row[u].alias = a
<1>1. CASE Edited(s)
  BY <1>1, EditedRows
<1>2. CASE s \in Sid /\ Delete(s)
  BY <1>2, NoRowIsRow DEF Delete, StoreTypeOK
<1> QED
  BY <1>1, <1>2

\* Another open's insert is for another alias.
LEMMA InsertElsewhere ==
  ASSUME MoveInv, NEW o \in Op, Looked(o), NEW p \in Op, p # o, At(p, "looked_up"),
         NewSid \in Sid, Insert(NewSid, task[p].alias)
  PROVE  \A u \in Sid : row'[u].state # "closed" /\ row'[u].alias = task[o].alias =>
           row[u].state # "closed" /\ row[u].alias = task[o].alias
<1>1. o \in Task /\ p \in Task /\ Holding(task[o]) /\ Holding(task[p])
  BY OpFacts DEF Looked, Holding, At
<1>2. task[o].alias # task[p].alias
  BY <1>1 DEF MoveInv, LockOrder, LockOK
<1>3. task[p].alias \in Alias
  BY <1>1, OpFacts DEF Busy
<1>4. row' = [row EXCEPT ![NewSid] = NewRow(task[p].alias)]
  BY DEF Insert
<1> QED
  BY <1>2, <1>3, <1>4, NewRowIsLive DEF MoveInv, TypeOK, StoreTypeOK

\* A request is at the point after its lookup, its insert or its record of a close
\* only by having just made it.
LEMMA ReturnsElsewhere ==
  ASSUME MoveInv, NEW o \in Op, OpStep(o), task'[o].pc \in {"looked_up", "inserted", "stopping"}
  PROVE  \/ Enter(o) /\ task'[o].pc = "looked_up"
         \/ OpenChecks(o) /\ task'[o].pc = "inserted"
         \/ CloseRecordsIntent(o) /\ Goto(o, "stopping") /\ task'[o].pc = "stopping"
<1>1. /\ o \in Task /\ task[o] \in TaskRecord /\ task \in [Task -> TaskRecord]
      /\ IdleTask.pc = "idle"
  BY OpFacts, IdleTyped DEF MoveInv, TypeOK
<1>2. ~End(o)
  BY <1>1 DEF End, Become
<1>3. ASSUME NEW p, p \notin {"looked_up", "inserted", "stopping"}, Goto(o, p) PROVE FALSE
  BY <1>1, <1>3 DEF Goto, TaskRecord
<1>4. ~Continues(o)
  <2>1. o # Boot
    BY ServiceAssumption
  <2> QED
    BY <2>1 DEF Continues, Goes
<1>5. ~DoCloseStep(o) /\ ~ReattachStep(o)
  BY <1>1, <1>4, DoCloseContinues, ReattachContinues
<1>6. OpenChecks(o) => task'[o].pc = "inserted"
  <2> DEFINE q == [task[o] EXCEPT !.pc = "inserted", !.sid = NewSid]
  <2>1. OpenChecks(o) => Become(o, q)
    BY <1>2 DEF OpenChecks
  <2>2. q.pc = "inserted"
    BY <1>1 DEF TaskRecord
  <2> HIDE DEF q
  <2> QED
    BY <1>1, <2>1, <2>2 DEF Become
<1>7. ~OpenStarts(o)
  <2> DEFINE s == task[o].sid
             r == StartTask(task[o].alias, s)
  <2>1. OpenStarts(o) => s \in Sid
    BY OpFacts DEF OpenStarts, At
  <2>2. OpenStarts(o) => End(o) \/ task' = [[task EXCEPT ![o] = IdleTask] EXCEPT ![s] = r]
    BY <1>1 DEF OpenStarts, StartTask
  <2>3. s \in Sid => s # o
    BY ServiceAssumption
  <2> HIDE DEF s, r
  <2> QED
    BY <1>1, <1>2, <2>1, <2>2, <2>3
<1>8. ASSUME DoesClose(o, task[o]) PROVE FALSE
  <2> DEFINE x == Read(task[o].sid)
             q == [task[o] EXCEPT !.pc = "fresh", !.rec = x, !.c = None, !.old = NoTunnel,
                                  !.exc = "none"]
  <2>1. q.pc = "fresh"
    BY <1>1 DEF TaskRecord
  <2>2. Become(o, q)
    BY <1>8 DEF DoesClose
  <2> HIDE DEF q
  <2> QED
    BY <1>1, <2>1, <2>2 DEF Become
<1>9. CloseStep(o) => CloseRecordsIntent(o) /\ Goto(o, "stopping") /\ task'[o].pc = "stopping"
  <2>1. StartsClosing(o) => DoesClose(o, task[o]) \/ Goto(o, "do_close")
    BY DEF StartsClosing
  <2>2. ~CloseCancelsStart(o) /\ ~CloseStarts(o)
    BY <1>3, <1>8, <2>1 DEF CloseCancelsStart, CloseStarts
  <2>3. CloseRecordsIntent(o) => Goto(o, "stopping")
    BY <1>2 DEF CloseRecordsIntent
  <2>4. Goto(o, "stopping") => task'[o].pc = "stopping"
    BY <1>1 DEF Goto, TaskRecord
  <2> QED
    BY <2>2, <2>3, <2>4 DEF CloseStep
<1>10. ASSUME RetriesNow(o), task[o].kind = "retry", task[o].sid \in Sid,
              task[o].alias \in Alias
       PROVE  FALSE
  <2> DEFINE r == [task[o] EXCEPT !.tries = 1]
  <2>1. Reattaches(o, r)
    BY <1>8, <1>10 DEF RetriesNow
  <2>2. r \in TaskRecord /\ r.kind = "retry" /\ r.sid = task[o].sid /\ r.alias = task[o].alias
    <3>1. 1 \in 0..MaxTries
      BY ServiceAssumption
    <3> QED
      BY <1>1, <1>10, <3>1 DEF TaskRecord
  <2> HIDE DEF r
  <2> QED
    BY <1>1, <1>4, <1>10, <2>1, <2>2, ReattachesContinues DEF Reattacher, KindOK
<1>11. ~RetryReopens(o)
  <2> DEFINE r == [IdleTask EXCEPT !.pc = "enter", !.kind = "open", !.alias = task[o].alias]
  <2>1. RetryReopens(o) => Become(o, r)
    BY <1>2 DEF RetryReopens
  <2>2. r.pc = "enter"
    BY IdleTyped DEF TaskRecord
  <2> HIDE DEF r
  <2> QED
    BY <1>1, <2>1, <2>2 DEF Become
<1>12. ASSUME At(o, "looked_up") \/ At(o, "start_settles") PROVE task[o].alias \in Alias
  BY <1>12, OpFacts DEF At, Busy, Holding
<1>13. ~RetryProceeds(o)
  BY <1>10, <1>12, OpFacts DEF RetryProceeds, At
<1>14. ~RetryBegins(o)
  <2>1. RetryBegins(o) /\ task[o].rec.state = "error" => task[o].sid \in Sid
    <3>1. task[o].rec.state = "error" => task[o].rec # NoRow
      BY DEF NoRow
    <3>2. ShapeOK(o, task[o])
      BY <1>1 DEF MoveInv, TaskShape
    <3> QED
      BY <1>1, <3>1, <3>2 DEF ShapeOK, TaskRecord, RetryBegins, At
  <2>2. RetryBegins(o) => RetriesNow(o) /\ task[o].rec.state = "error"
    BY <1>2, <1>3 DEF RetryBegins
  <2>3. RetryBegins(o) => task[o].kind = "retry" /\ At(o, "looked_up")
    BY DEF RetryBegins
  <2> QED
    BY <1>10, <1>12, <2>1, <2>2, <2>3
<1>15. Enter(o) => task'[o].pc = "looked_up"
  <2> DEFINE u == Lookup(task[o].alias)
             x == Read(u)
             q == [task[o] EXCEPT !.pc = "looked_up", !.sid = u, !.rec = x]
  <2>1. Enter(o) => Become(o, q)
    BY DEF Enter
  <2>2. q.pc = "looked_up"
    BY <1>1 DEF TaskRecord
  <2> HIDE DEF q
  <2> QED
    BY <1>1, <2>1, <2>2 DEF Become
<1> QED
  BY <1>5, <1>6, <1>7, <1>9, <1>11, <1>13, <1>14, <1>15 DEF OpStep, OpenStep, RetryStep

\* Entering reads the row under the lock.
LEMMA EnterIsCurrent ==
  ASSUME MoveInv, NEW o \in Op, Enter(o), task'[o].sid = None
  PROVE  RowsOf(task[o].alias) = {} /\ row' = row /\ task'[o].alias = task[o].alias
<1> DEFINE s == Lookup(task[o].alias)
           x == Read(s)
           q == [task[o] EXCEPT !.pc = "looked_up", !.sid = s, !.rec = x]
<1>1. /\ o \in Task /\ task[o] \in TaskRecord /\ task \in [Task -> TaskRecord]
  BY OpFacts DEF MoveInv, TypeOK
<1>2. Become(o, q) /\ row' = row
  BY DEF Enter
<1>3. s = None => RowsOf(task[o].alias) = {}
  BY NoneAssumption DEF Lookup, RowsOf
<1> HIDE DEF s, x
<1>4. q.sid = s /\ q.alias = task[o].alias
  BY <1>1 DEF TaskRecord
<1> HIDE DEF q
<1> QED
  BY <1>1, <1>2, <1>3, <1>4 DEF Become

\* If the alias gets no row, an empty lookup stays true.
LEMMA LookupKept ==
  ASSUME MoveInv, LookupIsCurrent, NEW o \in Op, Looked(o), task'[o] = task[o],
         \A u \in Sid : row'[u].state # "closed" /\ row'[u].alias = task[o].alias =>
           row[u].state # "closed" /\ row[u].alias = task[o].alias
  PROVE  RowsOf(task[o].alias)' = {}
BY DEF LookupIsCurrent, RowsOf, Exists, Looked, At

\* No step makes an open()'s empty lookup out of date.
LEMMA LookupStep ==
  ASSUME LifecycleInv, LookupIsCurrent, [Next]_vars
  PROVE  LookupIsCurrent'
<1> SUFFICES ASSUME NEW o \in Op, Looked(o)' PROVE RowsOf(task[o].alias)' = {}
  BY DEF LookupIsCurrent, Looked, At
<1>1. MoveInv /\ StoreTypeOK /\ o \in Task /\ RecoveryIsAlone
  BY InvIsMoveInv, OpFacts DEF LifecycleInv, TypeOK
<1>2. ASSUME task'[o] = task[o], NEW s, Edited(s) \/ (s \in Sid /\ Delete(s))
      PROVE  RowsOf(task[o].alias)' = {}
  BY <1>1, <1>2, RowsShrink, LookupKept DEF Looked
<1>3. CASE row' = row /\ task'[o] = task[o]
  BY <1>2, <1>3 DEF Edited
<1>4. ASSUME NEW p \in Op, NEW kind, NEW a, Request(p, kind, a)
      PROVE  RowsOf(task[o].alias)' = {}
  <2> DEFINE r == [IdleTask EXCEPT !.pc = "enter", !.kind = kind, !.alias = a]
  <2>1. Become(p, r) /\ row' = row
    BY <1>4 DEF Request
  <2>2. r.pc = "enter"
    BY IdleTyped DEF TaskRecord
  <2> HIDE DEF r
  <2> QED
    BY <1>1, <1>3, <2>1, <2>2 DEF Become, Looked, MoveInv, TypeOK
<1>5. CASE OpStep(o)
  <2>1. Enter(o)
    BY <1>1, <1>5, ReturnsElsewhere DEF Looked
  <2> QED
    BY <1>1, <2>1, EnterIsCurrent DEF Looked, RowsOf, Exists
<1>6. ASSUME NEW p \in Op, p # o, OpStep(p) PROVE RowsOf(task[o].alias)' = {}
  <2>1. p \in Task /\ task'[o] = task[o]
    BY <1>1, <1>6, OpSteps, OpFacts DEF Steps, Apart, Closers
  <2>2. CASE DoCloseStep(p) \/ ReattachStep(p)
    BY <1>1, <1>2, <2>1, <2>2, DoCloseRows, ReattachRows
  <2>3. CASE OpenStep(p) \/ CloseStep(p) \/ RetryStep(p)
    BY <1>1, <1>2, <1>6, <2>1, <2>3, OpRows, FreeSids, InsertElsewhere, LookupKept DEF Looked
  <2> QED
    BY <1>6, <2>2, <2>3 DEF OpStep
<1>7. ASSUME NEW s \in Sid, StartStep(s) PROVE RowsOf(task[o].alias)' = {}
  <2>1. task'[o] = task[o]
    BY <1>1, <1>7, StartSteps, ServiceAssumption DEF Steps, Apart, Closers
  <2> QED
    BY <1>1, <1>2, <1>7, <2>1, StartRows
<1>8. ASSUME NEW s \in Sid, HelperStep(s) \/ ProcessDies(s) \/ PidReused(s)
      PROVE  RowsOf(task[o].alias)' = {}
  BY <1>3, <1>8 DEF HelperStep, HelperRecords, HelperFails, ProcessDies, PidReused, OnlyRemote
<1>9. ASSUME NEW c \in Conn, WatcherStep(c) PROVE RowsOf(task[o].alias)' = {}
  <2>1. c \in Task /\ task'[o] = task[o]
    BY <1>1, <1>9, WatcherSteps, ServiceAssumption DEF Steps, Apart, Closers, Task
  <2> QED
    BY <1>1, <1>2, <1>9, <2>1, WatchRows, ReattachRows DEF WatcherStep
<1>10. CASE BootStep
  <2>1. Boot \in Task /\ task'[o] = task[o]
    BY <1>1, <1>10, BootSteps, ServiceAssumption DEF Steps, Apart, Closers, Task
  <2> QED
    BY <1>1, <1>2, <1>10, <2>1, RecoveryRows, DoCloseRows, ReattachRows DEF BootStep
<1>11. ASSUME NEW c \in Conn, ConnectionLost(c) PROVE RowsOf(task[o].alias)' = {}
  BY <1>3, <1>11 DEF ConnectionLost
<1>12. CASE GatewayCrashes
  <2>1. task'[o].pc = "idle"
    BY <1>1, <1>12, IdleTyped, ServiceAssumption DEF GatewayCrashes
  <2> QED
    BY <2>1 DEF Looked
<1>13. CASE UNCHANGED vars
  BY <1>3, <1>13 DEF vars
<1> QED
  BY <1>4, <1>5, <1>6, <1>7, <1>8, <1>9, <1>10, <1>11, <1>12, <1>13
     DEF Next, Environment, Quiescent

\* open() never inserts a row for an alias that has one: the answer of its lookup
\* is still true when it is used, since whoever could insert another row would hold
\* the same alias lock.
THEOREM LookupStaysCurrent == Spec => []LookupIsCurrent
<1>1. Init => LookupIsCurrent
  BY IdleTyped DEF Init, LookupIsCurrent, At, Task
<1>2. LifecycleInv /\ LookupIsCurrent /\ [Next]_vars => LookupIsCurrent'
  BY LookupStep
<1> QED
  BY <1>1, <1>2, LifecycleInvariant, PTL DEF Spec

-----------------------------------------------------------------------------
(***************************************************************************)
(* The capacity.  Only _capacity_acquire adds a slot, and it counts first; *)
(* everything else but a restart keeps the slots or gives one back.        *)
(***************************************************************************)
SlotMoves ==
  \/ owned' = owned
  \/ \E s : owned' = owned \ {s}
  \/ ~(Cardinality(owned) >= Capacity) /\ \E s : owned' = owned \cup {s}

\* A request handler outside _do_close and a reattachment.
LEMMA OpMovesSlot ==
  ASSUME NEW t, OpenStep(t) \/ CloseStep(t) \/ RetryStep(t)
  PROVE  SlotMoves
BY DEF OpenStep, CloseStep, RetryStep, Enter, OpenChecks, OpenStarts, CloseRecordsIntent,
   CloseCancelsStart, CloseStarts, RetryBegins, RetryProceeds, RetryReopens, SlotMoves,
   memory

\* The start task and the helper: a failed open keeps its slot with its error row.
LEMMA StartMovesNoSlot ==
  ASSUME NEW s, StartStep(s) \/ HelperStep(s)
  PROVE  owned' = owned
BY DEF StartStep, HelperStep, StartCancelled, StartConnects, StartInstalls,
   StartLaunches, StartForwards, StartForwarded, StartPublishes, StartVerifies,
   StartDone, StartUnhandled, StartFails, CleanupCancelled, CleanupDecides,
   CleanupWatcherEnded, CleanupListener, CleanupRemote, CleanupConn, CleanupMarks,
   HelperRecords, HelperFails, OnlyRemote, memory

\* _do_close gives the slot back after the row is gone.
LEMMA DoCloseMovesSlot ==
  ASSUME NEW t, DoCloseStep(t)
  PROVE  SlotMoves
BY DEF DoCloseStep, DoCloseReads, DoCloseTakesTunnel, DoCloseStopsListener,
   DoCloseDials, DoCloseStopsRemote, DoCloseClosesConn, DoCloseForgets,
   DoCloseFinishes, DoCloseReleases, SlotMoves, memory

\* A reattachment, whoever runs it.
LEMMA ReattachMovesNoSlot ==
  ASSUME NEW t, ReattachStep(t)
  PROVE  owned' = owned
BY DEF ReattachStep, Reconnects, Interrupted, Inspects, RemovesAbsent,
   ReattachVerifies, ReattachInstalls, ReattachReads, DropsConn, BackoffEnds, memory

\* A forward watcher: a lost session keeps its slot.
LEMMA WatchMovesNoSlot ==
  ASSUME NEW c, WatchStep(c)
  PROVE  owned' = owned
BY DEF WatchStep, WatcherWakes, WatcherQueues, WatcherReads, WatcherExits,
   WatcherDrops, WatcherAttempts, WatcherLate, WatcherMarksLoss, WatcherCancelled, memory

\* recover_all only releases.
LEMMA RecoveryMovesSlot ==
  ASSUME NEW b, RecoveryStep(b)
  PROVE  SlotMoves
BY DEF RecoveryStep, RecoverRow, RecoveryReattaches, RecoveryEnds, RecoveryDials,
   RecoveryInspects, RecoveryChecked, RecoveryDrops, RecoveryReleases,
   RecoveryClearsLost, RecoveryMarks, SlotMoves, memory

\* Every step, but for the restart that counts the rows anew.
LEMMA StepMovesSlot ==
  ASSUME [Next]_vars, ~GatewayCrashes
  PROVE  SlotMoves
<1>1. CASE UNCHANGED vars
  BY <1>1 DEF vars, SlotMoves
<1>2. ASSUME NEW o \in Op, NEW kind, NEW a, Request(o, kind, a) PROVE SlotMoves
  BY <1>2 DEF Request, memory, SlotMoves
<1>3. ASSUME NEW o \in Op, OpStep(o) PROVE SlotMoves
  BY <1>3, OpMovesSlot, DoCloseMovesSlot, ReattachMovesNoSlot DEF OpStep, SlotMoves
<1>4. ASSUME NEW s \in Sid, StartStep(s) \/ HelperStep(s) PROVE SlotMoves
  BY <1>4, StartMovesNoSlot DEF SlotMoves
<1>5. ASSUME NEW c \in Conn, WatcherStep(c) PROVE SlotMoves
  BY <1>5, WatchMovesNoSlot, ReattachMovesNoSlot DEF WatcherStep, SlotMoves
<1>6. CASE BootStep
  BY <1>6, RecoveryMovesSlot, DoCloseMovesSlot, ReattachMovesNoSlot DEF BootStep, SlotMoves
<1>7. CASE Environment
  BY <1>7 DEF Environment, ProcessDies, PidReused, OnlyRemote, ConnectionLost, memory,
     SlotMoves
<1>8. CASE Quiescent
  BY <1>8, <1>1 DEF Quiescent
<1> QED
  BY <1>1, <1>2, <1>3, <1>4, <1>5, <1>6, <1>7, <1>8 DEF Next

\* The gateway never owns more slots than its capacity, as long as it is not
\* restarted (recover_all takes a slot for every row it finds, counted or not).
THEOREM SlotsAreBounded ==
  ASSUME "crash" \notin Faults
  PROVE  Spec => []CapacityIsRespected
<1> DEFINE Inv == IsFiniteSet(owned) /\ Cardinality(owned) <= Capacity
<1>1. Init => Inv
  BY FS_EmptySet, ServiceAssumption DEF Init
<1>2. Inv /\ [Next]_vars => Inv'
  <2> SUFFICES ASSUME Inv, [Next]_vars PROVE Inv'
    OBVIOUS
  <2>1. Cardinality(owned) \in Nat
    BY FS_CardinalityType
  <2>2. SlotMoves
    BY StepMovesSlot DEF GatewayCrashes, Fault
  <2>3. ASSUME NEW s, owned' = owned \ {s} PROVE Inv'
    <3>1. IsFiniteSet(owned \ {s}) /\ Cardinality(owned \ {s}) <= Cardinality(owned)
      BY FS_Subset
    <3>2. Cardinality(owned \ {s}) \in Nat
      BY <3>1, FS_CardinalityType
    <3> QED
      BY <2>1, <2>3, <3>1, <3>2, ServiceAssumption
  <2>4. ASSUME ~(Cardinality(owned) >= Capacity), NEW s, owned' = owned \cup {s} PROVE Inv'
    <3>1. /\ IsFiniteSet(owned \cup {s})
          /\ \/ Cardinality(owned \cup {s}) = Cardinality(owned)
             \/ Cardinality(owned \cup {s}) = Cardinality(owned) + 1
      BY FS_AddElement
    <3> QED
      BY <2>1, <2>4, <3>1, ServiceAssumption
  <2> QED
    BY <2>2, <2>3, <2>4 DEF SlotMoves
<1>3. Inv => CapacityIsRespected
  BY DEF CapacityIsRespected
<1> QED
  BY <1>1, <1>2, <1>3, PTL DEF Spec

-----------------------------------------------------------------------------
(***************************************************************************)
(* The editor.  Only StartInstalls starts one, and it starts one for a     *)
(* session that never had an editor.                                       *)
(***************************************************************************)
\* A change of the editor of s that RemoteEditor allows, once it was started.
EditorChanges ==
  {<<"starting", "running">>, <<"starting", "none">>, <<"running", "dead">>,
   <<"running", "none">>, <<"dead", "none">>, <<"dead", "reused">>, <<"reused", "none">>}

Settles ==
  \/ remote' = remote
  \/ \E s \in Sid, x \in RemoteState :
       /\ remote' = [remote EXCEPT ![s] = x]
       /\ <<remote[s], x>> \in EditorChanges

\* A stop and a removal are among these changes.
LEMMA CommandsSettle ==
  ASSUME remote \in [Sid -> RemoteState], NEW s, Stopped(s) \/ Removed(s)
  PROVE  Settles
<1>1. CASE s \notin Sid
  <2>1. remote' = remote
    BY <1>1 DEF Stopped, Removed
  <2> QED
    BY <2>1 DEF Settles
<1>2. CASE s \in Sid /\ Stopped(s)
  <2> DEFINE x == IF remote[s] = "running" THEN "dead" ELSE remote[s]
  <2>1. remote' = [remote EXCEPT ![s] = x]
    BY <1>2 DEF Stopped
  <2>2. x = remote[s] => remote' = remote
    BY <1>2, <2>1
  <2>3. x # remote[s] => <<remote[s], x>> \in EditorChanges /\ x \in RemoteState
    BY DEF EditorChanges, RemoteState
  <2> QED
    BY <1>2, <2>1, <2>2, <2>3 DEF Settles
<1>3. CASE s \in Sid /\ Removed(s)
  <2> DEFINE x == IF remote[s] = "starting" THEN remote[s] ELSE "none"
  <2>1. remote' = [remote EXCEPT ![s] = x]
    BY <1>3 DEF Removed
  <2>2. x = remote[s] => remote' = remote
    BY <1>3, <2>1
  <2>3. x # remote[s] => <<remote[s], x>> \in EditorChanges /\ x \in RemoteState
    BY <1>3 DEF EditorChanges, RemoteState
  <2> QED
    BY <1>3, <2>1, <2>2, <2>3 DEF Settles
<1> QED
  BY <1>1, <1>2, <1>3

\* The start task, but for session-start itself.
LEMMA StartSettles ==
  ASSUME MoveInv, NEW s \in Sid, StartStep(s), ~StartInstalls(s)
  PROVE  Settles
<1>1. remote' = remote \/ Stopped(s)
  BY DEF StartStep, StartCancelled, StartConnects, StartLaunches, StartForwards,
     StartForwarded, StartPublishes, StartVerifies, StartDone, StartUnhandled, StartFails,
     CleanupCancelled, CleanupDecides, CleanupWatcherEnded, CleanupListener,
     CleanupRemote, CleanupConn, CleanupMarks, StopsRemote, StopFails, world
<1> QED
  BY <1>1, CommandsSettle DEF Settles, MoveInv, TypeOK

\* _do_close stops the editor and removes its record.
LEMMA DoCloseSettles ==
  ASSUME MoveInv, NEW t, DoCloseStep(t)
  PROVE  Settles
<1>1. remote' = remote \/ Stopped(task[t].sid) \/ Removed(task[t].sid)
  BY DEF DoCloseStep, DoCloseReads, DoCloseTakesTunnel, DoCloseStopsListener, DoCloseDials,
     DoCloseStopsRemote, DoCloseClosesConn, DoCloseForgets, DoCloseFinishes,
     DoCloseReleases, StopFails, world
<1> QED
  BY <1>1, CommandsSettle DEF Settles, MoveInv, TypeOK

\* An attempt to reattach removes the record of an absent editor.
LEMMA ReattachSettles ==
  ASSUME MoveInv, NEW t, ReattachStep(t)
  PROVE  Settles
<1>1. remote' = remote \/ Removed(task[t].sid)
  BY DEF ReattachStep, Reconnects, Interrupted, Inspects, RemovesAbsent, ReattachVerifies,
     ReattachInstalls, ReattachReads, DropsConn, BackoffEnds, world
<1> QED
  BY <1>1, CommandsSettle DEF Settles, MoveInv, TypeOK

\* So does startup recovery.
LEMMA RecoverySettles ==
  ASSUME MoveInv, NEW b, RecoveryStep(b)
  PROVE  Settles
<1>1. remote' = remote \/ Removed(task[b].sid)
  BY DEF RecoveryStep, RecoverRow, RecoveryReattaches, RecoveryEnds, RecoveryDials,
     RecoveryInspects, RecoveryChecked, RecoveryDrops, RecoveryReleases,
     RecoveryClearsLost, RecoveryMarks, world
<1> QED
  BY <1>1, CommandsSettle DEF Settles, MoveInv, TypeOK

\* No other task touches the host.
LEMMA OthersSettle ==
  ASSUME \/ \E o : OpenStep(o) \/ CloseStep(o) \/ RetryStep(o)
         \/ \E c : WatchStep(c) \/ ConnectionLost(c)
         \/ \E o, kind, a : Request(o, kind, a)
         \/ GatewayCrashes \/ UNCHANGED vars
  PROVE  Settles
<1>1. remote' = remote
  BY DEF OpenStep, CloseStep, RetryStep, Enter, OpenChecks, OpenStarts, CloseRecordsIntent,
     CloseCancelsStart, CloseStarts, RetryBegins, RetryProceeds, RetryReopens, WatchStep,
     WatcherWakes, WatcherQueues, WatcherReads, WatcherExits, WatcherDrops,
     WatcherAttempts, WatcherLate, WatcherMarksLoss, WatcherCancelled, ConnectionLost,
     Request, GatewayCrashes, vars, world
<1> QED
  BY <1>1 DEF Settles

\* The helper and the host.
LEMMA HelperSettles ==
  ASSUME NEW s \in Sid, HelperStep(s) \/ ProcessDies(s) \/ PidReused(s)
  PROVE  Settles
<1>1. PICK x \in RemoteState : /\ remote' = [remote EXCEPT ![s] = x]
                               /\ <<remote[s], x>> \in EditorChanges
  BY DEF HelperStep, HelperRecords, HelperFails, ProcessDies, PidReused, OnlyRemote,
     EditorChanges, RemoteState
<1> QED
  BY <1>1 DEF Settles

\* Every step but session-start is such a change.
LEMMA StepSettles ==
  ASSUME MoveInv, [Next]_vars, \A s \in Sid : ~StartInstalls(s)
  PROVE  Settles
BY StartSettles, DoCloseSettles, ReattachSettles, RecoverySettles, OthersSettle, HelperSettles
   DEF Next, OpStep, WatcherStep, BootStep, Environment, Quiescent

\* The start tasks but t, if t is one, keep their records.
OtherStarts(t) == \A u \in Sid \ {t} : task'[u] = task[u]

\* A move changes one task.
LEMMA MovesOtherStarts ==
  ASSUME NEW t \in Task, Moves(t)
  PROVE  OtherStarts(t)
BY DEF Moves, Changes, OtherStarts, Task

\* Installing a tunnel starts a watcher, which is no start task.
LEMMA PublishOtherStarts ==
  ASSUME MoveInv, NEW s \in Sid, StartPublishes(s)
  PROVE  OtherStarts(s)
<1> DEFINE l == task[s].ledger \cup {"registry"}
           r == [task[s] EXCEPT !.pc = "verify", !.ledger = l]
           c == task[s].c
           w == Watcher(s)
<1>1. task' = [[task EXCEPT ![s] = r] EXCEPT ![c] = w]
  BY DEF StartPublishes
<1>2. c \in Conn \cup {None} /\ task \in [Task -> TaskRecord] /\ s \in Task
  BY TaskFacts DEF Task, MoveInv, TypeOK
<1>3. \A u \in Sid : u \in Task /\ u # c
  BY <1>2, ServiceAssumption, NoneAssumption DEF Task
<1> HIDE DEF r, c, w
<1> QED
  BY <1>1, <1>2, <1>3 DEF OtherStarts

\* So does a reattachment.
LEMMA ReattachOtherStarts ==
  ASSUME MoveInv, NEW t \in Task, ReattachStep(t)
  PROVE  OtherStarts(t)
<1>1. CASE ReattachInstalls(t)
  <2>1. CASE ~Installable(t)
    BY <1>1, <2>1, InstallFailsMoves, MovesOtherStarts
  <2>2. CASE Installable(t)
    <3> DEFINE r == [task[t] EXCEPT !.pc = "installed", !.c = None, !.ledger = {}]
               c == task[t].c
               w == Watcher(task[t].sid)
    <3>1. task' = [[task EXCEPT ![t] = r] EXCEPT ![c] = w]
      BY <1>1, <2>2 DEF ReattachInstalls, Installable
    <3>2. c \in Conn \cup {None} /\ task \in [Task -> TaskRecord]
      BY TaskFacts DEF MoveInv, TypeOK
    <3>3. \A u \in Sid : u \in Task /\ u # c
      BY <3>2, ServiceAssumption, NoneAssumption DEF Task
    <3> HIDE DEF r, c, w
    <3> QED
      BY <3>1, <3>2, <3>3 DEF OtherStarts
  <2> QED
    BY <2>1, <2>2
<1>2. CASE ~ReattachInstalls(t)
  BY <1>2, ReconnectsMoves, AttemptMoves, VerifiesMoves, AttemptEndMoves, BackoffMoves,
     MovesOtherStarts DEF ReattachStep
<1> QED
  BY <1>1, <1>2

\* A task that is not at work takes no step.
LEMMA StartIsActive ==
  ASSUME NEW s, StartStep(s)
  PROVE  Active(s)
BY DEF StartStep, StartCancelled, StartConnects, StartInstalls, StartLaunches, StartForwards,
   StartForwarded, StartPublishes, StartVerifies, StartDone, StartUnhandled, StartFails,
   CleanupCancelled, CleanupDecides, CleanupWatcherEnded, CleanupListener, CleanupRemote,
   CleanupConn, CleanupMarks, Resumes, At, Active

\* What may become of the record of a start task.
LEMMA StartTasksChange ==
  ASSUME MoveInv, RecoveryIsAlone, row' \in [Sid -> Row], [Next]_vars, ~GatewayCrashes, NEW s \in Sid
  PROVE  \/ task'[s] = task[s]
         \/ StartStep(s)
         \/ \E o \in Op : OpenStarts(o) /\ At(o, "inserted") /\ task[o].sid = s
<1>0. s \in Task /\ s \notin Op /\ s \notin Conn /\ s # Boot /\ Boot \in Task
      /\ Op \subseteq Task /\ Conn \subseteq Task /\ Sid \subseteq Task
  BY ServiceAssumption DEF Task
<1>1. ASSUME NEW t \in Task, t # s, OtherStarts(t) PROVE task'[s] = task[s]
  BY <1>1 DEF OtherStarts
<1>2. ASSUME NEW t \in Task, t # s, Moves(t) PROVE task'[s] = task[s]
  BY <1>1, <1>2, MovesOtherStarts
<1>3. ASSUME NEW o \in Op, NEW kind \in Requests, NEW a \in Alias, Request(o, kind, a)
      PROVE  task'[s] = task[s]
  BY <1>0, <1>3 DEF Request, Become, MoveInv, TypeOK
<1>4. ASSUME NEW t \in Task, t # s, DoCloseStep(t) \/ ReattachStep(t) PROVE task'[s] = task[s]
  BY <1>1, <1>2, <1>4, DoCloseStepMoves, ReattachOtherStarts
<1>5. ASSUME NEW o \in Op, OpStep(o), ~OpenStarts(o) PROVE task'[s] = task[s]
  BY <1>0, <1>2, <1>4, <1>5, EnterMoves, OpenChecksMoves, CloseMoves, RetryMoves
     DEF OpStep, OpenStep
<1>6. ASSUME NEW o \in Op, OpenStarts(o), task[o].sid # s PROVE task'[s] = task[s]
  BY <1>0, <1>6 DEF OpenStarts, End, Become, MoveInv, TypeOK
<1>7. ASSUME NEW u \in Sid, u # s, StartStep(u) PROVE task'[s] = task[s]
  BY <1>0, <1>1, <1>2, <1>7, StartStepMoves, PublishOtherStarts
<1>8. ASSUME NEW u \in Sid, HelperStep(u) \/ ProcessDies(u) \/ PidReused(u)
      PROVE  task'[s] = task[s]
  BY <1>8 DEF HelperStep, HelperRecords, HelperFails, ProcessDies, PidReused, OnlyRemote
<1>9. ASSUME NEW c \in Conn, WatcherStep(c) PROVE task'[s] = task[s]
  BY <1>0, <1>2, <1>4, <1>9, WatchStepMoves DEF WatcherStep
<1>10. CASE BootStep
  BY <1>0, <1>2, <1>4, <1>10, RecoveryStepMoves DEF BootStep
<1>11. ASSUME NEW c \in Conn, ConnectionLost(c) PROVE task'[s] = task[s]
  BY <1>11 DEF ConnectionLost
<1>12. CASE UNCHANGED vars
  BY <1>12 DEF vars
<1>13. ASSUME NEW o \in Op, OpenStarts(o) PROVE At(o, "inserted")
  BY <1>13 DEF OpenStarts
<1> QED
  BY <1>3, <1>5, <1>6, <1>7, <1>8, <1>9, <1>10, <1>11, <1>12, <1>13
     DEF Next, Environment, Quiescent, OpStep, OpenStep

\* A start task begins to install by connecting, and never connects again.
LEMMA StartsOnce ==
  ASSUME MoveInv, NEW s \in Sid, StartStep(s), task'[s].pc \in {"connect", "install"}
  PROVE  StartConnects(s) /\ task[s].pc = "connect" /\ remote' = remote
<1>1. s \in Task /\ task \in [Task -> TaskRecord] /\ task[s] \in TaskRecord
  BY TaskFacts DEF MoveInv, TypeOK, Task
<1>2. ASSUME NEW p, p \notin {"connect", "install"}, Goto(s, p) PROVE FALSE
  BY <1>1, <1>2 DEF Goto, TaskRecord
<1>3. ~End(s)
  BY <1>1, IdleTyped DEF End, Become
<1>4. ASSUME NEW q, q.pc \notin {"connect", "install"}, Become(s, q) PROVE FALSE
  BY <1>1, <1>4 DEF Become
<1>5. ASSUME NEW exc, DropLocal(s, exc) PROVE FALSE
  <2> DEFINE x == tunnels[s]
             p == IF x.c = None THEN AfterTunnel(s) ELSE "watcher"
             q == [task[s] EXCEPT !.exc = exc, !.old = x, !.rec = row[s], !.pc = p]
  <2>1. p \notin {"connect", "install"}
    BY AfterTunnelIsCleanup
  <2>2. Become(s, q)
    BY <1>5 DEF DropLocal
  <2> HIDE DEF p, x
  <2>3. q.pc = p
    BY <1>1 DEF TaskRecord
  <2> HIDE DEF q
  <2> QED
    BY <1>4, <2>1, <2>2, <2>3
<1>6. ASSUME NEW exc, CleansUp(s, exc) PROVE FALSE
  <2> DEFINE q == [task[s] EXCEPT !.pc = "ready_read", !.exc = exc, !.rec = row[s]]
  <2>1. q.pc = "ready_read"
    BY <1>1 DEF TaskRecord
  <2>2. Become(s, q)
    BY <1>5, <1>6 DEF CleansUp
  <2> HIDE DEF q
  <2> QED
    BY <1>4, <2>1, <2>2
<1>7. CASE StartConnects(s)
  BY <1>7 DEF StartConnects, Resumes, At
<1>8. ~StartCancelled(s) /\ ~StartFails(s)
  BY <1>6 DEF StartCancelled, StartFails
<1>9. ~StartInstalls(s) /\ ~StartForwarded(s) /\ ~StartDone(s) /\ ~StartUnhandled(s)
      /\ ~CleanupCancelled(s) /\ ~CleanupWatcherEnded(s) /\ ~CleanupRemote(s)
      /\ ~CleanupMarks(s)
  BY <1>2, <1>3 DEF StartInstalls, StartForwarded, StartDone, StartUnhandled,
     CleanupCancelled, CleanupWatcherEnded, CleanupRemote, CleanupMarks
<1>10. ~CleanupListener(s)
  BY <1>2, AfterTunnelIsCleanup DEF CleanupListener
<1>11. ~CleanupDecides(s)
  BY <1>3, <1>5 DEF CleanupDecides
<1>12. ~StartLaunches(s)
  <2> DEFINE l == {"remote"}
             q == [task[s] EXCEPT !.pc = "identity", !.ledger = l]
  <2>1. q.pc = "identity"
    BY <1>1 DEF TaskRecord
  <2>2. StartLaunches(s) => Become(s, q)
    BY DEF StartLaunches
  <2> HIDE DEF q
  <2> QED
    BY <1>4, <2>1, <2>2
<1>13. ~StartForwards(s)
  <2> DEFINE l == task[s].ledger \cup {"identity"}
             q == [task[s] EXCEPT !.pc = "forward", !.ledger = l]
  <2>1. q.pc = "forward"
    BY <1>1 DEF TaskRecord
  <2>2. StartForwards(s) => Become(s, q)
    BY DEF StartForwards
  <2> HIDE DEF q
  <2> QED
    BY <1>4, <2>1, <2>2
<1>14. ~CleanupConn(s)
  <2> DEFINE q == [task[s] EXCEPT !.pc = "mark", !.c = None, !.old = NoTunnel, !.rec = row[s]]
  <2>1. q.pc = "mark"
    BY <1>1 DEF TaskRecord
  <2>2. CleanupConn(s) => Become(s, q)
    BY DEF CleanupConn
  <2> HIDE DEF q
  <2> QED
    BY <1>4, <2>1, <2>2
<1>15. ~StartPublishes(s)
  <2> DEFINE l == task[s].ledger \cup {"registry"}
             q == [task[s] EXCEPT !.pc = "verify", !.ledger = l]
             c == task[s].c
             w == Watcher(s)
  <2>1. StartPublishes(s) => task' = [[task EXCEPT ![s] = q] EXCEPT ![c] = w]
    BY DEF StartPublishes
  <2>2. q.pc = "verify"
    BY <1>1 DEF TaskRecord
  <2>3. c # s
    BY <1>1, ServiceAssumption, NoneAssumption DEF TaskRecord
  <2> HIDE DEF q, c, w
  <2> QED
    BY <1>1, <2>1, <2>2, <2>3
<1>16. ~StartVerifies(s)
  <2> DEFINE l == task[s].ledger \cup {"ready"}
             q == [task[s] EXCEPT !.pc = "ready", !.ledger = l]
  <2>1. q.pc = "ready"
    BY <1>1 DEF TaskRecord
  <2>2. StartVerifies(s) => Become(s, q)
    BY DEF StartVerifies
  <2> HIDE DEF q
  <2> QED
    BY <1>4, <2>1, <2>2
<1> QED
  BY <1>7, <1>8, <1>9, <1>10, <1>11, <1>12, <1>13, <1>14, <1>15, <1>16 DEF StartStep

\* Once "none", an editor stays so until session-start.
LEMMA NoneStays ==
  ASSUME MoveInv, [Next]_vars, NEW s \in Sid, remote[s] = "none", ~StartInstalls(s)
  PROVE  remote'[s] = "none"
<1>1. remote \in [Sid -> RemoteState]
  BY DEF MoveInv, TypeOK
<1>2. CASE \E u \in Sid : StartInstalls(u)
  BY <1>1, <1>2 DEF StartInstalls
<1>3. CASE Settles
  BY <1>1, <1>3 DEF Settles, EditorChanges
<1> QED
  BY <1>2, <1>3, StepSettles

\* An open that inserts a row takes an id nothing refers to.
LEMMA InsertsFresh ==
  ASSUME MoveInv, NEW o \in Op, OpenChecks(o), task'[o].pc = "inserted"
  PROVE  /\ NewSid \in FreeSid /\ task'[o].sid = NewSid /\ remote' = remote
         /\ \A u \in Task : u # o => task'[u] = task[u]
<1> DEFINE n == NewSid
           q == [task[o] EXCEPT !.pc = "inserted", !.sid = n]
<1>1. /\ o \in Task /\ task[o] \in TaskRecord /\ task \in [Task -> TaskRecord]
      /\ IdleTask.pc = "idle"
  BY OpFacts, IdleTyped DEF MoveInv, TypeOK
<1>2. ~End(o)
  BY <1>1 DEF End, Become
<1>3. Become(o, q) /\ FreeSid # {} /\ remote' = remote
  BY <1>2 DEF OpenChecks
<1>4. n \in FreeSid
  BY <1>3 DEF NewSid
<1> HIDE DEF n
<1>5. q.sid = n
  BY <1>1 DEF TaskRecord
<1> HIDE DEF q
<1> QED
  BY <1>1, <1>3, <1>4, <1>5 DEF Become, n

\* A request is at "inserted" as before, or has just inserted its row.
LEMMA RequestsChange ==
  ASSUME LifecycleInv, [Next]_vars, ~GatewayCrashes, NEW o \in Op, task'[o].pc = "inserted"
  PROVE  task'[o] = task[o] \/ OpenChecks(o)
<1>1. MoveInv /\ RecoveryIsAlone /\ o \in Task /\ o # Boot /\ o \notin Sid \cup Conn
  BY InvIsMoveInv, ServiceAssumption DEF Task
<1>2. ASSUME NEW p \in Op, NEW kind, NEW a, Request(p, kind, a) PROVE task'[o] = task[o]
  <2> DEFINE r == [IdleTask EXCEPT !.pc = "enter", !.kind = kind, !.alias = a]
  <2>1. Become(p, r)
    BY <1>2 DEF Request
  <2>2. r.pc = "enter"
    BY IdleTyped DEF TaskRecord
  <2> HIDE DEF r
  <2> QED
    BY <1>1, <2>1, <2>2 DEF Become, MoveInv, TypeOK
<1>3. ASSUME NEW t \in Task, t # o, Steps(t) PROVE task'[o] = task[o]
  BY <1>3 DEF Steps, Apart, Closers
<1>4. ASSUME NEW p \in Op, p # o, OpStep(p) PROVE task'[o] = task[o]
  BY <1>1, <1>3, <1>4, OpSteps, OpFacts
<1>5. ASSUME OpStep(o) PROVE OpenChecks(o)
  BY <1>1, <1>5, ReturnsElsewhere
<1>6. ASSUME NEW s \in Sid, StartStep(s) PROVE task'[o] = task[o]
  BY <1>1, <1>3, <1>6, StartSteps DEF Task
<1>7. ASSUME NEW c \in Conn, WatcherStep(c) PROVE task'[o] = task[o]
  BY <1>1, <1>3, <1>7, WatcherSteps DEF Task
<1>8. CASE BootStep
  BY <1>1, <1>3, <1>8, BootSteps DEF Task
<1>9. ASSUME \/ \E s \in Sid : HelperStep(s) \/ ProcessDies(s) \/ PidReused(s)
             \/ \E c \in Conn : ConnectionLost(c)
             \/ UNCHANGED vars
      PROVE  task'[o] = task[o]
  BY <1>9 DEF HelperStep, HelperRecords, HelperFails, ProcessDies, PidReused, OnlyRemote,
     ConnectionLost, vars
<1> QED
  BY <1>2, <1>4, <1>5, <1>6, <1>7, <1>8, <1>9 DEF Next, Environment, Quiescent

\* Part one: the start tasks.
LEMMA StartsUnlaunched ==
  ASSUME LifecycleInv, Unlaunched, row' \in [Sid -> Row], [Next]_vars, ~GatewayCrashes,
         NEW s \in Sid, task'[s].pc \in {"connect", "install"}
  PROVE  remote'[s] = "none"
<1>1. MoveInv /\ RecoveryIsAlone
  BY InvIsMoveInv
<1>2. ~StartInstalls(s)
  <2>1. s \in Task /\ task \in [Task -> TaskRecord]
    BY <1>1 DEF MoveInv, TypeOK, Task
  <2>2. StartInstalls(s) => task'[s].pc = "start"
    BY <2>1 DEF StartInstalls, Goto, TaskRecord
  <2> QED
    BY <2>2
<1>3. CASE task'[s] = task[s]
  BY <1>1, <1>2, <1>3, NoneStays DEF Unlaunched
<1>4. CASE StartStep(s)
  BY <1>1, <1>4, StartsOnce DEF Unlaunched
<1>5. ASSUME NEW o \in Op, OpenStarts(o), At(o, "inserted"), task[o].sid = s
      PROVE  remote'[s] = "none"
  BY <1>1, <1>2, <1>5, NoneStays DEF Unlaunched
<1> QED
  BY <1>1, <1>3, <1>4, <1>5, StartTasksChange

\* Taking the slot, or failing to, ends the request.
LEMMA OpenStartsEnds ==
  ASSUME MoveInv, NEW o \in Op, OpenStarts(o)
  PROVE  task'[o].pc = "idle"
<1> DEFINE s == task[o].sid
           r == StartTask(task[o].alias, s)
<1>1. o \in Task /\ s \in Sid /\ task \in [Task -> TaskRecord] /\ IdleTask.pc = "idle"
  BY OpFacts, IdleTyped DEF OpenStarts, At, MoveInv, TypeOK
<1>2. End(o) \/ task' = [[task EXCEPT ![o] = IdleTask] EXCEPT ![s] = r]
  BY DEF OpenStarts, StartTask
<1>3. s # o
  BY <1>1, ServiceAssumption
<1> HIDE DEF s, r
<1> QED
  BY <1>1, <1>2, <1>3 DEF End, Become

\* Part two: the rows just inserted.
LEMMA InsertsUnlaunched ==
  ASSUME LifecycleInv, Unlaunched, row' \in [Sid -> Row], [Next]_vars, ~GatewayCrashes,
         NEW o \in Op, task'[o].pc = "inserted"
  PROVE  /\ remote'[task'[o].sid] = "none" /\ task'[task'[o].sid].pc = "idle"
         /\ \A p \in Op \ {o} : task'[p].pc = "inserted" => task'[p].sid # task'[o].sid
<1>1. MoveInv /\ RecoveryIsAlone /\ o \in Task
  BY InvIsMoveInv DEF Task
<1>2. CASE OpenChecks(o)
  <2> DEFINE n == NewSid
  <2>1. /\ n \in FreeSid /\ task'[o].sid = n /\ remote' = remote
        /\ \A u \in Task : u # o => task'[u] = task[u]
    BY <1>1, <1>2, InsertsFresh
  <2> HIDE DEF n
  <2>2. n \in Sid /\ remote[n] = "none" /\ task[n].pc = "idle" /\ \A t \in Task : task[t].sid # n
    BY <2>1 DEF FreeSid, Active
  <2>3. n \in Task /\ n # o /\ Op \subseteq Task
    BY <2>2, ServiceAssumption DEF Task
  <2> QED
    BY <2>1, <2>2, <2>3
<1>3. CASE task'[o] = task[o]
  <2> DEFINE s == task[o].sid
  <2>1. s \in Sid /\ At(o, "inserted")
    BY <1>1, <1>3, OpFacts DEF At
  <2>2. /\ remote[s] = "none" /\ ~Active(s)
        /\ \A p \in Op \ {o} : At(p, "inserted") => task[p].sid # s
    BY <2>1 DEF Unlaunched
  <2>3. ~StartStep(s)
    BY <2>2, StartIsActive
  <2>4. remote'[s] = "none"
    BY <1>1, <2>1, <2>2, <2>3, NoneStays DEF StartStep
  <2>5. task'[s].pc = "idle"
    <3>1. ASSUME NEW p \in Op, OpenStarts(p), At(p, "inserted"), task[p].sid = s
          PROVE  FALSE
      <4>1. p = o
        BY <2>2, <3>1
      <4>2. task'[o].pc = "idle"
        BY <1>1, <2>1, <3>1, <4>1, OpenStartsEnds
      <4> QED
        BY <4>2
    <3>2. task'[s] = task[s]
      BY <1>1, <2>1, <2>3, <3>1, StartTasksChange
    <3> QED
      BY <2>2, <3>2 DEF Active
  <2>6. ASSUME NEW p \in Op \ {o}, task'[p].pc = "inserted" PROVE task'[p].sid # s
    <3>1. CASE task'[p] = task[p]
      BY <2>2, <2>6, <3>1 DEF At
    <3>2. CASE OpenChecks(p)
      BY <1>1, <2>6, <3>2, InsertsFresh DEF FreeSid
    <3> QED
      BY <2>6, <3>1, <3>2, RequestsChange
  <2> QED
    BY <1>3, <2>4, <2>5, <2>6
<1> QED
  BY <1>2, <1>3, RequestsChange

\* Every step keeps both parts.
LEMMA UnlaunchedStep ==
  ASSUME LifecycleInv, LifecycleInv', Unlaunched, [Next]_vars
  PROVE  Unlaunched'
<1>1. CASE GatewayCrashes
  <2>1. \A t \in Task : task'[t].pc \in {"idle", "next_row"}
    BY <1>1, IdleTyped, NextRowShape DEF GatewayCrashes, TaskRecord
  <2> QED
    BY <2>1 DEF Unlaunched, At, Task
<1>2. CASE ~GatewayCrashes
  <2>1. row' \in [Sid -> Row]
    BY DEF LifecycleInv, TypeOK, StoreTypeOK
  <2> QED
    BY <1>2, <2>1, StartsUnlaunched, InsertsUnlaunched DEF Unlaunched, At, Active
<1> QED
  BY <1>1, <1>2

\* At first no task runs.
LEMMA UnlaunchedInit ==
  ASSUME Init
  PROVE  Unlaunched
BY IdleTyped DEF Init, Unlaunched, At, Task

\* What the steps do to the editor, in the terms of RemoteEditor.
LEMMA StepIsEditorStep ==
  ASSUME LifecycleInv, Unlaunched, [Next]_vars
  PROVE  [Editor!Next]_remote
<1>1. MoveInv /\ remote \in [Sid -> RemoteState]
  BY InvIsMoveInv DEF LifecycleInv, TypeOK
<1>2. ASSUME NEW s \in Sid, StartInstalls(s) PROVE Editor!Next
  <2>1. remote[s] = "none" /\ remote' = [remote EXCEPT ![s] = "starting"]
    BY <1>2 DEF StartInstalls, Resumes, At, Unlaunched
  <2> QED
    BY <2>1 DEF Editor!Next, Editor!Starts, Editor!Becomes
<1>3. ASSUME NEW s \in Sid, NEW x \in RemoteState, remote' = [remote EXCEPT ![s] = x],
             <<remote[s], x>> \in EditorChanges
      PROVE  Editor!Next
  <2>1. \/ remote[s] = "starting" /\ x = "running"
        \/ remote[s] = "starting" /\ x = "none"
        \/ remote[s] = "running" /\ x = "dead"
        \/ remote[s] = "running" /\ x = "none"
        \/ remote[s] = "dead" /\ x = "none"
        \/ remote[s] = "dead" /\ x = "reused"
        \/ remote[s] = "reused" /\ x = "none"
    BY <1>3 DEF EditorChanges
  <2>2. \/ Editor!Records(s) \/ Editor!StartFails(s) \/ Editor!Ends(s)
        \/ Editor!PidTaken(s) \/ Editor!Removes(s)
    BY <1>3, <2>1 DEF Editor!Records, Editor!StartFails, Editor!Ends, Editor!PidTaken,
       Editor!Removes, Editor!Becomes
  <2> QED
    BY <2>2 DEF Editor!Next
<1> QED
  BY <1>1, <1>2, <1>3, StepSettles DEF Settles

\* The lifecycle, in every order of its requests, start tasks, watchers, recoveries and
\* restarts, treats the editor of a session as RemoteEditor says: session-start is sent
\* at most once until the record is gone, and no step counts on an editor coming back.
THEOREM LifecycleFollowsEditor == Spec => EditorsFollowHelper
<1>1. Init => Unlaunched /\ Editor!Init
  BY UnlaunchedInit DEF Init, Editor!Init
<1>2. LifecycleInv /\ LifecycleInv' /\ Unlaunched /\ [Next]_vars => Unlaunched'
  BY UnlaunchedStep
<1>3. LifecycleInv /\ Unlaunched /\ [Next]_vars => [Editor!Next]_remote
  BY StepIsEditorStep
<1> QED
  BY <1>1, <1>2, <1>3, LifecycleInvariant, PTL DEF Spec, EditorsFollowHelper, Editor!Spec

-----------------------------------------------------------------------------
(***************************************************************************)
(* Who writes what.                                                        *)
(***************************************************************************)
\* The record of a request handler, or of recovery, is changed by its own steps.
LEMMA ClosersChange ==
  ASSUME MoveInv, RecoveryIsAlone, row' \in [Sid -> Row], [Next]_vars, ~GatewayCrashes,
         NEW t \in Closers
  PROVE  \/ task'[t] = task[t]
         \/ t \in Op /\ OpStep(t)
         \/ t \in Op /\ \E kind \in Requests, a \in Alias : Request(t, kind, a)
         \/ t = Boot /\ BootStep
<1>1. t \in Task /\ t \notin Sid \cup Conn
  BY ServiceAssumption DEF Closers, Task
<1>2. ASSUME NEW o \in Op, NEW kind \in Requests, NEW a \in Alias, Request(o, kind, a), o # t
      PROVE  task'[t] = task[t]
  BY <1>1, <1>2 DEF Request, Become, MoveInv, TypeOK
<1>3. ASSUME NEW u \in Task, u # t, Steps(u) PROVE task'[t] = task[t]
  BY <1>3 DEF Steps, Apart
<1>4. ASSUME NEW o \in Op, o # t, OpStep(o) PROVE task'[t] = task[t]
  BY <1>3, <1>4, OpSteps, OpFacts
<1>5. ASSUME NEW s \in Sid, StartStep(s) PROVE task'[t] = task[t]
  BY <1>1, <1>3, <1>5, StartSteps DEF Task
<1>6. ASSUME NEW c \in Conn, WatcherStep(c) PROVE task'[t] = task[t]
  BY <1>1, <1>3, <1>6, WatcherSteps DEF Task
<1>7. ASSUME BootStep, t # Boot PROVE task'[t] = task[t]
  BY <1>1, <1>3, <1>7, BootSteps DEF Task
<1>8. ASSUME \/ \E s \in Sid : HelperStep(s) \/ ProcessDies(s) \/ PidReused(s)
             \/ \E c \in Conn : ConnectionLost(c)
             \/ UNCHANGED vars
      PROVE  task'[t] = task[t]
  BY <1>8 DEF HelperStep, HelperRecords, HelperFails, ProcessDies, PidReused, OnlyRemote,
     ConnectionLost, vars
<1> QED
  BY <1>2, <1>4, <1>5, <1>6, <1>7, <1>8 DEF Next, Environment, Quiescent, Closers

\* A session given up while its editor was being launched stays given up, until its
\* id is used for a new one.
LEMMA AbandonedStays ==
  ASSUME [Next]_vars, NEW s \in abandoned, s \notin FreeSid
  PROVE  s \in abandoned'
<1>1. ASSUME NEW o \in Op, OpStep(o) PROVE s \in abandoned'
  <2>1. CASE OpenStep(o)
    <3>1. OpenChecks(o) => s \in abandoned'
      <4>1. FreeSid # {} => NewSid \in FreeSid
        BY DEF NewSid
      <4> QED
        BY <4>1 DEF OpenChecks
    <3> QED
      BY <2>1, <3>1 DEF OpenStep, Enter, OpenStarts, world
  <2>2. CASE CloseStep(o) \/ RetryStep(o)
    BY <2>2 DEF CloseStep, RetryStep, CloseRecordsIntent, CloseCancelsStart, CloseStarts,
       RetryBegins, RetryProceeds, RetryReopens, world
  <2>3. CASE DoCloseStep(o)
    BY <2>3 DEF DoCloseStep, DoCloseReads, DoCloseTakesTunnel, DoCloseStopsListener,
       DoCloseDials, DoCloseStopsRemote, DoCloseClosesConn, DoCloseForgets,
       DoCloseFinishes, DoCloseReleases, world
  <2>4. CASE ReattachStep(o)
    BY <2>4 DEF ReattachStep, Reconnects, Interrupted, Inspects, RemovesAbsent,
       ReattachVerifies, ReattachInstalls, ReattachReads, DropsConn, BackoffEnds, world
  <2> QED
    BY <1>1, <2>1, <2>2, <2>3, <2>4 DEF OpStep
<1>2. ASSUME NEW u \in Sid, StartStep(u) \/ HelperStep(u) PROVE s \in abandoned'
  BY <1>2 DEF StartStep, HelperStep, StartCancelled, StartConnects, StartInstalls,
     StartLaunches, StartForwards, StartForwarded, StartPublishes, StartVerifies,
     StartDone, StartUnhandled, StartFails, CleanupCancelled, CleanupDecides,
     CleanupWatcherEnded, CleanupListener, CleanupRemote, CleanupConn, CleanupMarks,
     HelperRecords, HelperFails, OnlyRemote, GivesUp, world
<1>3. ASSUME NEW c \in Conn, WatcherStep(c) PROVE s \in abandoned'
  BY <1>3 DEF WatcherStep, WatchStep, WatcherWakes, WatcherQueues, WatcherReads,
     WatcherExits, WatcherDrops, WatcherAttempts, WatcherLate, WatcherMarksLoss,
     WatcherCancelled, ReattachStep, Reconnects, Interrupted, Inspects, RemovesAbsent,
     ReattachVerifies, ReattachInstalls, ReattachReads, DropsConn, BackoffEnds, world
<1>4. CASE BootStep
  <2>1. CASE RecoveryStep(Boot)
    BY <2>1 DEF RecoveryStep, RecoverRow, RecoveryReattaches, RecoveryEnds, RecoveryDials,
       RecoveryInspects, RecoveryChecked, RecoveryDrops, RecoveryReleases,
       RecoveryClearsLost, RecoveryMarks, world
  <2>2. CASE DoCloseStep(Boot)
    BY <2>2 DEF DoCloseStep, DoCloseReads, DoCloseTakesTunnel, DoCloseStopsListener,
       DoCloseDials, DoCloseStopsRemote, DoCloseClosesConn, DoCloseForgets,
       DoCloseFinishes, DoCloseReleases, world
  <2>3. CASE ReattachStep(Boot)
    BY <2>3 DEF ReattachStep, Reconnects, Interrupted, Inspects, RemovesAbsent,
       ReattachVerifies, ReattachInstalls, ReattachReads, DropsConn, BackoffEnds, world
  <2> QED
    BY <1>4, <2>1, <2>2, <2>3 DEF BootStep
<1>5. ASSUME \/ \E o \in Op, kind \in Requests, a \in Alias : Request(o, kind, a)
             \/ Environment \/ UNCHANGED vars
      PROVE  s \in abandoned'
  BY <1>5 DEF Request, Environment, ProcessDies, PidReused, OnlyRemote, ConnectionLost,
     GatewayCrashes, vars, world
<1> QED
  BY <1>1, <1>2, <1>3, <1>4, <1>5 DEF Next, Quiescent

\* What is gone stays gone, until an editor is launched for the session anew.
LEMMA GoneStays ==
  ASSUME MoveInv, [Next]_vars, NEW s \in Sid, Gone(s), ~StartInstalls(s)
  PROVE  Gone(s)'
<1>1. remote \in [Sid -> RemoteState]
  BY DEF MoveInv, TypeOK
<1>2. CASE remote[s] \in {"starting", "running"}
  BY <1>2, AbandonedStays DEF Gone, FreeSid
<1>3. CASE remote[s] \notin {"starting", "running"}
  <2>1. CASE \E u \in Sid : StartInstalls(u)
    BY <1>1, <1>3, <2>1 DEF StartInstalls, Gone
  <2>2. CASE Settles
    BY <1>1, <1>3, <2>2 DEF Settles, EditorChanges, Gone
  <2> QED
    BY <2>1, <2>2, StepSettles
<1> QED
  BY <1>2, <1>3

-----------------------------------------------------------------------------
(***************************************************************************)
(* The rows.                                                               *)
(***************************************************************************)
\* What a step does to the table: one edit, the deletion of the row its task is at
\* work on, or the insertion of a new one.
LEMMA StepRows ==
  ASSUME MoveInv, [Next]_vars
  PROVE  \/ \E s : Edited(s)
         \/ \E t \in Closers : /\ OpenStarts(t) \/ DoCloseFinishes(t) \/ RecoveryDrops(t)
                               /\ task[t].sid \in Sid /\ Delete(task[t].sid)
         \/ \E o \in Op : /\ OpenChecks(o) /\ At(o, "looked_up") /\ NewSid \in FreeSid
                          /\ Insert(NewSid, task[o].alias)
<1>1. row' = row => Edited(None)
  BY DEF Edited
<1>2. ASSUME NEW o \in Op, OpStep(o), OpenStep(o) \/ CloseStep(o) \/ RetryStep(o)
      PROVE  \/ \E s : Edited(s)
             \/ \E t \in Closers : /\ OpenStarts(t) \/ DoCloseFinishes(t) \/ RecoveryDrops(t)
                                   /\ task[t].sid \in Sid /\ Delete(task[t].sid)
             \/ \E p \in Op : /\ OpenChecks(p) /\ At(p, "looked_up") /\ NewSid \in FreeSid
                              /\ Insert(NewSid, task[p].alias)
  BY <1>2, OpRows DEF Closers
<1>3. ASSUME NEW t \in Closers, DoCloseStep(t)
      PROVE  \/ \E s : Edited(s)
             \/ DoCloseFinishes(t) /\ task[t].sid \in Sid /\ Delete(task[t].sid)
  BY <1>3, DoCloseRows DEF Closers, Task
<1>4. ASSUME NEW t \in Task, ReattachStep(t) PROVE \E s : Edited(s)
  BY <1>4, ReattachRows
<1>5. ASSUME NEW s \in Sid, StartStep(s) PROVE \E u : Edited(u)
  BY <1>5, StartRows
<1>6. ASSUME NEW c \in Conn, WatchStep(c) PROVE \E u : Edited(u)
  BY <1>6, WatchRows
<1>7. ASSUME RecoveryStep(Boot)
      PROVE  \/ \E s : Edited(s)
             \/ RecoveryDrops(Boot) /\ task[Boot].sid \in Sid /\ Delete(task[Boot].sid)
  BY <1>7, RecoveryRows
<1>8. ASSUME \/ \E o \in Op, kind \in Requests, a \in Alias : Request(o, kind, a)
             \/ \E s \in Sid : HelperStep(s)
             \/ Environment \/ UNCHANGED vars
      PROVE  row' = row
  BY <1>8 DEF Request, HelperStep, HelperRecords, HelperFails, Environment, ProcessDies,
     PidReused, OnlyRemote, ConnectionLost, GatewayCrashes, vars
<1>9. ASSUME NEW o \in Op, OpStep(o)
      PROVE OpenStep(o) \/ CloseStep(o) \/ RetryStep(o) \/ DoCloseStep(o) \/ ReattachStep(o)
  BY <1>9 DEF OpStep
<1> QED
  BY <1>1, <1>2, <1>3, <1>4, <1>5, <1>6, <1>7, <1>8, <1>9
     DEF Next, Quiescent, WatcherStep, BootStep, Closers, Task

\* What the statements on the row of s do to its state and its error.
LEMMA EditFields ==
  ASSUME StoreTypeOK, NEW s \in Sid
  PROVE  /\ (\/ SetRemoteIdentity(s) \/ ClearRemoteIdentity(s) \/ SetTunnelIdentity(s)
             \/ ClearTunnelIdentity(s) \/ BeginRecovery(s)) =>
              row'[s].state = row[s].state /\ row'[s].error_code = row[s].error_code
         /\ CompleteRecovery(s) =>
              \/ row'[s] = row[s]
              \/ Recoverable(s) /\ row'[s].state = "ready" /\ row'[s].error_code = "none"
         /\ MarkReady(s) =>
              /\ row'[s].error_code = row[s].error_code
              /\ \/ row'[s].state = row[s].state
                 \/ row[s].state = "starting" /\ row'[s].state = "ready"
         /\ MarkStopping(s) =>
              /\ row'[s].error_code = row[s].error_code
              /\ Exists(s) => row'[s].state = "stopping"
              /\ ~Exists(s) => row'[s] = row[s]
         /\ \A code : MarkError(s, code) =>
              /\ Exists(s) => row'[s].state = "error" /\ row'[s].error_code = code
              /\ ~Exists(s) => row'[s] = row[s]
<1>1. row \in [Sid -> Row] /\ row[s] \in Row
  BY DEF StoreTypeOK
<1>2. ASSUME NEW new, Update(s, new)
      PROVE  (Exists(s) => row'[s] = new) /\ (~Exists(s) => row'[s] = row[s])
  BY <1>1, <1>2 DEF Update
<1>3. ASSUME \/ SetRemoteIdentity(s) \/ ClearRemoteIdentity(s) \/ SetTunnelIdentity(s)
             \/ ClearTunnelIdentity(s)
      PROVE  row'[s].state = row[s].state /\ row'[s].error_code = row[s].error_code
  <2> DEFINE Id(b) == [row[s] EXCEPT !.identity = b]
             Port(b) == [row[s] EXCEPT !.local_port = b]
  <2>1. \E b \in BOOLEAN : Update(s, Id(b)) \/ Update(s, Port(b))
    BY <1>3 DEF SetRemoteIdentity, ClearRemoteIdentity, SetTunnelIdentity, ClearTunnelIdentity
  <2>2. \A b : /\ Id(b).state = row[s].state /\ Id(b).error_code = row[s].error_code
               /\ Port(b).state = row[s].state /\ Port(b).error_code = row[s].error_code
    BY <1>1 DEF Row, NoRow, LiveRow
  <2> HIDE DEF Id, Port
  <2> QED
    BY <1>2, <2>1, <2>2
<1>4. ASSUME BeginRecovery(s)
      PROVE  row'[s].state = row[s].state /\ row'[s].error_code = row[s].error_code
  <2> DEFINE new == [row[s] EXCEPT !.local_port = FALSE]
  <2>1. row'[s] = row[s] \/ row'[s] = new
    BY <1>1, <1>4 DEF BeginRecovery
  <2>2. new.state = row[s].state /\ new.error_code = row[s].error_code
    BY <1>1 DEF Row, NoRow, LiveRow
  <2> HIDE DEF new
  <2> QED
    BY <1>1, <2>1, <2>2
<1>5. ASSUME CompleteRecovery(s)
      PROVE  \/ row'[s] = row[s]
             \/ Recoverable(s) /\ row'[s].state = "ready" /\ row'[s].error_code = "none"
  <2> DEFINE new == [row[s] EXCEPT !.state = "ready", !.identity = TRUE, !.local_port = TRUE,
                                   !.error_code = "none"]
  <2>1. row'[s] = row[s] \/ (Recoverable(s) /\ row'[s] = new)
    BY <1>1, <1>5 DEF CompleteRecovery
  <2>2. new.state = "ready" /\ new.error_code = "none"
    BY <1>1 DEF Row, NoRow, LiveRow
  <2> HIDE DEF new
  <2> QED
    BY <1>1, <2>1, <2>2
<1>6. ASSUME MarkReady(s)
      PROVE  /\ row'[s].error_code = row[s].error_code
             /\ \/ row'[s].state = row[s].state
                \/ row[s].state = "starting" /\ row'[s].state = "ready"
  <2> DEFINE new == [row[s] EXCEPT !.state = "ready"]
  <2>1. row'[s] = row[s] \/ (row[s].state = "starting" /\ row'[s] = new)
    BY <1>1, <1>6 DEF MarkReady
  <2>2. new.state = "ready" /\ new.error_code = row[s].error_code
    BY <1>1 DEF Row, NoRow, LiveRow
  <2> HIDE DEF new
  <2> QED
    BY <1>1, <2>1, <2>2
<1>7. ASSUME MarkStopping(s)
      PROVE  /\ row'[s].error_code = row[s].error_code
             /\ Exists(s) => row'[s].state = "stopping"
             /\ ~Exists(s) => row'[s] = row[s]
  <2> DEFINE new == [row[s] EXCEPT !.state = "stopping", !.close_reason = TRUE]
  <2>1. Update(s, new)
    BY <1>7 DEF MarkStopping
  <2>2. new.state = "stopping" /\ new.error_code = row[s].error_code
    BY <1>1 DEF Row, NoRow, LiveRow
  <2> HIDE DEF new
  <2> QED
    BY <1>1, <1>2, <2>1, <2>2
<1>8. ASSUME NEW code, MarkError(s, code)
      PROVE  /\ Exists(s) => row'[s].state = "error" /\ row'[s].error_code = code
             /\ ~Exists(s) => row'[s] = row[s]
  <2> DEFINE new == [row[s] EXCEPT !.state = "error", !.error_code = code]
  <2>1. Update(s, new)
    BY <1>8 DEF MarkError
  <2>2. new.state = "error" /\ new.error_code = code
    BY <1>1 DEF Row, NoRow, LiveRow
  <2> HIDE DEF new
  <2> QED
    BY <1>1, <1>2, <2>1, <2>2
<1> QED
  BY <1>3, <1>4, <1>5, <1>6, <1>7, <1>8

\* An edit touches one row.
LEMMA EditsOne ==
  ASSUME StoreTypeOK, NEW s \in Sid, EditStatement(s), NEW u \in Sid, u # s
  PROVE  row'[u] = row[u]
<1>1. row' = row \/ \E new \in LiveRow : Edits(s, new)
  BY IdentityKinds, StateKinds, RecoveryKinds DEF EditStatement
<1>2. row \in [Sid -> Row]
  BY DEF StoreTypeOK
<1> QED
  BY <1>1, <1>2 DEF Edits

\* An edit records no failure as one before the remote start, but the cleanup of an
\* open does, with the error of that open.
LEMMA EditedCodes ==
  ASSUME StoreTypeOK, NEW s, Edited(s), NEW u \in Sid, row'[u].error_code = "pre_remote"
  PROVE  \/ row[u].error_code = "pre_remote"
         \/ CleanupMarks(u) /\ task[u].exc = "pre_remote"
<1>1. CASE row' = row \/ u # s
  BY <1>1, EditsOne DEF Edited
<1>2. CASE s \in Sid /\ u = s /\ row' # row
  <2>1. ASSUME NEW code \in ErrorCode, MarkError(s, code),
               code # "pre_remote" \/ CleanupMarks(s)
        PROVE  \/ row[u].error_code = "pre_remote"
               \/ CleanupMarks(u) /\ task[u].exc = "pre_remote"
    <3>1. CASE ~Exists(s) \/ code # "pre_remote"
      BY <1>2, <2>1, <3>1, EditFields
    <3>2. CASE Exists(s) /\ code = "pre_remote"
      BY <1>2, <2>1, <3>2, EditFields DEF CleanupMarks
    <3> QED
      BY <3>1, <3>2
  <2>2. ASSUME \/ SetRemoteIdentity(s) \/ ClearRemoteIdentity(s) \/ SetTunnelIdentity(s)
               \/ ClearTunnelIdentity(s) \/ BeginRecovery(s) \/ CompleteRecovery(s)
               \/ MarkReady(s) \/ MarkStopping(s)
        PROVE  row[u].error_code = "pre_remote"
    <3>1. /\ (\/ SetRemoteIdentity(s) \/ ClearRemoteIdentity(s) \/ SetTunnelIdentity(s)
              \/ ClearTunnelIdentity(s) \/ BeginRecovery(s)) =>
               row'[s].error_code = row[s].error_code
          /\ CompleteRecovery(s) => row'[s] = row[s] \/ row'[s].error_code = "none"
          /\ MarkReady(s) \/ MarkStopping(s) => row'[s].error_code = row[s].error_code
      BY <1>2, EditFields
    <3> QED
      BY <1>2, <2>2, <3>1
  <2> QED
    BY <1>2, <2>1, <2>2 DEF Edited, EditStatement
<1> QED
  BY <1>1, <1>2 DEF Edited

\* So it is for every step.
LEMMA StepCodes ==
  ASSUME MoveInv, [Next]_vars, NEW u \in Sid, row'[u].error_code = "pre_remote"
  PROVE  \/ row[u].error_code = "pre_remote"
         \/ CleanupMarks(u) /\ task[u].exc = "pre_remote"
<1>1. StoreTypeOK /\ row \in [Sid -> Row]
  BY DEF MoveInv, TypeOK, StoreTypeOK
<1>2. ASSUME NEW s \in Sid, Delete(s) PROVE row[u].error_code = "pre_remote"
  BY <1>1, <1>2 DEF Delete, NoRow
<1>3. ASSUME NEW s \in Sid, NEW a, Insert(s, a) PROVE row[u].error_code = "pre_remote"
  <2>1. NewRow(a).error_code = "none"
    BY DEF NewRow, NoRow
  <2> HIDE DEF NewRow
  <2> QED
    BY <1>1, <1>3, <2>1 DEF Insert
<1> QED
  BY <1>1, <1>2, <1>3, StepRows, EditedCodes, FreeSids

-----------------------------------------------------------------------------
(***************************************************************************)
(* Failures before the remote start.                                       *)
(***************************************************************************)
\* The start task takes a failure for one before the remote start only while it
\* connects.
LEMMA StartTells ==
  ASSUME MoveInv, NEW s \in Sid, StartStep(s), task'[s].exc = "pre_remote",
         task[s].exc # "pre_remote"
  PROVE  At(s, "connect") /\ StartFails(s) /\ ~StartConnects(s)
<1>1. s \in Task /\ task \in [Task -> TaskRecord] /\ task[s] \in TaskRecord
  BY TaskFacts DEF MoveInv, TypeOK, Task
<1>2. ASSUME NEW p, Goto(s, p) PROVE FALSE
  BY <1>1, <1>2 DEF Goto, TaskRecord
<1>3. ~End(s)
  BY <1>1, IdleTyped DEF End, Become
<1>4. ASSUME NEW q, q.exc # "pre_remote", Become(s, q) PROVE FALSE
  BY <1>1, <1>4 DEF Become
<1>5. ASSUME NEW exc, exc # "pre_remote", DropLocal(s, exc) PROVE FALSE
  <2> DEFINE x == tunnels[s]
             p == IF x.c = None THEN AfterTunnel(s) ELSE "watcher"
             q == [task[s] EXCEPT !.exc = exc, !.old = x, !.rec = row[s], !.pc = p]
  <2>1. Become(s, q)
    BY <1>5 DEF DropLocal
  <2> HIDE DEF p, x
  <2>2. q.exc = exc
    BY <1>1 DEF TaskRecord
  <2> HIDE DEF q
  <2> QED
    BY <1>4, <1>5, <2>1, <2>2
<1>6. ASSUME NEW exc, exc # "pre_remote", CleansUp(s, exc) PROVE FALSE
  <2> DEFINE q == [task[s] EXCEPT !.pc = "ready_read", !.exc = exc, !.rec = row[s]]
  <2>1. q.exc = exc
    BY <1>1 DEF TaskRecord
  <2>2. Become(s, q)
    BY <1>5, <1>6 DEF CleansUp
  <2> HIDE DEF q
  <2> QED
    BY <1>4, <1>6, <2>1, <2>2
<1>7. ~StartCancelled(s)
  BY <1>6 DEF StartCancelled
<1>8. StartFails(s) => At(s, "connect")
  BY <1>6 DEF StartFails, FailureCode
<1>9. ~StartInstalls(s) /\ ~StartForwarded(s) /\ ~StartDone(s) /\ ~StartUnhandled(s)
      /\ ~CleanupCancelled(s) /\ ~CleanupWatcherEnded(s) /\ ~CleanupRemote(s)
      /\ ~CleanupMarks(s) /\ ~CleanupListener(s)
  BY <1>2, <1>3 DEF StartInstalls, StartForwarded, StartDone, StartUnhandled,
     CleanupCancelled, CleanupWatcherEnded, CleanupRemote, CleanupMarks, CleanupListener
<1>10. ~CleanupDecides(s)
  BY <1>3, <1>5 DEF CleanupDecides
<1>11. ASSUME NEW p, NEW l, Become(s, [task[s] EXCEPT !.pc = p, !.ledger = l]) PROVE FALSE
  <2> DEFINE q == [task[s] EXCEPT !.pc = p, !.ledger = l]
  <2>1. q.exc = task[s].exc
    BY <1>1 DEF TaskRecord
  <2>2. Become(s, q)
    BY <1>11
  <2> HIDE DEF q
  <2> QED
    BY <1>4, <2>1, <2>2
<1>12. ~StartLaunches(s) /\ ~StartForwards(s) /\ ~StartVerifies(s)
  <2> DEFINE With(p, l) == [task[s] EXCEPT !.pc = p, !.ledger = l]
             l2 == task[s].ledger \cup {"identity"}
             l3 == task[s].ledger \cup {"ready"}
  <2>1. /\ StartLaunches(s) => Become(s, With("identity", {"remote"}))
        /\ StartForwards(s) => Become(s, With("forward", l2))
        /\ StartVerifies(s) => Become(s, With("ready", l3))
    BY DEF StartLaunches, StartForwards, StartVerifies
  <2>2. \A p, l : ~Become(s, With(p, l))
    BY <1>11
  <2> HIDE DEF With
  <2> QED
    BY <2>1, <2>2
<1>13. ~CleanupConn(s)
  <2> DEFINE q == [task[s] EXCEPT !.pc = "mark", !.c = None, !.old = NoTunnel, !.rec = row[s]]
  <2>1. q.exc = task[s].exc
    BY <1>1 DEF TaskRecord
  <2>2. CleanupConn(s) => Become(s, q)
    BY DEF CleanupConn
  <2> HIDE DEF q
  <2> QED
    BY <1>4, <2>1, <2>2
<1>14. ~StartConnects(s)
  <2> DEFINE In(c) == [task[s] EXCEPT !.pc = "install", !.c = c]
             q == [task[s] EXCEPT !.pc = "unhandled", !.rec = row[s]]
  <2>1. (\A c : In(c).exc = task[s].exc) /\ q.exc = task[s].exc
    BY <1>1 DEF TaskRecord
  <2>2. StartConnects(s) => Become(s, q) \/ \E c : Become(s, In(c))
    BY DEF StartConnects
  <2> HIDE DEF q, In
  <2> QED
    BY <1>4, <2>1, <2>2
<1>15. ~StartPublishes(s)
  <2> DEFINE l == task[s].ledger \cup {"registry"}
             q == [task[s] EXCEPT !.pc = "verify", !.ledger = l]
             c == task[s].c
             w == Watcher(s)
  <2>1. StartPublishes(s) => task' = [[task EXCEPT ![s] = q] EXCEPT ![c] = w]
    BY DEF StartPublishes
  <2>2. q.exc = task[s].exc
    BY <1>1 DEF TaskRecord
  <2>3. c # s
    BY <1>1, ServiceAssumption, NoneAssumption DEF TaskRecord
  <2> HIDE DEF q, c, w
  <2> QED
    BY <1>1, <2>1, <2>2, <2>3
<1> QED
  BY <1>7, <1>8, <1>9, <1>10, <1>12, <1>13, <1>14, <1>15 DEF StartStep

\* An open that takes its slot starts a task without an error, and leaves the table.
LEMMA OpenStartsTask ==
  ASSUME MoveInv, NEW o \in Op, OpenStarts(o), NEW s \in Sid, task'[s] # task[s]
  PROVE  /\ task'[s].exc = "none" /\ task'[s].pc = "connect" /\ task'[s].sid = s
         /\ row' = row /\ s = task[o].sid
<1> DEFINE u == task[o].sid
           r == StartTask(task[o].alias, u)
<1>0. u \in Sid
  BY OpFacts DEF OpenStarts, At
<1>1. /\ o \in Task /\ u \in Sid /\ s \in Task /\ task \in [Task -> TaskRecord]
      /\ o # s /\ o # u
  BY <1>0, ServiceAssumption DEF MoveInv, TypeOK, Task
<1>2. \/ End(o)
      \/ task' = [[task EXCEPT ![o] = IdleTask] EXCEPT ![u] = r] /\ row' = row
  BY DEF OpenStarts, StartTask
<1>3. r.exc = "none" /\ r.pc = "connect" /\ r.sid = u
  BY DEF StartTask, IdleTask
<1> HIDE DEF r, u
<1>4. task'[s] = task[s] \/ (s = u /\ row' = row /\ task'[s] = r)
  BY <1>1, <1>2 DEF End, Become
<1> QED
  BY <1>3, <1>4 DEF u

\* Every step keeps what is told of failures before the remote start.
LEMMA PreRemoteStep ==
  ASSUME LifecycleInv, LifecycleInv', Unlaunched, InsertsAlone, PreRemoteIsTold, [Next]_vars
  PROVE  PreRemoteIsTold'
<1> SUFFICES ASSUME NEW s \in Sid,
                    row'[s].error_code = "pre_remote" \/ task'[s].exc = "pre_remote"
             PROVE  remote'[s] = "none" /\ task'[s].pc \notin {"connect", "install"}
  BY DEF PreRemoteIsTold
<1>1. MoveInv /\ RecoveryIsAlone /\ row' \in [Sid -> Row] /\ s \in Task /\ s # Boot
  BY InvIsMoveInv, ServiceAssumption DEF LifecycleInv, TypeOK, StoreTypeOK, Task
<1>2. CASE GatewayCrashes
  <2>1. task'[s] = IdleTask /\ row' = row /\ remote' = remote
    BY <1>1, <1>2 DEF GatewayCrashes
  <2> QED
    BY <2>1, IdleTyped DEF PreRemoteIsTold
<1>3. CASE ~GatewayCrashes
  <2>1. CASE row[s].error_code = "pre_remote" \/ task[s].exc = "pre_remote"
    <3>1. remote[s] = "none" /\ task[s].pc \notin {"connect", "install"}
      BY <2>1 DEF PreRemoteIsTold
    <3>2. remote'[s] = "none"
      BY <1>1, <3>1, NoneStays DEF StartInstalls, Resumes, At
    <3>3. ASSUME NEW o \in Op, OpenStarts(o), At(o, "inserted"), task[o].sid = s
          PROVE  task'[s].pc \notin {"connect", "install"}
      <4>1. row[s].error_code # "pre_remote"
        BY <3>3 DEF InsertsAlone
      <4> QED
        BY <1>1, <3>1, <3>3, <4>1, OpenStartsTask
    <3>4. StartStep(s) => task'[s].pc \notin {"connect", "install"}
      BY <1>1, <3>1, StartsOnce
    <3> QED
      BY <1>1, <1>3, <3>1, <3>2, <3>3, <3>4, StartTasksChange
  <2>2. CASE row[s].error_code # "pre_remote" /\ task[s].exc # "pre_remote"
    <3>1. task'[s].exc = "pre_remote"
      BY <1>1, <2>2, StepCodes
    <3>2. ~\E o \in Op : OpenStarts(o)
      BY <1>1, <2>2, <3>1, OpenStartsTask
    <3>3. StartStep(s)
      BY <1>1, <1>3, <2>2, <3>1, <3>2, StartTasksChange
    <3>4. At(s, "connect") /\ StartFails(s) /\ ~StartConnects(s)
      BY <1>1, <2>2, <3>1, <3>3, StartTells
    <3>5. remote[s] = "none" /\ ~StartInstalls(s)
      BY <3>4 DEF Unlaunched, At, StartInstalls, Resumes
    <3>6. remote'[s] = "none"
      BY <1>1, <3>5, NoneStays
    <3>7. task'[s].pc \notin {"connect", "install"}
      BY <1>1, <3>3, <3>4, StartsOnce
    <3> QED
      BY <3>6, <3>7
  <2> QED
    BY <2>1, <2>2
<1> QED
  BY <1>2, <1>3

-----------------------------------------------------------------------------
(***************************************************************************)
(* Where a step of a request or of recovery leads: what the task may hold  *)
(* for true where it goes on.                                              *)
(***************************************************************************)
\* The awaits at which a task counts on something about its session's row or editor.
CountingPcs == {"fresh", "take_over", "dial", "stop", "close_conn", "forget", "finish",
                "check_done", "drop_conn", "drop", "deleted", "dropped"}

Lands(t) ==
  /\ CountsAsGone(task'[t]) =>
       \/ CountsAsGone(task[t]) \/ CountsAsNever(task[t])
       \/ remote'[task[t].sid] # "running"
  /\ task'[t].pc = "fresh" => task'[t].rec = Read(task[t].sid)
  /\ task'[t].pc \in {"deleted", "dropped"} => row'[task[t].sid] = NoRow
  /\ task'[t].pc \in SettledPcs => task[t].pc \in SettledPcs \/ ~Active(task[t].sid)

\* The awaits at which nothing is counted on.
LEMMA LandsPlain ==
  ASSUME NEW t, task'[t].pc \notin CountingPcs,
         task[t].pc \in SettledPcs \/ task'[t].pc \notin SettledPcs
  PROVE  Lands(t)
BY DEF Lands, CountsAsGone, CountingPcs

\* Going on with the same locals.
LEMMA LandsGoto ==
  ASSUME MoveInv, NEW t \in Task, NEW p, Goto(t, p), p \notin CountingPcs,
         task[t].pc \in SettledPcs \/ p \notin SettledPcs
  PROVE  Lands(t)
<1>1. task'[t].pc = p
  BY DEF Goto, MoveInv, TypeOK, TaskRecord
<1> QED
  BY <1>1, LandsPlain

\* The end of a task, or of recovery's work on a row.
LEMMA LandsEnd ==
  ASSUME MoveInv, NEW t \in Task, End(t) \/ (t = Boot /\ \E r : NextRow(r))
  PROVE  Lands(t)
<1>1. IdleTask.pc = "idle" /\ NextRowTask.pc = "next_row"
  BY IdleTyped DEF NextRowTask, TaskRecord
<1>2. task'[t] = IdleTask \/ task'[t] = NextRowTask
  BY DEF End, NextRow, Become, NextRowTask, MoveInv, TypeOK
<1> QED
  BY <1>1, <1>2, LandsPlain DEF CountingPcs, SettledPcs, DoClosePcs, ReattachPcs

\* A call of _do_close reads the row.
LEMMA LandsFresh ==
  ASSUME MoveInv, NEW t \in Task, NEW r \in TaskRecord, r.sid = task[t].sid, DoesClose(t, r),
         task[t].pc \in SettledPcs \/ ~Active(task[t].sid)
  PROVE  Lands(t)
<1> DEFINE x == Read(r.sid)
           q == [r EXCEPT !.pc = "fresh", !.rec = x, !.c = None, !.old = NoTunnel,
                          !.exc = "none"]
<1>1. Become(t, q)
  BY DEF DoesClose
<1>2. q.pc = "fresh" /\ q.rec = x
  BY DEF TaskRecord
<1> HIDE DEF q
<1>3. task'[t].pc = "fresh" /\ task'[t].rec = Read(task[t].sid)
  BY <1>1, <1>2 DEF Become, MoveInv, TypeOK
<1> QED
  BY <1>3 DEF Lands, CountsAsGone

\* Back in the caller.
LEMMA LandsReturned ==
  ASSUME MoveInv, NEW t \in Task, task[t].pc \in DoClosePcs, DoCloseReturns(t)
  PROVE  Lands(t)
<1>1. DoCloseTask(t, task[t]) /\ task[t] \in TaskRecord
  BY AtDoClose DEF DoCloseTask
<1>2. CASE task[t].kind \in {"close", "force"}
  BY <1>2, LandsEnd DEF DoCloseReturns
<1>3. CASE task[t].kind = "retry"
  <2> DEFINE x == row'[task[t].sid]
             q == [task[t] EXCEPT !.pc = "closed", !.rec = x]
  <2>1. Become(t, q)
    BY <1>3 DEF DoCloseReturns
  <2>2. q.pc = "closed"
    BY <1>1 DEF TaskRecord
  <2> HIDE DEF q
  <2>3. task'[t].pc = "closed"
    BY <2>1, <2>2 DEF Become, MoveInv, TypeOK
  <2> QED
    BY <2>3, LandsPlain DEF CountingPcs, SettledPcs
<1>4. CASE task[t].kind = "boot"
  <2>1. t = Boot /\ NextRow(task[t])
    BY <1>1, <1>4 DEF DoCloseReturns, DoCloseTask
  <2> QED
    BY <2>1, LandsEnd
<1> QED
  BY <1>1, <1>2, <1>3, <1>4 DEF DoCloseTask

\* _do_close: absence is what a stop confirms, or a row that says so.
LEMMA DoCloseLands ==
  ASSUME MoveInv, NEW t \in Task, DoCloseStep(t)
  PROVE  Lands(t)
<1>0. /\ task[t] \in TaskRecord /\ task \in [Task -> TaskRecord]
      /\ row \in [Sid -> Row] /\ remote \in [Sid -> RemoteState]
  BY TaskFacts DEF MoveInv, TypeOK, StoreTypeOK
<1>1. task[t].pc \in DoClosePcs \cup {"do_close"} /\ task[t].pc \in SettledPcs
  BY DEF DoCloseStep, DoCloseReads, DoCloseTakesTunnel, DoCloseStopsListener, DoCloseDials,
     DoCloseStopsRemote, DoCloseClosesConn, DoCloseForgets, DoCloseFinishes,
     DoCloseReleases, At, DoClosePcs, SettledPcs
<1>2. task[t].sid \in Sid
  BY DoCloseRows
<1>3. ASSUME NEW q, task'[t] = q, q.pc \notin {"fresh", "deleted", "dropped"},
             CountsAsGone(q) =>
               \/ CountsAsGone(task[t]) \/ CountsAsNever(task[t])
               \/ remote'[task[t].sid] # "running"
      PROVE  Lands(t)
  BY <1>1, <1>3 DEF Lands
<1>4. CASE DoCloseReads(t)
  BY <1>0, <1>1, <1>4, LandsFresh DEF DoCloseReads
<1>5. CASE DoCloseTakesTunnel(t)
  <2>1. CASE task[t].rec.state = "closed"
    BY <1>5, <2>1, LandsReturned DEF DoCloseTakesTunnel, At, DoClosePcs
  <2>2. CASE task[t].rec.state # "closed"
    <3> DEFINE x == tunnels[task[t].sid]
               b == CanCloseWithoutRemote(task[t].rec)
               p == IF x.c = None THEN RemoteStage(task[t].rec, None) ELSE "take_over"
               q == [task[t] EXCEPT !.c = x.c, !.old = x, !.absent = b, !.pc = p]
    <3>1. Become(t, q) /\ task[t].pc = "fresh"
      BY <1>5, <2>2 DEF DoCloseTakesTunnel, At
    <3>2. p \notin {"fresh", "deleted", "dropped", "drop_conn", "drop"}
      BY RemoteStageIsDoClose
    <3> HIDE DEF p, x
    <3>3. q.pc = p /\ (q.absent <=> b)
      BY <1>0 DEF TaskRecord
    <3> HIDE DEF q
    <3>4. CountsAsGone(q) => CountsAsNever(task[t])
      BY <3>1, <3>2, <3>3 DEF CountsAsGone, CountsAsNever
    <3>5. task'[t] = q
      BY <1>0, <3>1 DEF Become
    <3> QED
      BY <1>3, <3>2, <3>3, <3>4, <3>5
  <2> QED
    BY <2>1, <2>2
<1>6. ASSUME NEW q, task'[t] = q, task[t].pc \in {"take_over", "dial", "stop", "close_conn", "forget"},
             q.absent = task[t].absent,
             q.pc \in {"dial", "stop", "close_conn", "forget", "finish"}
      PROVE  Lands(t)
  BY <1>3, <1>6 DEF CountsAsGone
<1>7. CASE DoCloseStopsListener(t)
  <2> DEFINE p == RemoteStage(task[t].rec, task[t].c)
             q == [task[t] EXCEPT !.pc = p, !.errors = TRUE, !.old = NoTunnel]
             u == [task[t] EXCEPT !.pc = p]
  <2>1. task[t].pc = "take_over" /\ (Become(t, u) \/ Become(t, q))
    BY <1>7 DEF DoCloseStopsListener, Goto, Become, At
  <2>2. p \in {"dial", "stop", "close_conn", "forget"}
    BY RemoteStageIsDoClose
  <2> HIDE DEF p
  <2>3. q.pc = p /\ q.absent = task[t].absent /\ u.pc = p /\ u.absent = task[t].absent
    BY <1>0 DEF TaskRecord
  <2> HIDE DEF q, u
  <2>4. task'[t] = q \/ task'[t] = u
    BY <1>0, <2>1 DEF Become
  <2> QED
    BY <1>6, <2>1, <2>2, <2>3, <2>4
<1>8. CASE DoCloseDials(t)
  <2> DEFINE On(c) == [task[t] EXCEPT !.pc = "stop", !.c = c]
             q == [task[t] EXCEPT !.pc = "finish", !.errors = TRUE]
  <2>1. task[t].pc = "dial" /\ (Become(t, q) \/ \E c : Become(t, On(c)))
    BY <1>8 DEF DoCloseDials, At
  <2>2. /\ q.pc = "finish" /\ q.absent = task[t].absent
        /\ \A c : On(c).pc = "stop" /\ On(c).absent = task[t].absent
    BY <1>0 DEF TaskRecord
  <2> HIDE DEF q, On
  <2>3. task'[t] = q \/ \E c : task'[t] = On(c)
    BY <1>0, <2>1 DEF Become
  <2> QED
    BY <1>6, <2>1, <2>2, <2>3
<1>9. CASE DoCloseStopsRemote(t)
  <2> DEFINE e == task[t].errors \/ TRUE
             f == task[t].errors \/ FALSE
             q == [task[t] EXCEPT !.pc = "close_conn", !.absent = FALSE, !.errors = e]
             u == [task[t] EXCEPT !.pc = "close_conn", !.absent = TRUE, !.errors = f]
             v == [task[t] EXCEPT !.pc = "close_conn", !.absent = TRUE, !.errors = e]
  <2>1. \/ Become(t, q)
        \/ remote[task[t].sid] # "reused" /\ Removed(task[t].sid) /\ Become(t, u)
        \/ remote[task[t].sid] # "reused" /\ Stopped(task[t].sid) /\ Become(t, v)
    BY <1>9 DEF DoCloseStopsRemote
  <2>2. Removed(task[t].sid) \/ Stopped(task[t].sid) => remote'[task[t].sid] # "running"
    BY <1>0, <1>2 DEF Removed, Stopped
  <2> HIDE DEF e, f
  <2>3. /\ q.pc = "close_conn" /\ q.absent = FALSE
        /\ u.pc = "close_conn" /\ v.pc = "close_conn"
    BY <1>0 DEF TaskRecord
  <2> HIDE DEF q, u, v
  <2>4. /\ task'[t].pc = "close_conn"
        /\ task'[t].absent = FALSE \/ remote'[task[t].sid] # "running"
    BY <1>0, <2>1, <2>2, <2>3 DEF Become
  <2> QED
    BY <1>3, <2>4 DEF CountsAsGone
<1>10. CASE DoCloseClosesConn(t)
  <2> DEFINE q == [task[t] EXCEPT !.pc = "forget", !.c = None, !.old = NoTunnel]
             u == [task[t] EXCEPT !.pc = "forget", !.c = None, !.old = NoTunnel,
                                  !.errors = TRUE]
  <2>1. task[t].pc = "close_conn" /\ (Become(t, q) \/ Become(t, u))
    BY <1>10 DEF DoCloseClosesConn, At
  <2>2. /\ q.pc = "forget" /\ q.absent = task[t].absent
        /\ u.pc = "forget" /\ u.absent = task[t].absent
    BY <1>0 DEF TaskRecord
  <2> HIDE DEF q, u
  <2>3. task'[t] = q \/ task'[t] = u
    BY <1>0, <2>1 DEF Become
  <2> QED
    BY <1>6, <2>1, <2>2, <2>3
<1>11. CASE DoCloseForgets(t)
  <2>1. task'[t].pc = "finish" /\ task'[t].absent = task[t].absent /\ task[t].pc = "forget"
    BY <1>0, <1>11 DEF DoCloseForgets, Goto, At, TaskRecord
  <2> QED
    BY <1>6, <2>1
<1>12. CASE DoCloseFinishes(t)
  <2>1. CASE DoCloseReturns(t)
    BY <1>12, <2>1, LandsReturned DEF DoCloseFinishes, At, DoClosePcs
  <2>2. CASE ~DoCloseReturns(t)
    <3>1. Delete(task[t].sid) /\ Goto(t, "deleted")
      BY <1>12, <2>2 DEF DoCloseFinishes
    <3>2. row'[task[t].sid] = NoRow /\ task'[t].pc = "deleted"
      BY <1>0, <1>2, <3>1 DEF Delete, Goto, TaskRecord
    <3> QED
      BY <1>1, <3>2 DEF Lands, CountsAsGone
  <2> QED
    BY <2>1, <2>2
<1>13. CASE DoCloseReleases(t)
  BY <1>13, LandsReturned DEF DoCloseReleases, At, DoClosePcs
<1> QED
  BY <1>4, <1>5, <1>7, <1>8, <1>9, <1>10, <1>11, <1>12, <1>13 DEF DoCloseStep

\* The caller of an attempt goes on elsewhere.
LEMMA LandsOn ==
  ASSUME MoveInv, NEW t \in Task, NEW r \in TaskRecord,
         NEW label, label \in {"backoff", "lost", "clear_lost", "drop", "mark_lost"},
         label = "drop" => CountsAsGone(task[t]),
         task[t].pc \in SettledPcs \/ ~Active(task[t].sid),
         Become(t, [r EXCEPT !.pc = label, !.c = None, !.old = NoTunnel, !.exc = "none"])
  PROVE  Lands(t)
<1> DEFINE q == [r EXCEPT !.pc = label, !.c = None, !.old = NoTunnel, !.exc = "none"]
<1>1. q.pc = label
  BY DEF TaskRecord
<1>2. Become(t, q)
  OBVIOUS
<1> HIDE DEF q
<1>3. task'[t].pc = label
  BY <1>1, <1>2 DEF Become, MoveInv, TypeOK
<1>4. CountsAsGone(task'[t]) => CountsAsGone(task[t])
  BY <1>3 DEF CountsAsGone
<1> QED
  BY <1>3, <1>4 DEF Lands

\* An attempt's exception, in its caller; "absent" says that the editor is gone.
LEMMA RaisesLands ==
  ASSUME MoveInv, NEW t \in Task, NEW r, Reattacher(t, r), r.sid = task[t].sid,
         NEW exc, Raises(t, r, exc), exc = "absent" => CountsAsGone(task[t]),
         task[t].pc \in SettledPcs \/ ~Active(task[t].sid)
  PROVE  Lands(t)
<1>1. r \in TaskRecord
  BY DEF Reattacher
<1>2. CASE r.kind = "retry"
  <2>1. \/ End(t) \/ DoesClose(t, r)
        \/ Become(t, [r EXCEPT !.pc = "backoff", !.c = None, !.old = NoTunnel, !.exc = "none"])
    BY <1>2 DEF Raises
  <2> QED
    BY <1>1, <2>1, LandsEnd, LandsFresh, LandsOn
<1>3. CASE r.kind = "watch"
  <2>1. \/ End(t)
        \/ Become(t, [r EXCEPT !.pc = "lost", !.c = None, !.old = NoTunnel, !.exc = "none"])
        \/ Become(t, [r EXCEPT !.pc = "backoff", !.c = None, !.old = NoTunnel, !.exc = "none"])
    BY <1>3 DEF Raises
  <2> QED
    BY <1>1, <2>1, LandsEnd, LandsOn
<1>4. CASE r.kind = "boot"
  <2>1. t = Boot
    BY <1>4, ServiceAssumption DEF Reattacher, KindOK
  <2>2. CASE exc = "absent"
    <3>1. \/ Become(t, [r EXCEPT !.pc = "clear_lost", !.c = None, !.old = NoTunnel, !.exc = "none"])
          \/ Become(t, [r EXCEPT !.pc = "drop", !.c = None, !.old = NoTunnel, !.exc = "none"])
      BY <1>4, <2>2 DEF Raises
    <3> QED
      BY <1>1, <2>2, <3>1, LandsOn
  <2>3. CASE exc # "absent"
    <3>1. \/ NextRow(r)
          \/ Become(t, [r EXCEPT !.pc = "mark_lost", !.c = None, !.old = NoTunnel, !.exc = "none"])
      BY <1>4, <2>3 DEF Raises
    <3> QED
      BY <1>1, <2>1, <3>1, LandsOn, LandsEnd
  <2> QED
    BY <2>2, <2>3
<1> QED
  BY <1>2, <1>3, <1>4 DEF Reattacher

\* An attempt begins.
LEMMA ReattachesLands ==
  ASSUME MoveInv, NEW t \in Task, NEW r, Reattacher(t, r), r.sid = task[t].sid,
         Reattaches(t, r), task[t].pc \in SettledPcs \/ ~Active(task[t].sid)
  PROVE  Lands(t)
<1> DEFINE q == [r EXCEPT !.pc = "reconnect"]
<1>1. Raises(t, r, "error") \/ Raises(t, r, "unavailable") \/ Become(t, q)
  BY DEF Reattaches
<1>2. q.pc = "reconnect"
  BY DEF Reattacher, TaskRecord
<1> HIDE DEF q
<1>3. Become(t, q) => task'[t].pc = "reconnect"
  BY <1>2 DEF Become, MoveInv, TypeOK
<1>4. ASSUME NEW exc, exc # "absent", Raises(t, r, exc) PROVE Lands(t)
  BY <1>4, RaisesLands
<1>5. CASE task'[t].pc = "reconnect"
  <2>1. "reconnect" \notin CountingPcs
    BY DEF CountingPcs
  <2> QED
    BY <1>5, <2>1 DEF Lands, CountsAsGone, CountingPcs
<1> QED
  BY <1>1, <1>3, <1>4, <1>5

\* An attempt gives up its new connection.
LEMMA LandsAbandons ==
  ASSUME MoveInv, NEW t \in Task, task[t].pc \in ReattachPcs, NEW exc, Abandons(t, exc),
         exc = "absent" => remote'[task[t].sid] # "running"
  PROVE  Lands(t)
<1>1. PICK f : Become(t, [task[t] EXCEPT !.pc = "drop_conn", !.exc = exc, !.ledger = {},
                                         !.old = [NoTunnel EXCEPT !.listener = f]])
  BY DEF Abandons
<1> DEFINE x == [NoTunnel EXCEPT !.listener = f]
           q == [task[t] EXCEPT !.pc = "drop_conn", !.exc = exc, !.ledger = {}, !.old = x]
<1>2. Become(t, q)
  BY <1>1
<1> HIDE DEF x
<1>3. q.pc = "drop_conn" /\ q.exc = exc
  BY TaskFacts DEF TaskRecord
<1> HIDE DEF q
<1>4. task'[t].pc = "drop_conn" /\ task'[t].exc = exc
  BY <1>2, <1>3 DEF Become, MoveInv, TypeOK
<1>5. CountsAsGone(task'[t]) => exc = "absent"
  BY <1>4 DEF CountsAsGone
<1>6. task[t].pc \in SettledPcs
  BY DEF SettledPcs
<1> QED
  BY <1>4, <1>5, <1>6 DEF Lands

\* An attempt to reattach: absence is what an inspection found.
LEMMA ReattachLands ==
  ASSUME MoveInv, NEW t \in Task, ReattachStep(t)
  PROVE  Lands(t)
<1>1. /\ task[t] \in TaskRecord /\ task \in [Task -> TaskRecord]
      /\ remote \in [Sid -> RemoteState]
  BY TaskFacts DEF MoveInv, TypeOK
<1>2. CASE BackoffEnds(t)
  <2> DEFINE n == task[t].tries + 1
             r == [task[t] EXCEPT !.pc = "attempt", !.tries = n]
  <2>1. /\ ShapeOK(t, task[t]) /\ task[t].pc = "backoff"
    BY <1>2 DEF BackoffEnds, At, MoveInv, TaskShape
  <2>2. /\ task[t].tries < MaxTries /\ task[t].sid \in Sid /\ task[t].alias \in Alias
        /\ KindOK(t, task[t].kind) /\ Suspended(task[t])
    BY <2>1 DEF ShapeOK
  <2>3. n \in 0..MaxTries
    <3>1. task[t].tries \in 0..MaxTries
      BY <1>1 DEF TaskRecord
    <3> QED
      BY <2>2, <3>1, ServiceAssumption
  <2>4. "attempt" \in Label /\ task[t].kind \in {"retry", "watch"} /\ task[t].pc \in SettledPcs
    BY <2>1, <2>2 DEF Label, WatchPcs, Suspended, ClosePcs, StartPcs, BootPcs, DoClosePcs,
       ReattachPcs, SettledPcs
  <2>5. Reattaches(t, r) \/ Become(t, r)
    BY <1>2 DEF BackoffEnds
  <2> HIDE DEF n
  <2>6. Like(r, task[t]) /\ r.pc = "attempt"
    BY <1>1, <2>3, <2>4 DEF TaskRecord, Like
  <2> HIDE DEF r
  <2>7. Reattacher(t, r) /\ r.sid = task[t].sid
    BY <2>2, <2>4, <2>6 DEF Like, Reattacher
  <2>8. Become(t, r) => task'[t].pc = "attempt"
    BY <1>1, <2>6 DEF Become
  <2> QED
    BY <2>4, <2>5, <2>7, <2>8, ReattachesLands, LandsPlain DEF CountingPcs
<1>3. CASE ~BackoffEnds(t)
  <2>1. task[t].pc \in ReattachPcs /\ task[t].pc \in SettledPcs
    BY <1>3 DEF ReattachStep, Reconnects, Interrupted, Inspects, RemovesAbsent,
       ReattachVerifies, ReattachInstalls, ReattachReads, DropsConn, At, ReattachPcs,
       SettledPcs
  <2>2. Reattacher(t, task[t]) /\ task[t].sid \in Sid
    BY <2>1, AtReattach DEF Reattacher
  <2>3. ASSUME NEW exc, Raises(t, task[t], exc), exc = "absent" => CountsAsGone(task[t])
        PROVE  Lands(t)
    BY <2>1, <2>2, <2>3, RaisesLands
  <2>4. ASSUME NEW exc, Abandons(t, exc), exc = "absent" => remote'[task[t].sid] # "running"
        PROVE  Lands(t)
    BY <2>1, <2>4, LandsAbandons
  <2>5. CASE Reconnects(t)
    <3> DEFINE On(c) == [task[t] EXCEPT !.pc = "inspect", !.c = c]
    <3>1. \/ \E exc \in {"error", "late", "cancelled"} : Raises(t, task[t], exc)
          \/ \E c : Become(t, On(c))
      BY <2>5 DEF Reconnects
    <3>2. \A c : On(c).pc = "inspect"
      BY <1>1 DEF TaskRecord
    <3> HIDE DEF On
    <3>3. (\E c : Become(t, On(c))) => task'[t].pc = "inspect"
      BY <1>1, <3>2 DEF Become
    <3> QED
      BY <2>1, <2>3, <3>1, <3>3, LandsPlain DEF CountingPcs
  <2>6. CASE Interrupted(t)
    <3>1. \E exc \in {"late", "cancelled"} : Abandons(t, exc)
      BY <2>6 DEF Interrupted
    <3> QED
      BY <2>4, <3>1
  <2>7. CASE Inspects(t)
    <3>1. \/ \E exc \in {"unavailable", "error"} : Abandons(t, exc)
          \/ Goto(t, "reforward") \/ Goto(t, "remove")
      BY <2>7 DEF Inspects
    <3> QED
      BY <2>1, <2>4, <3>1, LandsGoto DEF CountingPcs
  <2>8. CASE RemovesAbsent(t)
    <3>1. \/ Abandons(t, "error")
          \/ Removed(task[t].sid) /\ Abandons(t, "absent")
      BY <2>8 DEF RemovesAbsent
    <3>2. Removed(task[t].sid) => remote'[task[t].sid] # "running"
      BY <1>1, <2>2 DEF Removed
    <3> QED
      BY <2>4, <3>1, <3>2
  <2>9. CASE ReattachVerifies(t)
    <3> DEFINE l == IF Recoverable(task[t].sid) THEN {"completed"} ELSE {}
               q == [task[t] EXCEPT !.pc = "commit", !.ledger = l]
    <3>1. Abandons(t, "error") \/ Become(t, q)
      BY <2>9 DEF ReattachVerifies
    <3> HIDE DEF l
    <3>2. q.pc = "commit"
      BY <1>1 DEF TaskRecord
    <3> HIDE DEF q
    <3>3. Become(t, q) => task'[t].pc = "commit"
      BY <1>1, <3>2 DEF Become
    <3> QED
      BY <2>1, <2>4, <3>1, <3>3, LandsPlain DEF CountingPcs
  <2>10. CASE ReattachInstalls(t)
    <3>1. CASE Raises(t, task[t], "error") \/ Abandons(t, "unavailable")
      BY <2>3, <2>4, <3>1
    <3>2. CASE Installable(t)
      <4> DEFINE r == [task[t] EXCEPT !.pc = "installed", !.c = None, !.ledger = {}]
      <4>1. r.pc = "installed"
        BY <1>1 DEF TaskRecord
      <4>2. task' = [[task EXCEPT ![t] = r] EXCEPT ![task[t].c] = Watcher(task[t].sid)]
        BY <1>1, <2>10, <3>2 DEF ReattachInstalls, Installable
      <4> HIDE DEF r
      <4>3. task[t].c # t
        <5>1. Fresh(task[t])
          BY <2>10 DEF ReattachInstalls, At, Fresh
        <5> QED
          BY <5>1 DEF MoveInv, FreshConnections, FreshOK, Fresh
      <4>4. task'[t] = r
        BY <1>1, <4>2, <4>3
      <4> QED
        BY <2>1, <4>1, <4>4, LandsPlain DEF CountingPcs
    <3> QED
      BY <2>10, <3>1, <3>2 DEF ReattachInstalls, Installable
  <2>11. CASE ReattachReads(t)
    <3>1. Reattached(t) \/ \E exc \in {"late", "cancelled"} : Raises(t, task[t], exc)
      BY <2>11 DEF ReattachReads
    <3>2. Reattached(t) => Lands(t)
      <4>1. Reattached(t) => End(t) \/ (task[t].kind = "boot" /\ NextRow(task[t]))
        BY <2>2 DEF Reattached, Reattacher
      <4>2. task[t].kind = "boot" => t = Boot
        BY <2>2, ServiceAssumption DEF Reattacher, KindOK
      <4> QED
        BY <4>1, <4>2, LandsEnd
    <3> QED
      BY <2>3, <3>1, <3>2
  <2>12. CASE DropsConn(t)
    <3>1. task[t].exc = "absent" => CountsAsGone(task[t])
      BY <2>12 DEF DropsConn, At, CountsAsGone
    <3>2. \/ Raises(t, task[t], task[t].exc)
          \/ \E exc \in {"error", "late", "cancelled"} : Raises(t, task[t], exc)
      BY <2>12 DEF DropsConn
    <3> QED
      BY <2>3, <3>1, <3>2
  <2> QED
    BY <1>3, <2>5, <2>6, <2>7, <2>8, <2>9, <2>10, <2>11, <2>12 DEF ReattachStep
<1> QED
  BY <1>2, <1>3

\* Recovery, at work on a row.
LEMMA RecoveryLands ==
  ASSUME MoveInv, RecoveryStep(Boot), ~RecoverRow(Boot), ~Active(task[Boot].sid)
  PROVE  Lands(Boot)
<1>1. /\ Boot \in Task /\ task[Boot] \in TaskRecord /\ task \in [Task -> TaskRecord]
      /\ row \in [Sid -> Row] /\ remote \in [Sid -> RemoteState]
  BY TaskFacts DEF MoveInv, TypeOK, StoreTypeOK, Task
<1>2. CASE RecoveryReattaches(Boot)
  BY <1>1, <1>2, AtRow, ReattachesLands DEF RecoveryReattaches, At, RowPcs
<1>3. CASE RecoveryEnds(Boot) \/ RecoveryReleases(Boot) \/ RecoveryMarks(Boot)
  BY <1>1, <1>3, LandsEnd DEF RecoveryEnds, RecoveryReleases, RecoveryMarks
<1>4. CASE RecoveryDials(Boot)
  <2> DEFINE On(c) == [task[Boot] EXCEPT !.pc = "check_remote", !.c = c]
  <2>1. NextRow(task[Boot]) \/ \E c : Become(Boot, On(c))
    BY <1>4 DEF RecoveryDials
  <2>2. \A c : On(c).pc = "check_remote"
    BY <1>1 DEF TaskRecord
  <2> HIDE DEF On
  <2>3. NextRow(task[Boot]) \/ task'[Boot].pc = "check_remote"
    BY <1>1, <2>1, <2>2 DEF Become
  <2> QED
    BY <1>1, <2>3, LandsEnd, LandsPlain DEF CountingPcs, SettledPcs, DoClosePcs, ReattachPcs
<1>5. CASE RecoveryInspects(Boot)
  <2> DEFINE q == [task[Boot] EXCEPT !.pc = "check_done", !.absent = TRUE]
             u == [task[Boot] EXCEPT !.pc = "check_done", !.absent = FALSE]
  <2>1. (Removed(task[Boot].sid) /\ Become(Boot, q)) \/ Become(Boot, u)
    BY <1>5 DEF RecoveryInspects
  <2>2. task[Boot].sid \in Sid
    <3>1. task[Boot].pc \in RowPcs
      BY <1>5 DEF RecoveryInspects, At, RowPcs
    <3> QED
      BY <3>1, AtRow DEF Reattacher
  <2>3. Removed(task[Boot].sid) => remote'[task[Boot].sid] # "running"
    BY <1>1, <2>2 DEF Removed
  <2>4. q.pc = "check_done" /\ u.pc = "check_done" /\ ~u.absent
    BY <1>1 DEF TaskRecord
  <2> HIDE DEF q, u
  <2>5. task'[Boot].pc = "check_done" /\ (~task'[Boot].absent \/ remote'[task[Boot].sid] # "running")
    BY <1>1, <2>1, <2>3, <2>4 DEF Become
  <2> QED
    BY <2>5 DEF Lands, CountsAsGone, SettledPcs, DoClosePcs, ReattachPcs
<1>6. CASE RecoveryChecked(Boot)
  <2> DEFINE q == [task[Boot] EXCEPT !.pc = "drop", !.c = None]
  <2>1. NextRow(task[Boot]) \/ (task[Boot].absent /\ Become(Boot, q))
    BY <1>6 DEF RecoveryChecked
  <2>2. q.pc = "drop"
    BY <1>1 DEF TaskRecord
  <2> HIDE DEF q
  <2>3. NextRow(task[Boot]) \/ (task[Boot].absent /\ task'[Boot].pc = "drop")
    BY <1>1, <2>1, <2>2 DEF Become
  <2>4. CASE task[Boot].absent /\ task'[Boot].pc = "drop"
    <3>1. CountsAsGone(task[Boot])
      BY <1>6, <2>4 DEF RecoveryChecked, At, CountsAsGone
    <3> QED
      BY <2>4, <3>1 DEF Lands, SettledPcs, DoClosePcs, ReattachPcs
  <2> QED
    BY <1>1, <2>3, <2>4, LandsEnd
<1>7. CASE RecoveryDrops(Boot)
  <2>1. task[Boot].sid \in Sid
    <3>1. task[Boot].pc \in RowPcs
      BY <1>7 DEF RecoveryDrops, At, RowPcs
    <3> QED
      BY <3>1, AtRow DEF Reattacher
  <2>2. task'[Boot].pc = "dropped" /\ row'[task[Boot].sid] = NoRow
    BY <1>1, <1>7, <2>1 DEF RecoveryDrops, Goto, Delete, TaskRecord
  <2> QED
    BY <2>2 DEF Lands, CountsAsGone, SettledPcs, DoClosePcs, ReattachPcs
<1>8. CASE RecoveryClearsLost(Boot)
  <2>1. Goto(Boot, "mark_lost")
    BY <1>8 DEF RecoveryClearsLost
  <2> QED
    BY <1>1, <2>1, LandsGoto DEF CountingPcs, SettledPcs, DoClosePcs, ReattachPcs
<1> QED
  BY <1>2, <1>3, <1>4, <1>5, <1>6, <1>7, <1>8 DEF RecoveryStep

\* Recovery, turning to a row.
LEMMA RowBegins ==
  ASSUME MoveInv, RecoverRow(Boot)
  PROVE  /\ row' = row /\ remote' = remote
         /\ ~CountsAsGone(task'[Boot]) /\ task'[Boot].pc \notin {"deleted", "dropped"}
         /\ task'[Boot].pc = "fresh" => task'[Boot].rec = Read(task'[Boot].sid)
<1> DEFINE s == CHOOSE u \in unrecovered : TRUE
           a == row[s].alias
           e == row[s]
           mine == [task[Boot] EXCEPT !.sid = s, !.alias = a, !.rec = e]
           x == Read(mine.sid)
           q == [mine EXCEPT !.pc = "fresh", !.rec = x, !.c = None, !.old = NoTunnel,
                             !.exc = "none"]
           u == [mine EXCEPT !.pc = "check_closing"]
           v == [mine EXCEPT !.pc = "reattach"]
<1>1. Boot \in Task /\ task[Boot] \in TaskRecord /\ task \in [Task -> TaskRecord]
  BY TaskFacts DEF MoveInv, TypeOK, Task
<1>2. row' = row /\ remote' = remote /\ (Become(Boot, q) \/ Become(Boot, u) \/ Become(Boot, v))
  BY DEF RecoverRow, DoesClose, world
<1> HIDE DEF s, a, e
<1>3. /\ q.pc = "fresh" /\ q.sid = mine.sid /\ q.rec = x
      /\ u.pc = "check_closing" /\ v.pc = "reattach"
  BY <1>1 DEF TaskRecord
<1> HIDE DEF q, u, v, mine
<1> QED
  BY <1>1, <1>2, <1>3 DEF Become, CountsAsGone

\* A request, settled with the start task, begins to close.
LEMMA StartsClosingLands ==
  ASSUME MoveInv, NEW o \in Op, ~Active(task[o].sid), StartsClosing(o)
  PROVE  Lands(o)
<1>1. o \in Task /\ task[o] \in TaskRecord
  BY OpFacts
<1>2. Goto(o, "do_close") => Lands(o)
  <2>1. Goto(o, "do_close") => task'[o].pc = "do_close"
    BY <1>1 DEF Goto, MoveInv, TypeOK, TaskRecord
  <2> QED
    BY <2>1 DEF Lands, CountsAsGone
<1> QED
  BY <1>1, <1>2, LandsFresh DEF StartsClosing

\* A request, settled with the start task, reattaches or closes and opens again.
LEMMA RetriesNowLands ==
  ASSUME MoveInv, NEW o \in Op, ~Active(task[o].sid), task[o].sid \in Sid,
         task[o].alias \in Alias, task[o].kind = "retry", RetriesNow(o)
  PROVE  Lands(o)
<1> DEFINE r == [task[o] EXCEPT !.tries = 1]
<1>1. o \in Task /\ task[o] \in TaskRecord
  BY OpFacts
<1>2. DoesClose(o, task[o]) \/ Reattaches(o, r)
  BY DEF RetriesNow
<1>3. r \in TaskRecord /\ r.kind = "retry" /\ r.sid = task[o].sid /\ r.alias = task[o].alias
  <2>1. 1 \in 0..MaxTries
    BY ServiceAssumption
  <2> QED
    BY <1>1, <2>1 DEF TaskRecord
<1> HIDE DEF r
<1>4. Reattacher(o, r)
  BY <1>3 DEF Reattacher, KindOK
<1> QED
  BY <1>1, <1>2, <1>3, <1>4, LandsFresh, ReattachesLands

\* A request that retries a session knows which.
LEMMA RetrySids ==
  ASSUME MoveInv, NEW o \in Op,
         \/ RetryBegins(o) /\ task[o].rec.state = "error"
         \/ RetryProceeds(o)
  PROVE  task[o].sid \in Sid /\ task[o].alias \in Alias /\ task[o].kind = "retry"
<1>1. o \in Task /\ task[o] \in TaskRecord /\ ShapeOK(o, task[o])
  BY OpFacts DEF MoveInv, TaskShape
<1>2. At(o, "looked_up") \/ At(o, "start_settles")
  BY DEF RetryBegins, RetryProceeds
<1>3. task[o].alias \in Alias
  BY <1>2, OpFacts DEF At, Busy, Holding
<1>4. CASE RetryBegins(o)
  <2>1. task[o].rec # NoRow
    <3>1. task[o].rec.state = "error"
      BY <1>4 DEF RetryProceeds, RetryBegins, At
    <3> QED
      BY <3>1 DEF NoRow
  <2>2. task[o].sid # None /\ task[o].kind = "retry"
    BY <1>1, <1>4, <2>1 DEF ShapeOK, RetryBegins, At
  <2>3. task[o].sid \in Sid
    BY <1>1, <2>2 DEF TaskRecord
  <2> QED
    BY <1>3, <2>2, <2>3
<1>5. CASE RetryProceeds(o)
  BY <1>3, <1>5, OpFacts DEF RetryProceeds, At
<1> QED
  BY <1>4, <1>5

\* close(), up to _do_close.
LEMMA CloseLands ==
  ASSUME MoveInv, NEW o \in Op, CloseStep(o)
  PROVE  Lands(o)
<1>1. o \in Task
  BY OpFacts
<1>2. ASSUME NEW p \in {"stopping", "start_settles"}, Goto(o, p) PROVE Lands(o)
  BY <1>1, <1>2, LandsGoto DEF CountingPcs, SettledPcs, DoClosePcs, ReattachPcs
<1>3. CASE CloseRecordsIntent(o)
  BY <1>1, <1>2, <1>3, LandsEnd DEF CloseRecordsIntent
<1>4. CASE CloseCancelsStart(o)
  BY <1>2, <1>4, StartsClosingLands DEF CloseCancelsStart
<1>5. CASE CloseStarts(o)
  BY <1>5, StartsClosingLands DEF CloseStarts
<1> QED
  BY <1>3, <1>4, <1>5 DEF CloseStep

\* retry(), up to _do_close or the first attempt, and its end.
LEMMA RetryLands ==
  ASSUME MoveInv, NEW o \in Op, RetryStep(o)
  PROVE  Lands(o)
<1>1. o \in Task /\ task[o] \in TaskRecord /\ task \in [Task -> TaskRecord]
  BY OpFacts DEF MoveInv, TypeOK
<1>2. CASE RetryBegins(o)
  <2>1. \/ End(o) \/ Goto(o, "start_settles")
        \/ task[o].rec.state = "error" /\ ~Active(task[o].sid) /\ RetriesNow(o)
    BY <1>2 DEF RetryBegins
  <2> QED
    BY <1>1, <1>2, <2>1, LandsEnd, LandsGoto, RetrySids, RetriesNowLands
       DEF CountingPcs, SettledPcs, DoClosePcs, ReattachPcs
<1>3. CASE RetryProceeds(o)
  <2>1. ~Active(task[o].sid) /\ RetriesNow(o)
    BY <1>3 DEF RetryProceeds
  <2> QED
    BY <1>1, <1>3, <2>1, RetrySids, RetriesNowLands
<1>4. CASE RetryReopens(o)
  <2> DEFINE r == [IdleTask EXCEPT !.pc = "enter", !.kind = "open", !.alias = task[o].alias]
  <2>1. End(o) \/ Become(o, r)
    BY <1>4 DEF RetryReopens
  <2>2. r.pc = "enter"
    BY IdleTyped DEF TaskRecord
  <2> HIDE DEF r
  <2>3. End(o) \/ task'[o].pc = "enter"
    BY <1>1, <2>1, <2>2 DEF Become
  <2> QED
    BY <1>1, <2>3, LandsEnd, LandsPlain DEF CountingPcs, SettledPcs, DoClosePcs, ReattachPcs
<1> QED
  BY <1>2, <1>3, <1>4 DEF RetryStep

\* open().
LEMMA OpenLands ==
  ASSUME MoveInv, NEW o \in Op, OpenStep(o)
  PROVE  Lands(o)
<1>1. o \in Task /\ task[o] \in TaskRecord /\ task \in [Task -> TaskRecord]
  BY OpFacts DEF MoveInv, TypeOK
<1>2. CASE Enter(o)
  <2> DEFINE u == Lookup(task[o].alias)
             x == Read(u)
             q == [task[o] EXCEPT !.pc = "looked_up", !.sid = u, !.rec = x]
  <2>1. Become(o, q)
    BY <1>2 DEF Enter
  <2>2. q.pc = "looked_up"
    BY <1>1 DEF TaskRecord
  <2> HIDE DEF q
  <2>3. task'[o].pc = "looked_up"
    BY <1>1, <2>1, <2>2 DEF Become
  <2> QED
    BY <2>3, LandsPlain DEF CountingPcs, SettledPcs, DoClosePcs, ReattachPcs
<1>3. CASE OpenChecks(o)
  <2>1. CASE End(o)
    BY <1>1, <2>1, LandsEnd
  <2>2. CASE ~End(o)
    <3> DEFINE n == NewSid
               q == [task[o] EXCEPT !.pc = "inserted", !.sid = n]
    <3>1. Become(o, q)
      BY <1>3, <2>2 DEF OpenChecks
    <3>2. q.pc = "inserted"
      BY <1>1 DEF TaskRecord
    <3> HIDE DEF q
    <3>3. task'[o].pc = "inserted"
      BY <1>1, <3>1, <3>2 DEF Become
    <3> QED
      BY <3>3, LandsPlain DEF CountingPcs, SettledPcs, DoClosePcs, ReattachPcs
  <2> QED
    BY <2>1, <2>2
<1>4. CASE OpenStarts(o)
  BY <1>4, OpenStartsEnds, LandsPlain DEF CountingPcs, SettledPcs, DoClosePcs, ReattachPcs
<1> QED
  BY <1>2, <1>3, <1>4 DEF OpenStep

\* Every step of a request.
LEMMA OpLands ==
  ASSUME MoveInv, NEW o \in Op, OpStep(o)
  PROVE  Lands(o)
<1>1. o \in Task
  BY OpFacts
<1> QED
  BY <1>1, OpenLands, CloseLands, RetryLands, DoCloseLands, ReattachLands DEF OpStep

\* A request keeps its session, until it ends or opens the alias again.
KeepsSid(o) ==
  \/ task'[o].sid = task[o].sid
  \/ task'[o].sid = None /\ task'[o].pc \in {"idle", "enter"}

\* Going on with other locals.
LEMMA BecomeKeepsSid ==
  ASSUME MoveInv, NEW o \in Op, NEW r, Become(o, r), r.sid = task[o].sid
  PROVE  KeepsSid(o)
BY OpFacts DEF KeepsSid, Become, MoveInv, TypeOK

\* Going on with the same locals.
LEMMA GotoKeepsSid ==
  ASSUME MoveInv, NEW o \in Op, NEW p, Goto(o, p)
  PROVE  KeepsSid(o)
<1>1. o \in Task /\ task[o] \in TaskRecord /\ task \in [Task -> TaskRecord]
  BY OpFacts DEF MoveInv, TypeOK
<1> QED
  BY <1>1 DEF KeepsSid, Goto, TaskRecord

\* The end.
LEMMA EndKeepsSid ==
  ASSUME MoveInv, NEW o \in Op, End(o)
  PROVE  KeepsSid(o)
BY OpFacts, IdleTyped DEF KeepsSid, End, Become, MoveInv, TypeOK

\* What continues keeps its session.
LEMMA ContinuesKeepsSid ==
  ASSUME MoveInv, NEW o \in Op, Continues(o)
  PROVE  KeepsSid(o)
BY ServiceAssumption DEF KeepsSid, Continues, Goes

\* A request has another session than before only by its lookup or its insert.
LEMMA OpSids ==
  ASSUME MoveInv, NEW o \in Op, OpStep(o), ~Enter(o), ~OpenChecks(o)
  PROVE  KeepsSid(o)
<1>1. o \in Task /\ task[o] \in TaskRecord /\ task \in [Task -> TaskRecord]
  BY OpFacts DEF MoveInv, TypeOK
<1>2. CASE OpenStarts(o)
  <2> DEFINE s == task[o].sid
             r == StartTask(task[o].alias, s)
  <2>1. s \in Sid /\ s # o
    BY <1>2, OpFacts, ServiceAssumption DEF OpenStarts, At
  <2>2. End(o) \/ task' = [[task EXCEPT ![o] = IdleTask] EXCEPT ![s] = r]
    BY <1>2 DEF OpenStarts, StartTask
  <2> HIDE DEF s, r
  <2>3. task'[o] = IdleTask
    BY <1>1, <2>1, <2>2 DEF End, Become
  <2> QED
    BY <2>3, IdleTyped DEF KeepsSid
<1>3. CASE DoCloseStep(o) \/ ReattachStep(o)
  BY <1>1, <1>3, DoCloseContinues, ReattachContinues, ContinuesKeepsSid
<1>4. ASSUME DoesClose(o, task[o]) PROVE KeepsSid(o)
  <2> DEFINE x == Read(task[o].sid)
             q == [task[o] EXCEPT !.pc = "fresh", !.rec = x, !.c = None, !.old = NoTunnel,
                                  !.exc = "none"]
  <2>1. q.sid = task[o].sid
    BY <1>1 DEF TaskRecord
  <2>2. Become(o, q)
    BY <1>4 DEF DoesClose
  <2> HIDE DEF q
  <2> QED
    BY <2>1, <2>2, BecomeKeepsSid
<1>5. CASE CloseStep(o)
  <2>1. StartsClosing(o) => DoesClose(o, task[o]) \/ Goto(o, "do_close")
    BY DEF StartsClosing
  <2>2. \/ End(o) \/ Goto(o, "stopping") \/ Goto(o, "start_settles") \/ StartsClosing(o)
    BY <1>5 DEF CloseStep, CloseRecordsIntent, CloseCancelsStart, CloseStarts
  <2> QED
    BY <1>4, <2>1, <2>2, EndKeepsSid, GotoKeepsSid
<1>6. ASSUME RetriesNow(o), task[o].kind = "retry", task[o].sid \in Sid,
             task[o].alias \in Alias
      PROVE  KeepsSid(o)
  <2> DEFINE r == [task[o] EXCEPT !.tries = 1]
  <2>1. DoesClose(o, task[o]) \/ Reattaches(o, r)
    BY <1>6 DEF RetriesNow
  <2>2. r \in TaskRecord /\ r.kind = "retry" /\ r.sid = task[o].sid /\ r.alias = task[o].alias
    <3>1. 1 \in 0..MaxTries
      BY ServiceAssumption
    <3> QED
      BY <1>1, <1>6, <3>1 DEF TaskRecord
  <2> HIDE DEF r
  <2>3. Reattacher(o, r)
    BY <1>6, <2>2 DEF Reattacher, KindOK
  <2> QED
    BY <1>1, <1>4, <1>6, <2>1, <2>2, <2>3, ReattachesContinues, ContinuesKeepsSid
<1>7. CASE RetryProceeds(o)
  BY <1>6, <1>7, RetrySids DEF RetryProceeds
<1>8. CASE RetryBegins(o)
  <2>1. \/ End(o) \/ Goto(o, "start_settles")
        \/ task[o].rec.state = "error" /\ RetriesNow(o)
    BY <1>8 DEF RetryBegins
  <2> QED
    BY <1>6, <1>8, <2>1, RetrySids, EndKeepsSid, GotoKeepsSid
<1>9. CASE RetryReopens(o)
  <2> DEFINE r == [IdleTask EXCEPT !.pc = "enter", !.kind = "open", !.alias = task[o].alias]
  <2>1. End(o) \/ Become(o, r)
    BY <1>9 DEF RetryReopens
  <2>2. r.pc = "enter" /\ r.sid = None
    BY IdleTyped DEF TaskRecord
  <2> HIDE DEF r
  <2>3. Become(o, r) => KeepsSid(o)
    BY <1>1, <2>2 DEF Become, KeepsSid
  <2> QED
    BY <2>1, <2>3, EndKeepsSid
<1> QED
  BY <1>2, <1>3, <1>5, <1>7, <1>8, <1>9 DEF OpStep, OpenStep, RetryStep

-----------------------------------------------------------------------------
(***************************************************************************)
(* The rows open() has just inserted.                                      *)
(***************************************************************************)
\* Only an open takes a slot, for the row it inserted.
LEMMA OwnedGrows ==
  ASSUME [Next]_vars, ~GatewayCrashes, NEW s \in owned', s \notin owned
  PROVE  \E o \in Op : OpenStarts(o) /\ At(o, "inserted") /\ task[o].sid = s
<1>1. ASSUME NEW t, DoCloseStep(t) PROVE owned' \subseteq owned
  BY <1>1 DEF DoCloseStep, DoCloseReads, DoCloseTakesTunnel, DoCloseStopsListener,
     DoCloseDials, DoCloseStopsRemote, DoCloseClosesConn, DoCloseForgets,
     DoCloseFinishes, DoCloseReleases, memory
<1>2. ASSUME NEW o \in Op, OpStep(o), ~OpenStarts(o) PROVE owned' \subseteq owned
  <2>1. CASE DoCloseStep(o) \/ ReattachStep(o)
    BY <1>1, <2>1, ReattachMovesNoSlot
  <2>2. CASE OpenStep(o) \/ CloseStep(o) \/ RetryStep(o)
    BY <1>2, <2>2 DEF OpenStep, CloseStep, RetryStep, Enter, OpenChecks, CloseRecordsIntent,
       CloseCancelsStart, CloseStarts, RetryBegins, RetryProceeds, RetryReopens, memory
  <2> QED
    BY <1>2, <2>1, <2>2 DEF OpStep
<1>3. ASSUME NEW o \in Op, OpenStarts(o)
      PROVE  At(o, "inserted") /\ owned' \subseteq owned \cup {task[o].sid}
  BY <1>3 DEF OpenStarts
<1>4. RecoveryStep(Boot) => owned' \subseteq owned
  BY DEF RecoveryStep, RecoverRow, RecoveryReattaches, RecoveryEnds, RecoveryDials,
     RecoveryInspects, RecoveryChecked, RecoveryDrops, RecoveryReleases,
     RecoveryClearsLost, RecoveryMarks, memory
<1>5. BootStep => owned' \subseteq owned
  BY <1>1, <1>4, ReattachMovesNoSlot DEF BootStep
<1>6. ASSUME NEW u \in Sid, StartStep(u) \/ HelperStep(u) PROVE owned' = owned
  BY <1>6, StartMovesNoSlot
<1>7. ASSUME NEW c \in Conn, WatcherStep(c) PROVE owned' = owned
  BY <1>7, WatchMovesNoSlot, ReattachMovesNoSlot DEF WatcherStep
<1>8. ASSUME \/ \E o \in Op, kind \in Requests, a \in Alias : Request(o, kind, a)
             \/ Environment \/ UNCHANGED vars
      PROVE  owned' = owned
  BY <1>8 DEF Request, Environment, ProcessDies, PidReused, OnlyRemote, ConnectionLost,
     vars, memory
<1> QED
  BY <1>2, <1>3, <1>5, <1>6, <1>7, <1>8 DEF Next, Quiescent

\* A lookup finds the session of the alias whose lock the request holds.
LEMMA EnterFinds ==
  ASSUME MoveInv, NEW o \in Op, Enter(o), NEW s \in Sid, task'[o].sid = s
  PROVE  Exists(s) /\ row[s].alias = task[o].alias /\ Head(lock[task[o].alias]) = o
<1> DEFINE u == Lookup(task[o].alias)
           x == Read(u)
           q == [task[o] EXCEPT !.pc = "looked_up", !.sid = u, !.rec = x]
<1>1. o \in Task /\ task[o] \in TaskRecord /\ task \in [Task -> TaskRecord]
  BY OpFacts DEF MoveInv, TypeOK
<1>2. Become(o, q) /\ Head(lock[task[o].alias]) = o
  BY DEF Enter, Holds
<1>3. u = None \/ u \in RowsOf(task[o].alias)
  BY DEF Lookup
<1> HIDE DEF u, x
<1>4. q.sid = u
  BY <1>1 DEF TaskRecord
<1> HIDE DEF q
<1>5. u = s
  BY <1>1, <1>2, <1>4 DEF Become
<1> QED
  BY <1>2, <1>3, <1>5, NoneAssumption DEF RowsOf

\* The row an open has just inserted gets no other request.
LEMMA InsertStaysAlone ==
  ASSUME LifecycleInv, InsertsAlone, row' \in [Sid -> Row], [Next]_vars, ~GatewayCrashes,
         NEW o \in Op, At(o, "inserted"), NEW p \in Op \ {o}
  PROVE  task'[p].sid # task[o].sid
<1> DEFINE s == task[o].sid
<1>1. /\ MoveInv /\ RecoveryIsAlone /\ o \in Task /\ p \in Op /\ p \in Task /\ p # Boot
      /\ task \in [Task -> TaskRecord] /\ p \in Closers
  BY InvIsMoveInv, ServiceAssumption DEF Task, Closers, MoveInv, TypeOK
<1>2. s \in Sid /\ Holding(task[o]) /\ s # None
  BY <1>1, OpFacts, NoneAssumption DEF At, Holding
<1>3. task[p].sid # s /\ (Exists(s) => row[s].alias = task[o].alias)
  BY DEF InsertsAlone
<1>4. KeepsSid(p) => task'[p].sid # s
  BY <1>2, <1>3 DEF KeepsSid
<1>5. ASSUME NEW kind, NEW a, Request(p, kind, a) PROVE task'[p].sid # s
  <2> DEFINE r == [IdleTask EXCEPT !.pc = "enter", !.kind = kind, !.alias = a]
  <2>1. Become(p, r)
    BY <1>5 DEF Request
  <2>2. r.sid = None
    BY IdleTyped DEF TaskRecord
  <2> HIDE DEF r
  <2> QED
    BY <1>1, <1>2, <2>1, <2>2 DEF Become
<1>6. ASSUME Enter(p) PROVE task'[p].sid # s
  <2> SUFFICES ASSUME task'[p].sid = s PROVE FALSE
    OBVIOUS
  <2>1. Exists(s) /\ row[s].alias = task[p].alias /\ Head(lock[task[p].alias]) = p
    BY <1>1, <1>2, <1>6, EnterFinds
  <2>2. Head(lock[task[o].alias]) = o
    BY <1>1, <1>2 DEF MoveInv, LockOrder, LockOK
  <2> QED
    BY <1>3, <2>1, <2>2
<1>7. ASSUME OpenChecks(p) PROVE task'[p].sid # s
  <2>1. CASE End(p)
    BY <1>1, <1>4, <2>1, EndKeepsSid
  <2>2. CASE ~End(p)
    <3> DEFINE n == NewSid
               q == [task[p] EXCEPT !.pc = "inserted", !.sid = n]
    <3>1. Become(p, q) /\ FreeSid # {}
      BY <1>7, <2>2 DEF OpenChecks
    <3>2. n \in FreeSid
      BY <3>1 DEF NewSid
    <3> HIDE DEF n
    <3>3. q.sid = n
      BY <1>1, OpFacts DEF TaskRecord
    <3> HIDE DEF q
    <3>4. n # s
      BY <1>1, <3>2 DEF FreeSid
    <3> QED
      BY <1>1, <3>1, <3>3, <3>4 DEF Become
  <2> QED
    BY <2>1, <2>2
<1>8. CASE OpStep(p)
  BY <1>1, <1>4, <1>6, <1>7, <1>8, OpSids
<1>9. CASE task'[p] = task[p]
  BY <1>3, <1>9
<1> QED
  BY <1>1, <1>5, <1>8, <1>9, ClosersChange

\* Nor does it change, but by its open.
LEMMA InsertedRow ==
  ASSUME LifecycleInv, Unlaunched, InsertsAlone, row' \in [Sid -> Row], [Next]_vars,
         NEW o \in Op, At(o, "inserted")
  PROVE  /\ row'[task[o].sid].error_code # "pre_remote"
         /\ row'[task[o].sid].state # "closed" => row'[task[o].sid].alias = task[o].alias
<1> DEFINE s == task[o].sid
<1>1. MoveInv /\ StoreTypeOK /\ row \in [Sid -> Row] /\ o \in Task /\ s \in Sid
  BY InvIsMoveInv, OpFacts DEF At, LifecycleInv, TypeOK, StoreTypeOK
<1>2. ~Active(s)
  BY DEF Unlaunched
<1>3. row[s].error_code # "pre_remote" /\ (Exists(s) => row[s].alias = task[o].alias)
  BY DEF InsertsAlone
<1>4. row'[s].error_code # "pre_remote"
  BY <1>1, <1>2, <1>3, StepCodes, StartIsActive DEF StartStep
<1>5. ASSUME NEW u, Edited(u) \/ (u \in Sid /\ Delete(u)), row'[s].state # "closed"
      PROVE  row'[s].alias = task[o].alias
  <2> DEFINE a == row'[s].alias
  <2>1. Exists(s) /\ row[s].alias = a
    BY <1>1, <1>5, RowsShrink DEF Exists
  <2> QED
    BY <1>3, <2>1
<1>6. ASSUME NewSid \in FreeSid, NEW a, Insert(NewSid, a) PROVE row'[s] = row[s]
  <2>1. NewSid # s /\ NewSid \in Sid
    BY <1>1, <1>6 DEF FreeSid
  <2> QED
    BY <1>1, <1>6, <2>1 DEF Insert
<1> QED
  BY <1>1, <1>3, <1>4, <1>5, <1>6, StepRows DEF Exists

\* The new row, right after the insert.
LEMMA InsertIsAlone ==
  ASSUME LifecycleInv, NEW o \in Op, OpenChecks(o), task'[o].pc = "inserted"
  PROVE  LET s == task'[o].sid IN
         /\ s \notin owned'
         /\ row'[s].error_code # "pre_remote"
         /\ row'[s].alias = task'[o].alias
         /\ \A p \in Op \ {o} : task'[p].sid # s
<1> DEFINE n == NewSid
           q == [task[o] EXCEPT !.pc = "inserted", !.sid = n]
           w == NewRow(task[o].alias)
<1>1. /\ MoveInv /\ o \in Task /\ task[o] \in TaskRecord /\ task \in [Task -> TaskRecord]
      /\ row \in [Sid -> Row] /\ Op \subseteq Task /\ IdleTask.pc = "idle"
  BY InvIsMoveInv, OpFacts, IdleTyped DEF LifecycleInv, TypeOK, StoreTypeOK, Task
<1>2. ~End(o)
  BY <1>1 DEF End, Become
<1>3. Become(o, q) /\ owned' = owned /\ row' = [row EXCEPT ![n] = w]
  BY <1>2 DEF OpenChecks, Insert, memory
<1>4. n \in FreeSid /\ task'[o].sid = n /\ \A u \in Task : u # o => task'[u] = task[u]
  BY <1>1, InsertsFresh
<1>5. w.error_code = "none" /\ w.alias = task[o].alias
  BY DEF NewRow, NoRow
<1> HIDE DEF n, w
<1>6. q.alias = task[o].alias
  BY <1>1 DEF TaskRecord
<1> HIDE DEF q
<1>7. task'[o].alias = task[o].alias
  BY <1>1, <1>3, <1>6 DEF Become
<1>8. n \in Sid /\ n \notin owned /\ \A t \in Task : task[t].sid # n
  BY <1>4 DEF FreeSid
<1> QED
  BY <1>1, <1>3, <1>4, <1>5, <1>7, <1>8

\* Every step keeps the rows just inserted to their opens.
LEMMA InsertsAloneStep ==
  ASSUME LifecycleInv, LifecycleInv', Unlaunched, InsertsAlone, [Next]_vars
  PROVE  InsertsAlone'
<1>1. MoveInv /\ row' \in [Sid -> Row]
  BY InvIsMoveInv DEF LifecycleInv, TypeOK, StoreTypeOK
<1>2. CASE GatewayCrashes
  <2>1. \A t \in Task : task'[t].pc \in {"idle", "next_row"}
    BY <1>2, IdleTyped, NextRowShape DEF GatewayCrashes, TaskRecord
  <2> QED
    BY <2>1 DEF InsertsAlone, At, Task
<1>3. CASE ~GatewayCrashes
  <2> SUFFICES ASSUME NEW o \in Op, task'[o].pc = "inserted"
               PROVE  /\ task'[o].sid \notin owned'
                      /\ row'[task'[o].sid].error_code # "pre_remote"
                      /\ row'[task'[o].sid].state # "closed" =>
                           row'[task'[o].sid].alias = task'[o].alias
                      /\ \A p \in Op \ {o} : task'[p].sid # task'[o].sid
    BY DEF InsertsAlone, At, Exists
  <2>1. CASE OpenChecks(o)
    BY <2>1, InsertIsAlone
  <2>2. CASE task'[o] = task[o]
    <3>1. At(o, "inserted") /\ task[o].sid \notin owned
      BY <2>2 DEF At, InsertsAlone
    <3>2. ASSUME NEW p \in Op, OpenStarts(p), At(p, "inserted"), task[p].sid = task[o].sid
          PROVE  FALSE
      <4>1. p = o
        BY <3>1, <3>2 DEF Unlaunched
      <4> QED
        BY <1>1, <3>2, <4>1, OpenStartsEnds
    <3>3. task[o].sid \notin owned'
      BY <1>3, <3>1, <3>2, OwnedGrows
    <3> QED
      BY <1>1, <1>3, <2>2, <3>1, <3>3, InsertedRow, InsertStaysAlone
  <2> QED
    BY <1>3, <2>1, <2>2, RequestsChange
<1> QED
  BY <1>2, <1>3

-----------------------------------------------------------------------------
(***************************************************************************)
(* Settled start tasks.                                                    *)
(***************************************************************************)
\* A start task begins with its open, when it has taken the slot.
LEMMA StartsBegin ==
  ASSUME MoveInv, RecoveryIsAlone, row' \in [Sid -> Row], [Next]_vars, ~GatewayCrashes,
         NEW s \in Sid, ~Active(s)
  PROVE  \/ ~Active(s)'
         \/ \E p \in Op : OpenStarts(p) /\ At(p, "inserted") /\ task[p].sid = s
BY StartTasksChange, StartIsActive DEF Active

\* Only a running recovery takes steps.
LEMMA BootIsActive ==
  ASSUME BootStep
  PROVE  Active(Boot)
BY DEF BootStep, RecoveryStep, RecoverRow, RecoveryReattaches, RecoveryEnds, RecoveryDials,
   RecoveryInspects, RecoveryChecked, RecoveryDrops, RecoveryReleases, RecoveryClearsLost,
   RecoveryMarks, DoCloseStep, DoCloseReads, DoCloseTakesTunnel, DoCloseStopsListener,
   DoCloseDials, DoCloseStopsRemote, DoCloseClosesConn, DoCloseForgets, DoCloseFinishes,
   DoCloseReleases, ReattachStep, Reconnects, Interrupted, Inspects, RemovesAbsent,
   ReattachVerifies, ReattachInstalls, ReattachReads, DropsConn, BackoffEnds, At, Active

\* What a request has settled stays so.
LEMMA OpStaysSettled ==
  ASSUME LifecycleInv, LifecycleInv', InsertsAlone, Settled, [Next]_vars, ~GatewayCrashes,
         NEW o \in Op, task'[o].pc \in SettledPcs
  PROVE  task'[o].sid = task[o].sid /\ task[o].sid \in Sid /\ ~Active(task[o].sid)
         /\ ~Active(task[o].sid)'
<1>1. /\ MoveInv /\ RecoveryIsAlone /\ row' \in [Sid -> Row] /\ o \in Task /\ o # Boot
      /\ o \in Closers /\ task \in [Task -> TaskRecord]
  BY InvIsMoveInv, ServiceAssumption
     DEF LifecycleInv, TypeOK, StoreTypeOK, Task, Closers, MoveInv
<1>2. task'[o].pc \notin {"idle", "enter", "looked_up", "inserted", "next_row"}
  BY DEF SettledPcs, DoClosePcs, ReattachPcs
<1>3. task'[o].sid \in Sid
  <2>1. ShapeOK(o, task'[o])
    BY <1>1 DEF LifecycleInv, TaskShape
  <2> QED
    BY <1>2, <2>1 DEF ShapeOK
<1>4. task'[o].sid = task[o].sid /\ ~Active(task[o].sid)
  <2>1. CASE task'[o] = task[o]
    BY <2>1 DEF Settled
  <2>2. ASSUME NEW kind, NEW a, Request(o, kind, a) PROVE FALSE
    <3> DEFINE r == [IdleTask EXCEPT !.pc = "enter", !.kind = kind, !.alias = a]
    <3>1. Become(o, r)
      BY <2>2 DEF Request
    <3>2. r.pc = "enter"
      BY IdleTyped DEF TaskRecord
    <3> HIDE DEF r
    <3> QED
      BY <1>1, <1>2, <3>1, <3>2 DEF Become
  <2>3. CASE OpStep(o)
    <3>1. ~OpenStep(o)
      <4>1. CASE Enter(o)
        <5> DEFINE u == Lookup(task[o].alias)
                   x == Read(u)
                   q == [task[o] EXCEPT !.pc = "looked_up", !.sid = u, !.rec = x]
        <5>1. Become(o, q)
          BY <4>1 DEF Enter
        <5>2. q.pc = "looked_up"
          BY <1>1 DEF TaskRecord
        <5> HIDE DEF q
        <5> QED
          BY <1>1, <1>2, <5>1, <5>2 DEF Become
      <4>2. CASE OpenChecks(o)
        <5> DEFINE n == NewSid
                   q == [task[o] EXCEPT !.pc = "inserted", !.sid = n]
        <5>1. End(o) \/ Become(o, q)
          BY <4>2 DEF OpenChecks
        <5>2. q.pc = "inserted" /\ IdleTask.pc = "idle"
          BY <1>1, IdleTyped DEF TaskRecord
        <5> HIDE DEF q
        <5> QED
          BY <1>1, <1>2, <5>1, <5>2 DEF End, Become
      <4> QED
        BY <1>1, <1>2, <4>1, <4>2, OpenStartsEnds DEF OpenStep
    <3>2. KeepsSid(o) /\ Lands(o)
      BY <1>1, <2>3, <3>1, OpSids, OpLands DEF OpenStep
    <3> QED
      BY <1>2, <3>2 DEF KeepsSid, Lands, Settled
  <2> QED
    BY <1>1, <2>1, <2>2, <2>3, ClosersChange
<1>5. ASSUME NEW p \in Op, OpenStarts(p), At(p, "inserted"), task[p].sid = task[o].sid
      PROVE  FALSE
  <2>1. p = o
    BY <1>5 DEF InsertsAlone
  <2> QED
    BY <1>1, <1>2, <1>5, <2>1, OpenStartsEnds
<1> QED
  BY <1>1, <1>3, <1>4, <1>5, StartsBegin

\* No session starts while recovery runs.
LEMMA BootStaysSettled ==
  ASSUME LifecycleInv, LifecycleInv', Settled, [Next]_vars, ~GatewayCrashes,
         Active(Boot)'
  PROVE  Active(Boot) /\ \A s \in Sid : ~Active(s) /\ ~Active(s)'
<1>1. /\ MoveInv /\ RecoveryIsAlone /\ row' \in [Sid -> Row] /\ Boot \in Closers /\ Boot \notin Op
  BY InvIsMoveInv, ServiceAssumption DEF LifecycleInv, TypeOK, StoreTypeOK, Closers
<1>2. Active(Boot)
  BY <1>1, ClosersChange, BootIsActive DEF Active
<1>3. ~\E p \in Op : At(p, "inserted")
  BY <1>1, <1>2 DEF RecoveryIsAlone, Active, At
<1> QED
  BY <1>1, <1>2, <1>3, StartsBegin DEF Settled

\* So does the rest.
LEMMA SettledStep ==
  ASSUME LifecycleInv, LifecycleInv', InsertsAlone, Settled, [Next]_vars
  PROVE  Settled'
<1>1. CASE GatewayCrashes
  <2>1. \A t \in Task : t # Boot => task'[t] = IdleTask
    BY <1>1 DEF GatewayCrashes
  <2>2. /\ \A o \in Op : task'[o].pc = "idle"
        /\ \A s \in Sid : task'[s].pc = "idle"
    BY <2>1, IdleTyped, ServiceAssumption DEF Task
  <2> QED
    BY <2>2 DEF Settled, Active, SettledPcs, DoClosePcs, ReattachPcs
<1>2. CASE ~GatewayCrashes
  <2>1. \A o \in Op : task'[o].pc \in SettledPcs => task'[task'[o].sid].pc = "idle"
    BY <1>2, OpStaysSettled DEF Active
  <2>2. task'[Boot].pc # "idle" => \A s \in Sid : task'[s].pc = "idle"
    BY <1>2, BootStaysSettled DEF Active
  <2> QED
    BY <2>1, <2>2 DEF Settled, Active
<1> QED
  BY <1>1, <1>2

-----------------------------------------------------------------------------
(***************************************************************************)
(* Editors being launched, and editors that are gone.                      *)
(***************************************************************************)
\* An editor is being launched as before, or its start task has just sent session-start.
LEMMA StartingBegins ==
  ASSUME MoveInv, [Next]_vars, NEW s \in Sid, remote'[s] = "starting"
  PROVE  remote[s] = "starting" \/ StartInstalls(s)
<1>1. remote \in [Sid -> RemoteState]
  BY DEF MoveInv, TypeOK
<1>2. ASSUME NEW u \in Sid, StartInstalls(u), u # s PROVE remote[s] = "starting"
  BY <1>1, <1>2 DEF StartInstalls
<1>3. CASE Settles
  BY <1>1, <1>3 DEF Settles, EditorChanges
<1> QED
  BY <1>2, <1>3, StepSettles

\* A start task that no longer listens has given the launch up.
LEMMA StartGivesUp ==
  ASSUME NEW s \in Sid, StartStep(s), At(s, "start"), remote[s] = "starting"
  PROVE  s \in abandoned'
<1>1. ~StartLaunches(s)
  BY DEF StartLaunches
<1>2. StartCancelled(s) \/ StartFails(s)
  BY <1>1 DEF StartStep, StartConnects, StartInstalls, StartForwards, StartForwarded,
     StartPublishes, StartVerifies, StartDone, StartUnhandled, CleanupCancelled,
     CleanupDecides, CleanupWatcherEnded, CleanupListener, CleanupRemote, CleanupConn,
     CleanupMarks, Resumes, At
<1> QED
  BY <1>2 DEF StartCancelled, StartFails, GivesUp

\* Every step keeps the editors being launched awaited.
LEMMA StartingStep ==
  ASSUME LifecycleInv, LifecycleInv', Unlaunched, StartingIsAwaited, [Next]_vars
  PROVE  StartingIsAwaited'
<1> SUFFICES ASSUME NEW s \in Sid, remote'[s] = "starting"
             PROVE  task'[s].pc = "start" \/ s \in abandoned'
  BY DEF StartingIsAwaited, At
<1>1. /\ MoveInv /\ RecoveryIsAlone /\ row' \in [Sid -> Row] /\ s \in Task
      /\ task \in [Task -> TaskRecord]
  BY InvIsMoveInv DEF LifecycleInv, TypeOK, StoreTypeOK, Task
<1>2. CASE GatewayCrashes
  BY <1>2 DEF GatewayCrashes
<1>3. CASE StartInstalls(s)
  BY <1>1, <1>3 DEF StartInstalls, Goto, TaskRecord
<1>4. CASE ~GatewayCrashes /\ remote[s] = "starting"
  <2>1. CASE s \in abandoned
    BY <1>4, <2>1, AbandonedStays DEF FreeSid
  <2>2. CASE At(s, "start")
    <3>1. ASSUME NEW p \in Op, At(p, "inserted"), task[p].sid = s PROVE FALSE
      BY <1>4, <3>1 DEF Unlaunched
    <3> QED
      BY <1>1, <1>4, <2>2, <3>1, StartTasksChange, StartGivesUp DEF At
  <2> QED
    BY <1>4, <2>1, <2>2 DEF StartingIsAwaited
<1> QED
  BY <1>1, <1>2, <1>3, <1>4, StartingBegins

\* With no start task at work, what is gone, or never was, stays so.
LEMMA QuietStays ==
  ASSUME MoveInv, [Next]_vars, NEW s \in Sid, ~Active(s)
  PROVE  /\ Gone(s) => Gone(s)'
         /\ remote[s] = "none" => remote'[s] = "none"
<1>1. ~StartInstalls(s)
  BY StartIsActive DEF StartStep
<1> QED
  BY <1>1, GoneStays, NoneStays

\* What a closing task counts on where a step leads it.
CountsRightly(t) ==
  /\ CountsAsGone(task[t]) => Gone(task[t].sid)
  /\ CountsAsNever(task[t]) => remote[task[t].sid] = "none"

\* A task that goes on with a settled session counts on what is true.
LEMMA LandsRightly ==
  ASSUME LifecycleInv, PreRemoteIsTold, StartingIsAwaited', [Next]_vars,
         NEW t \in Closers, CountsRightly(t), Lands(t) \/ task'[t] = task[t],
         task'[t].sid = task[t].sid, task[t].sid \in Sid,
         ~Active(task[t].sid), ~Active(task[t].sid)'
  PROVE  CountsRightly(t)'
<1> DEFINE s == task[t].sid
<1>1. MoveInv /\ s \in Sid /\ s # None
  BY InvIsMoveInv, NoneAssumption
<1>2. (Gone(s) => Gone(s)') /\ (remote[s] = "none" => remote'[s] = "none")
  BY <1>1, QuietStays
<1>3. CASE task'[t] = task[t]
  BY <1>2, <1>3 DEF CountsRightly, CountsAsGone, CountsAsNever, Gone
<1>4. CASE Lands(t)
  <2>1. ASSUME CountsAsGone(task'[t]) PROVE Gone(s)'
    <3>1. CASE CountsAsGone(task[t]) \/ CountsAsNever(task[t])
      BY <1>2, <3>1 DEF CountsRightly, Gone
    <3>2. CASE remote'[s] # "running"
      <4>1. remote'[s] = "starting" => s \in abandoned'
        BY <1>1 DEF StartingIsAwaited, At, Active
      <4> QED
        BY <3>2, <4>1 DEF Gone
    <3> QED
      BY <1>4, <2>1, <3>1, <3>2 DEF Lands
  <2>2. ASSUME CountsAsNever(task'[t]) PROVE remote'[s] = "none"
    <3>1. task'[t].pc = "fresh" /\ CanCloseWithoutRemote(task'[t].rec)
      BY <2>2 DEF CountsAsNever
    <3>2. task'[t].rec = row[s]
      BY <1>1, <1>4, <3>1 DEF Lands, Read
    <3>3. row[s].error_code = "pre_remote"
      BY <3>1, <3>2 DEF CanCloseWithoutRemote
    <3> QED
      BY <1>1, <1>2, <3>3 DEF PreRemoteIsTold
  <2> QED
    BY <2>1, <2>2 DEF CountsRightly, CountsAsGone, CountsAsNever, Gone
<1> QED
  BY <1>3, <1>4

\* A request.
LEMMA OpCountsRightly ==
  ASSUME LifecycleInv, LifecycleInv', InsertsAlone, Settled, PreRemoteIsTold,
         StartingIsAwaited', AbsentIsGone, [Next]_vars, ~GatewayCrashes, NEW o \in Op
  PROVE  CountsRightly(o)'
<1>1. /\ MoveInv /\ RecoveryIsAlone /\ row' \in [Sid -> Row] /\ o \in Task /\ o # Boot
      /\ o \in Closers /\ task \in [Task -> TaskRecord]
  BY InvIsMoveInv, ServiceAssumption
     DEF LifecycleInv, TypeOK, StoreTypeOK, Task, Closers, MoveInv
<1>2. CASE task'[o].pc \in SettledPcs
  <2>1. task'[o].sid = task[o].sid /\ task[o].sid \in Sid /\ ~Active(task[o].sid)
        /\ ~Active(task[o].sid)'
    BY <1>1, <1>2, OpStaysSettled
  <2>2. CountsRightly(o)
    BY <1>1 DEF AbsentIsGone, CountsRightly
  <2>3. ASSUME NEW kind, NEW a, Request(o, kind, a) PROVE FALSE
    <3> DEFINE r == [IdleTask EXCEPT !.pc = "enter", !.kind = kind, !.alias = a]
    <3>1. Become(o, r)
      BY <2>3 DEF Request
    <3>2. r.pc = "enter"
      BY IdleTyped DEF TaskRecord
    <3> HIDE DEF r
    <3> QED
      BY <1>1, <1>2, <3>1, <3>2 DEF Become, SettledPcs, DoClosePcs, ReattachPcs
  <2>4. Lands(o) \/ task'[o] = task[o]
    BY <1>1, <2>3, ClosersChange, OpLands
  <2> QED
    BY <1>1, <2>1, <2>2, <2>4, LandsRightly
<1>3. CASE task'[o].pc \notin SettledPcs
  <2>1. ShapeOK(o, task'[o])
    BY <1>1 DEF LifecycleInv, TaskShape
  <2>2. task'[o].kind \in {"none", "open", "close", "force", "retry"}
    BY <1>1, <2>1, ServiceAssumption DEF ShapeOK, KindOK
  <2>3. task'[o].pc \notin {"check_done", "drop"}
    BY <2>1, <2>2 DEF ShapeOK, Suspended, ClosePcs, RetryPcs, DoClosePcs, ReattachPcs
  <2> QED
    BY <1>3, <2>3 DEF CountsRightly, CountsAsGone, CountsAsNever, SettledPcs, DoClosePcs,
       ReattachPcs
<1> QED
  BY <1>2, <1>3

\* Recovery keeps the session it is at work on.
LEMMA BootSids ==
  ASSUME MoveInv, BootStep, ~RecoverRow(Boot), task'[Boot].pc \notin {"idle", "next_row"}
  PROVE  task'[Boot].sid = task[Boot].sid /\ task[Boot].pc # "next_row" /\ ~RecoveryEnds(Boot)
<1>1. Boot \in Task /\ task \in [Task -> TaskRecord]
  BY DEF Task, MoveInv, TypeOK
<1>2. ~RecoveryEnds(Boot)
  BY <1>1, IdleTyped DEF RecoveryEnds, End, Become
<1>3. task[Boot].pc # "next_row"
  BY <1>2 DEF BootStep, RecoveryStep, RecoveryReattaches, RecoveryDials,
     RecoveryInspects, RecoveryChecked, RecoveryDrops, RecoveryReleases, RecoveryClearsLost,
     RecoveryMarks, DoCloseStep, DoCloseReads, DoCloseTakesTunnel, DoCloseStopsListener,
     DoCloseDials, DoCloseStopsRemote, DoCloseClosesConn, DoCloseForgets, DoCloseFinishes,
     DoCloseReleases, ReattachStep, Reconnects, Interrupted, Inspects, RemovesAbsent,
     ReattachVerifies, ReattachInstalls, ReattachReads, DropsConn, BackoffEnds, At
<1>4. Continues(Boot)
  BY <1>1, <1>2, RecoveryContinues, DoCloseContinues, ReattachContinues DEF BootStep
<1> QED
  BY <1>2, <1>3, <1>4 DEF Continues, Goes

\* Recovery.
LEMMA BootCountsRightly ==
  ASSUME LifecycleInv, LifecycleInv', Settled, PreRemoteIsTold,
         StartingIsAwaited', AbsentIsGone, [Next]_vars, ~GatewayCrashes
  PROVE  CountsRightly(Boot)'
<1>1. /\ MoveInv /\ RecoveryIsAlone /\ row' \in [Sid -> Row] /\ Boot \in Task
      /\ Boot \in Closers /\ task \in [Task -> TaskRecord] /\ Boot \notin Op
  BY InvIsMoveInv, ServiceAssumption
     DEF LifecycleInv, TypeOK, StoreTypeOK, Task, Closers, MoveInv
<1>2. CASE task'[Boot].pc \in {"idle", "next_row"}
  BY <1>2 DEF CountsRightly, CountsAsGone, CountsAsNever
<1>3. CASE task'[Boot].pc \notin {"idle", "next_row"}
  <2>1. \A s \in Sid : ~Active(s) /\ ~Active(s)'
    BY <1>1, <1>3, BootStaysSettled DEF Active
  <2>2. ShapeOK(Boot, task'[Boot])
    BY <1>1 DEF LifecycleInv, TaskShape
  <2>3. task'[Boot].kind \in {"none", "boot"}
    BY <2>2, ServiceAssumption DEF ShapeOK, KindOK
  <2>4. task'[Boot].pc \notin {"enter", "looked_up"}
    BY <2>2, <2>3 DEF ShapeOK, Suspended, BootPcs, DoClosePcs, ReattachPcs
  <2>5. task'[Boot].sid \in Sid /\ task'[Boot].sid # None
    BY <1>3, <2>2, <2>4, NoneAssumption DEF ShapeOK
  <2>6. CountsRightly(Boot)
    BY <1>1 DEF AbsentIsGone, CountsRightly
  <2>7. CASE task'[Boot] = task[Boot]
    BY <1>1, <2>1, <2>5, <2>6, <2>7, LandsRightly
  <2>8. CASE RecoverRow(Boot)
    <3> DEFINE s == task'[Boot].sid
    <3>1. /\ row' = row /\ remote' = remote /\ ~CountsAsGone(task'[Boot])
          /\ task'[Boot].pc = "fresh" => task'[Boot].rec = row[s]
      BY <1>1, <2>5, <2>8, RowBegins DEF Read
    <3>2. CountsAsNever(task'[Boot]) => row[s].error_code = "pre_remote"
      BY <3>1 DEF CountsAsNever, CanCloseWithoutRemote
    <3>3. CountsAsNever(task'[Boot]) => remote'[s] = "none"
      BY <2>5, <3>1, <3>2 DEF PreRemoteIsTold
    <3> QED
      BY <3>1, <3>3 DEF CountsRightly, CountsAsGone, CountsAsNever
  <2>9. CASE BootStep /\ ~RecoverRow(Boot)
    <3>1. task'[Boot].sid = task[Boot].sid
      BY <1>1, <1>3, <2>9, BootSids
    <3>2. ~Active(task[Boot].sid) /\ ~Active(task[Boot].sid)' /\ task[Boot].sid \in Sid
      BY <2>1, <2>5, <3>1
    <3>3. Lands(Boot)
      BY <1>1, <2>9, <3>2, RecoveryLands, DoCloseLands, ReattachLands DEF BootStep
    <3> QED
      BY <1>1, <2>6, <3>1, <3>2, <3>3, LandsRightly
  <2> QED
    BY <1>1, <2>7, <2>8, <2>9, ClosersChange
<1> QED
  BY <1>2, <1>3

\* Every step keeps what closing tasks count on.
LEMMA AbsentStep ==
  ASSUME LifecycleInv, LifecycleInv', InsertsAlone, Settled, PreRemoteIsTold,
         StartingIsAwaited', AbsentIsGone, [Next]_vars
  PROVE  AbsentIsGone'
<1>1. CASE GatewayCrashes
  <2>1. \A t \in Task : task'[t].pc \in {"idle", "next_row"}
    BY <1>1, IdleTyped, NextRowShape DEF GatewayCrashes, TaskRecord
  <2> QED
    BY <2>1 DEF AbsentIsGone, CountsAsGone, CountsAsNever, Closers, Task
<1>2. CASE ~GatewayCrashes
  <2>1. \A t \in Closers : CountsRightly(t)'
    BY <1>2, OpCountsRightly, BootCountsRightly DEF Closers
  <2> QED
    BY <2>1 DEF AbsentIsGone, CountsRightly, CountsAsGone, CountsAsNever, Gone
<1> QED
  BY <1>1, <1>2

-----------------------------------------------------------------------------
(***************************************************************************)
(* The invariant, and what follows from it.                                *)
(***************************************************************************)
\* At first there is no row, no editor and no task.
LEMMA SafetyInit ==
  ASSUME Init
  PROVE  SafetyInv
<1>1. \A t \in Task : task[t].pc = "idle" /\ task[t].exc = "none"
  BY IdleTyped DEF Init, IdleTask
<1>2. \A s \in Sid : row[s].error_code = "none" /\ remote[s] = "none"
  BY DEF Init, StoreInit, NoRow
<1>3. \A o \in Op : task[o].pc = "idle"
  BY <1>1 DEF Task
<1>4. task[Boot].pc = "idle" /\ \A s \in Sid : task[s].pc = "idle" /\ task[s].exc = "none"
  BY <1>1 DEF Task
<1>5. InsertsAlone /\ Settled
  BY <1>3, <1>4 DEF InsertsAlone, Settled, At, Active, SettledPcs, DoClosePcs, ReattachPcs
<1>6. PreRemoteIsTold /\ StartingIsAwaited
  BY <1>2, <1>4 DEF PreRemoteIsTold, StartingIsAwaited
<1>7. AbsentIsGone
  BY <1>3, <1>4 DEF AbsentIsGone, CountsAsGone, CountsAsNever, Closers
<1> QED
  BY <1>5, <1>6, <1>7, UnlaunchedInit DEF SafetyInv

\* Every step keeps it.
LEMMA SafetyStep ==
  ASSUME LifecycleInv, LifecycleInv', SafetyInv, [Next]_vars
  PROVE  SafetyInv'
<1>1. Unlaunched' /\ InsertsAlone' /\ Settled' /\ PreRemoteIsTold' /\ StartingIsAwaited'
  BY UnlaunchedStep, InsertsAloneStep, SettledStep, PreRemoteStep, StartingStep DEF SafetyInv
<1>2. AbsentIsGone'
  BY <1>1, AbsentStep DEF SafetyInv
<1> QED
  BY <1>1, <1>2 DEF SafetyInv

\* In every order of requests, start tasks, watchers, recoveries and restarts a task
\* that takes the editor of its session for gone, or for never started, is right: the
\* start task that could bring one up has been settled before, and what a stop, an
\* inspection or the row said of it is still true when it is used.
THEOREM SafetyInvariant == Spec => []SafetyInv
<1>1. Init => SafetyInv
  BY SafetyInit
<1>2. LifecycleInv /\ LifecycleInv' /\ SafetyInv /\ [Next]_vars => SafetyInv'
  BY SafetyStep
<1> QED
  BY <1>1, <1>2, LifecycleInvariant, PTL DEF Spec

\* A row that _can_close_without_remote_inspection accepts belongs to a session whose
\* editor was never started.
THEOREM PreRemoteStays == Spec => []PreRemoteNeverStarted
<1>1. SafetyInv => PreRemoteNeverStarted
  BY DEF SafetyInv, PreRemoteIsTold, PreRemoteNeverStarted, CanCloseWithoutRemote
<1> QED
  BY <1>1, SafetyInvariant, PTL

\* Who deletes a row.
LEMMA Deletions ==
  ASSUME MoveInv, [Next]_vars, NEW s \in Sid, Exists(s), row'[s].state = "closed"
  PROVE  \E t \in Closers : /\ OpenStarts(t) \/ DoCloseFinishes(t) \/ RecoveryDrops(t)
                            /\ task[t].sid = s
<1>1. StoreTypeOK /\ row \in [Sid -> Row] /\ ~Exists(s)'
  BY DEF MoveInv, TypeOK, StoreTypeOK, Exists, NoRow
<1>2. ASSUME NEW u, Edited(u) PROVE FALSE
  BY <1>1, <1>2, EditedRows DEF Exists
<1>3. ASSUME NewSid \in FreeSid, NEW a, Insert(NewSid, a) PROVE FALSE
  <2>1. NewSid # s
    BY <1>3 DEF FreeSid
  <2> QED
    BY <1>1, <1>3, <2>1 DEF Insert, Exists
<1>4. ASSUME NEW u \in Sid, Delete(u) PROVE u = s
  BY <1>1, <1>4 DEF Delete, Exists
<1> QED
  BY <1>2, <1>3, <1>4, StepRows

\* A row is deleted when the editor is gone, or by force.
LEMMA DeletionStep ==
  ASSUME LifecycleInv, SafetyInv, [Next]_vars, NEW s \in Sid, Exists(s), row'[s] = NoRow
  PROVE  remote[s] \notin {"starting", "running"} \/ Forced(s) \/ s \in abandoned
<1>1. MoveInv /\ StoreTypeOK /\ row'[s].state = "closed"
  BY InvIsMoveInv DEF LifecycleInv, TypeOK, NoRow
<1>2. PICK t \in Closers : /\ OpenStarts(t) \/ DoCloseFinishes(t) \/ RecoveryDrops(t)
                           /\ task[t].sid = s
  BY <1>1, Deletions
<1>3. CountsAsGone(task[t]) => Gone(s)
  BY <1>2 DEF SafetyInv, AbsentIsGone
<1>4. CASE OpenStarts(t)
  <2>1. At(t, "inserted")
    BY <1>4 DEF OpenStarts
  <2>2. t \in Op
    <3>1. task[Boot].pc # "inserted"
      BY <1>1, BootFacts DEF Suspended, BootPcs, DoClosePcs, ReattachPcs
    <3> QED
      BY <2>1, <3>1 DEF Closers, At
  <2> QED
    BY <1>2, <2>1, <2>2 DEF SafetyInv, Unlaunched
<1>5. CASE DoCloseFinishes(t)
  <2>1. /\ At(t, "finish") /\ task[t].pc \in DoClosePcs /\ t \in Task
        /\ MarkError(s, "stop_failed") \/ task[t].kind = "force" \/ task[t].absent
    BY <1>2, <1>5 DEF DoCloseFinishes, At, DoClosePcs, Closers, Task
  <2>2. ~MarkError(s, "stop_failed")
    BY <1>1, EditFields
  <2>3. task[t].kind = "force" => t \in Op
    BY <1>1, <2>1, AtDoClose DEF DoCloseTask
  <2>4. task[t].absent => CountsAsGone(task[t])
    BY <2>1 DEF At, CountsAsGone
  <2> QED
    BY <1>2, <1>3, <2>1, <2>2, <2>3, <2>4 DEF Gone, Forced
<1>6. CASE RecoveryDrops(t)
  BY <1>3, <1>6 DEF RecoveryDrops, At, CountsAsGone, Gone
<1> QED
  BY <1>2, <1>4, <1>5, <1>6

\* A normal close, a retry and recovery delete the row of a session only when its editor
\* is gone; only a force close, or a launch given up unanswered, may leave one behind.
THEOREM DeletionsFollowStop == Spec => DeletionFollowsStop
<1>1. LifecycleInv /\ SafetyInv /\ [Next]_vars =>
        [\A s \in Sid : Exists(s) /\ row'[s] = NoRow =>
           remote[s] \notin {"starting", "running"} \/ Forced(s) \/ s \in abandoned]_vars
  BY DeletionStep
<1> QED
  BY <1>1, SafetyInvariant, LifecycleInvariant, PTL DEF Spec, DeletionFollowsStop

=============================================================================
