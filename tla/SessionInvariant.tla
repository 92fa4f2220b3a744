--------------------------- MODULE SessionInvariant ---------------------------
(***************************************************************************)
(* The inductive invariant of the session lifecycle: what every task's     *)
(* record looks like at each of its awaits (TaskShape), who is in the      *)
(* queue of an alias lock and who holds it (LockOrder), that a connection  *)
(* being set up has one task and no watcher yet (FreshConnections), and    *)
(* that startup recovery runs alone (RecoveryIsAlone).  On top of it,      *)
(* SafetyInv says what a task that deletes a row may rely on, SlotInv how  *)
(* the slots follow the rows, DrivenInv who moves a transient row on,      *)
(* ServedInv how ports, tunnels, watchers and rows agree, OwnInv where     *)
(* tasks keep their connections, and SteadyInv how an open goes on that    *)
(* nothing disturbs.                                                       *)
(***************************************************************************)
EXTENDS SessionProperties

\* The kinds of each task.
KindOK(t, kind) ==
  \/ kind = "none"
  \/ t \in Op /\ kind \in {"open", "close", "force", "retry"}
  \/ t \in Sid /\ kind = "start"
  \/ t \in Conn /\ kind = "watch"
  \/ t = Boot /\ kind = "boot"

\* A task waits for its alias lock, or holds it.
Queued(r) == r.pc \in {"enter", "exit", "attempt", "lost"}
Holding(r) ==
  \/ r.pc \in {"looked_up", "inserted", "stopping", "start_settles", "closed",
               "exit_checks", "close_lost", "attempt_checks", "lost_checks",
               "reattach", "check_closing", "check_remote", "check_done", "drop",
               "dropped", "clear_lost", "mark_lost"} \cup ReattachPcs
  \/ r.pc \in DoClosePcs /\ r.kind # "close"
  \/ r.pc = "backoff" /\ r.kind = "retry"
Busy(r) == Queued(r) \/ Holding(r)

\* What a task's record r looks like.
ShapeOK(t, r) ==
  /\ r \in TaskRecord
  /\ KindOK(t, r.kind) /\ Suspended(r)
  /\ r.pc \notin {"idle", "enter", "looked_up", "next_row"} => r.sid \in Sid
  /\ r.pc = "next_row" => r.sid = None
  /\ r.pc = "looked_up" /\ r.sid = None => r.rec = NoRow
  /\ r.pc = "backoff" => r.tries < MaxTries /\ r.alias \in Alias
  /\ Busy(r) => r.alias \in Alias
  /\ r.kind = "start" => r.exc \in ErrorCode

TaskShape == \A t \in Task : ShapeOK(t, task[t])

\* q queues exactly the tasks of S, each once.
Queue(q, S) ==
  /\ q \in Seq(Task)
  /\ \A i, j \in 1..Len(q) : q[i] = q[j] => i = j
  /\ \A t \in Task : t \in S <=> \E i \in 1..Len(q) : q[i] = t

Waiters(T, a) == {t \in Task : Busy(T[t]) /\ T[t].alias = a}

\* Each lock's queue is made of the tasks at work on the alias, its head being
\* the one that holds the lock.
LockOK(T, L) ==
  /\ \A a \in Alias : Queue(L[a], Waiters(T, a))
  /\ \A t \in Task : Holding(T[t]) => Head(L[T[t].alias]) = t

LockOrder == LockOK(task, lock)

\* A connection its task has not yet installed or given up.
Fresh(r) == r.pc \in {"install", "start", "identity", "forward", "tunnel",
                      "inspect", "remove", "reforward", "commit"}

FreshOK(T) ==
  /\ \A t \in Task : Fresh(T[t]) => T[t].c \in Conn /\ T[T[t].c].pc = "idle"
  /\ \A t, u \in Task : Fresh(T[t]) /\ Fresh(T[u]) /\ T[t].c = T[u].c => t = u

FreshConnections == FreshOK(task)

\* No two tasks hold the lock of one alias.
OneHolder ==
  \A t, u \in Task :
    Holding(task[t]) /\ Holding(task[u]) /\ task[t].alias = task[u].alias => t = u

\* Recovery runs without requests, and has only rows on its list, or the one at work.
RecoveryIsAlone ==
  /\ Active(Boot) => \A o \in Op : ~Active(o)
  /\ unrecovered # {} => Active(Boot)
  /\ \A s \in unrecovered : Exists(s) \/ task[Boot].sid = s

LifecycleInv ==
  /\ TypeOK /\ OneRowPerAlias /\ ClosingRowIsDown
  /\ TaskShape /\ LockOrder /\ FreshConnections /\ RecoveryIsAlone

-----------------------------------------------------------------------------
(***************************************************************************)
(* The editor process and the row: what a task may rely on when it deletes *)
(* a row (SafetyInv, inductive relative to LifecycleInv).                  *)
(***************************************************************************)
\* No editor was started before its start task sends session-start; a row just
\* inserted has neither an editor nor a start task, and one request at work on it.
Unlaunched ==
  /\ \A s \in Sid : task[s].pc \in {"connect", "install"} => remote[s] = "none"
  /\ \A o \in Op : At(o, "inserted") =>
       /\ remote[task[o].sid] = "none" /\ ~Active(task[o].sid)
       /\ \A p \in Op \ {o} : At(p, "inserted") => task[p].sid # task[o].sid

\* The row open() has just inserted is its own: it has no slot yet, no failure to
\* tell, and no other request knows of it.
InsertsAlone ==
  \A o \in Op : At(o, "inserted") =>
    LET s == task[o].sid IN
    /\ s \notin owned
    /\ row[s].error_code # "pre_remote"
    /\ Exists(s) => row[s].alias = task[o].alias
    /\ \A p \in Op \ {o} : task[p].sid # s

\* _do_close and a reattachment have settled the start task, and recovery runs
\* before there is one.
SettledPcs == {"do_close", "closed", "backoff"} \cup DoClosePcs \cup ReattachPcs
Settled ==
  /\ \A o \in Op : task[o].pc \in SettledPcs => ~Active(task[o].sid)
  /\ Active(Boot) => \A s \in Sid : ~Active(s)

\* A failure recorded, or about to be, as one before the remote start is one.
PreRemoteIsTold ==
  \A s \in Sid : row[s].error_code = "pre_remote" \/ task[s].exc = "pre_remote" =>
    remote[s] = "none" /\ task[s].pc \notin {"connect", "install"}

\* An editor being launched has the start task listening, or was given up.
StartingIsAwaited ==
  \A s \in Sid : remote[s] = "starting" => At(s, "start") \/ s \in abandoned

\* What a task that holds the editor for gone counts on: a stop, an inspection or
\* a row that says so.
Gone(s) == remote[s] \notin {"starting", "running"} \/ s \in abandoned
CountsAsGone(r) ==
  \/ r.pc \in {"take_over", "dial", "stop", "close_conn", "forget", "finish",
                "check_done"} /\ r.absent
  \/ r.pc = "drop_conn" /\ r.exc = "absent"
  \/ r.pc = "drop"
CountsAsNever(r) == r.pc = "fresh" /\ CanCloseWithoutRemote(r.rec)

AbsentIsGone ==
  \A t \in Closers :
    /\ CountsAsGone(task[t]) => Gone(task[t].sid)
    /\ CountsAsNever(task[t]) => remote[task[t].sid] = "none"

SafetyInv ==
  Unlaunched /\ InsertsAlone /\ Settled /\ PreRemoteIsTold /\ StartingIsAwaited
  /\ AbsentIsGone

-----------------------------------------------------------------------------
(***************************************************************************)
(* Rows and slots (SlotInv, inductive relative to LifecycleInv and         *)
(* SafetyInv).                                                             *)
(***************************************************************************)
\* A task that is about to give a slot back has deleted the row, or found it gone.
DroppedRow(r) ==
  r.pc \in {"deleted", "dropped"} \/ (r.pc = "fresh" /\ r.rec.state = "closed")
DeletedIsGone == \A t \in Closers : DroppedRow(task[t]) => ~Exists(task[t].sid)

\* No one but its open deletes a row just inserted.
InsertedExists == \A o \in Op : At(o, "inserted") => Exists(task[o].sid)

\* A slot without a row has a task about to give it back.
SlotIsReleased ==
  \A s \in owned :
    Exists(s) \/ \E t \in Closers : task[t].pc \in {"deleted", "dropped"} /\ task[t].sid = s

\* A row without a slot has an open about to take one.
RowHasSlot ==
  \A s \in Sid : Exists(s) => s \in owned \/ \E o \in Op : At(o, "inserted") /\ task[o].sid = s

SlotInv == DeletedIsGone /\ InsertedExists /\ SlotIsReleased /\ RowHasSlot

-----------------------------------------------------------------------------
(***************************************************************************)
(* Rows in a transient state (DrivenInv, inductive relative to the three   *)
(* above): whoever ends its work on a row knows that the row has left the  *)
(* state, and what it has read of it stays true.                           *)
(***************************************************************************)
\* A start task that leaves the row as it finds it has not found it starting.
NotStarting(s) == row[s].state # "starting"
ToldPcs == {"unhandled", "ready_read", "watcher", "listener", "undo_remote", "undo_conn", "mark"}
Told(r) == r.pc = "ready" \/ (r.pc \in ToldPcs /\ r.rec.state # "starting")
StartIsTold == \A s \in Sid : Told(task[s]) \/ s \in cancelled => NotStarting(s)

\* A cancellation of a start task is delivered to that task, not to a later one.
CancelledIsActive == \A s \in Sid : s \in cancelled => Active(s)

\* A request that cancels a start task has found the row past its start.
OpIsTold ==
  \A o \in Op :
    \/ At(o, "looked_up") /\ task[o].sid # None /\ task[o].rec.state # "starting"
    \/ At(o, "stopping")
    => NotStarting(task[o].sid)

\* Recovery goes on from a row only when it has left the transient states.
Rests(s) == row[s].state \notin {"starting", "stopping"}
RestsRead(r) ==
  \/ r.rec.state = "error" /\ r.pc \in ReattachPcs \cup
        {"reattach", "check_closing", "check_remote", "check_done"}
  \/ r.pc = "installed" \/ (r.pc = "commit" /\ "completed" \in r.ledger)
BootIsTold ==
  /\ RestsRead(task[Boot]) => Rests(task[Boot].sid)
  /\ task[Boot].pc \in {"check_closing", "check_remote", "check_done"} =>
       task[Boot].rec.state = "error"

\* The task that moves a starting or stopping row on.
Closing(r, s) == r.sid = s /\ r.kind \in {"close", "force"} /\ r.pc \in ClosePcs
StartIsDriven ==
  \A s \in Sid : row[s].state = "starting" =>
    Active(s) \/ s \in unrecovered \/ \E o \in Op : At(o, "inserted") /\ task[o].sid = s
StopIsDriven ==
  \A s \in Sid : row[s].state = "stopping" =>
    s \in unrecovered \/ \E o \in Op : Closing(task[o], s)

DrivenInv ==
  StartIsTold /\ CancelledIsActive /\ OpIsTold /\ BootIsTold /\ StartIsDriven /\ StopIsDriven

-----------------------------------------------------------------------------
(***************************************************************************)
(* What is served (ServedInv, inductive relative to the four above when    *)
(* Faults has neither "late" nor "early_loss"): the ports the proxy knows, *)
(* the tunnels behind them, their watchers and the state of the row.       *)
(***************************************************************************)
OpeningPcs == {"connect", "install", "start", "identity", "forward", "tunnel", "verify", "ready"}
OpenedPcs == {"verify", "ready", "ready_read"}
EarlyPcs == {"watching", "initial", "exit", "exit_checks"}
LostPcs == {"close_lost", "attempt", "attempt_checks", "backoff", "lost", "lost_checks"}
           \cup ReattachPcs

\* A session that is there and that no close was requested of.
Standing(s) == Exists(s) /\ ~row[s].close_reason

\* A watcher of s that has found its forward up, or lost, and goes on.
Guards(c, s) == task[c].sid = s /\ task[c].pc \in EarlyPcs /\ c \notin cancelled
Repairs(c, s) == task[c].sid = s /\ task[c].pc \in LostPcs /\ c \notin cancelled

\* The alias a task locks, or is about to lock, and its session's are one.
AtWork(r) ==
  /\ r.sid # None
  /\ Busy(r) \/ r.pc = "backoff" \/ (r.pc = "initial" /\ r.rec.state # "closed")
LockedAlias(r) == IF r.pc = "initial" THEN r.rec.alias ELSE r.alias
AliasesAgree ==
  /\ \A t \in Task : AtWork(task[t]) /\ Exists(task[t].sid) =>
       row[task[t].sid].alias = LockedAlias(task[t])
  /\ \A t, u \in Task : AtWork(task[t]) /\ AtWork(task[u]) /\ task[t].sid = task[u].sid =>
       LockedAlias(task[t]) = LockedAlias(task[u])

\* Start tasks are cancelled by a close that awaits them, watchers of a forward that
\* was taken down; an attempt to reattach is not interrupted.
CancelledInTime ==
  /\ cancelled \subseteq Sid \cup Conn
  /\ \A c \in Conn \cap cancelled : Active(c) /\ task[c].pc \notin ReattachPcs
  /\ \A s \in Sid \cap cancelled : \E o \in Op : At(o, "start_settles") /\ task[o].sid = s

\* A close at work has recorded its intent, and left no port published once it is
\* past its first step.
CloseIsKnown ==
  /\ \A s \in Sid : row[s].state = "stopping" => row[s].close_reason
  /\ \A o \in Op : task[o].kind \in {"close", "force"} /\ task[o].pc \in ClosePcs =>
       ~Standing(task[o].sid)
  /\ \A o \in Op : task[o].pc \in (SettledPcs \ {"installed"}) \cup {"start_settles"} =>
       registry[task[o].sid] = None
  /\ \A o \in Op : At(o, "start_settles") =>
       /\ task[o].kind \in {"close", "force"}
       /\ task[task[o].sid].pc \in OpeningPcs => task[o].sid \in cancelled

\* A retry at work knows its session to be in error, until it has repaired it.
Failing(s) == row[s].state \in {"error", "closed"}
RetryIsDue ==
  \A o \in Op : task[o].kind = "retry" =>
    /\ At(o, "looked_up") /\ task[o].rec.state = "error" =>
         Failing(task[o].sid) /\ ~Active(task[o].sid)
    /\ task[o].pc \in SettledPcs \ {"commit", "installed"} => Failing(task[o].sid)

\* An attempt to reattach finds nothing of the session installed, and what it
\* installs is not touched before it ends.
AttemptIsAlone ==
  \A t \in Task : task[t].pc \in ReattachPcs =>
    LET s == task[t].sid IN
    /\ Standing(s)
    /\ ~At(t, "installed") => tunnels[s].c = None /\ registry[s] = None
    /\ At(t, "installed") => registry[s] # None
    /\ task[t].pc \in {"commit", "installed"} => row[s].state = "ready"
    /\ At(t, "commit") => "completed" \in task[t].ledger
    /\ At(t, "drop_conn") => task[t].exc \notin {"late", "cancelled"} /\ ~task[t].old.watched
    /\ t \notin Conn => \A c \in Conn : ~Repairs(c, s)

\* A session being opened: nothing is installed before its port is published, and
\* until it is ready its watcher has nothing to do.
NothingYet(s) ==
  registry[s] = None /\ tunnels[s] = NoTunnel /\ \A c \in Conn : task[c].sid # s
StopAsked(s) == row[s].state = "stopping" /\ \E o \in Op : At(o, "stopping") /\ task[o].sid = s
Opening(s) ==
  /\ task[s].sid = s
  /\ task[s].pc \in OpeningPcs \ {"verify", "ready"} => NothingYet(s)
  /\ task[s].pc \in OpenedPcs => tunnels[s] = LiveTunnel(task[s].c)
  /\ task[s].pc \in (OpeningPcs \ {"connect"}) \cup OpenedPcs =>
       task[s].c \in Conn /\ conn[task[s].c]
  /\ task[s].pc \in OpeningPcs \ {"ready"} => "ready" \notin task[s].ledger
  /\ At(s, "verify") => "registry" \in task[s].ledger
  /\ At(s, "ready_read") => ~Standing(s)
  /\ registry[s] = IF task[s].pc \in {"verify", "ready"} /\ s \notin cancelled
                   THEN task[s].c ELSE None
  /\ row[s].state # "error" /\ (row[s].state = "ready" => At(s, "ready"))
  /\ task[s].pc \in OpeningPcs /\ s \notin cancelled =>
       row[s].state = (IF At(s, "ready") THEN "ready" ELSE "starting") \/ StopAsked(s)
  /\ \A c \in Conn : task[c].sid = s =>
       At(c, "watching") /\ (c \in cancelled \/ (c = task[s].c /\ task[s].pc \in OpenedPcs))
OpeningIsAlone ==
  /\ \A o \in Op : At(o, "inserted") =>
       row[task[o].sid].state = "starting" /\ NothingYet(task[o].sid)
  /\ \A s \in Sid : Active(s) => Opening(s)

\* A published port is that of the session's tunnel, whose watcher is at its post.
PortIsWatched ==
  \A s \in Sid : registry[s] # None =>
    /\ tunnels[s] = LiveTunnel(registry[s]) /\ Guards(registry[s], s)
    /\ Active(s) \/ row[s].state = "ready" \/ StopAsked(s)

\* The watchers of a session no close was requested of: one at its post is that of the
\* published port, one at repair work is alone and the row still says ready.
WatchersAgree ==
  \A s \in Sid : Standing(s) =>
    /\ \A c \in Conn : Guards(c, s) => registry[s] = c
    /\ \A c \in Conn : Repairs(c, s) /\ ~At(c, "installed") =>
         registry[s] = None /\ row[s].state = "ready"
    /\ \A c, d \in Conn : Repairs(c, s) /\ Repairs(d, s) => c = d

\* What a watcher has read of a row that is gone or closing stays true.
WatcherReadsRight ==
  \A c \in Conn :
    /\ task[c].pc \in {"exit_checks", "attempt_checks", "lost_checks"}
         /\ GoneOrStopping(task[c].rec) => ~Standing(task[c].sid)
    /\ At(c, "initial") /\ task[c].rec.state = "closed" => ~Exists(task[c].sid)

\* A row that says ready while no port is published has a task that mends it.
ReadyIsMended ==
  \A s \in Sid : row[s].state = "ready" /\ registry[s] = None =>
    \/ s \in unrecovered
    \/ \E c \in Conn : Repairs(c, s)
    \/ \E t \in Closers : At(t, "commit") /\ task[t].sid = s

\* A row recovery has still to handle, or is handling, has nothing in memory yet.
RecoveryStartsClean ==
  /\ task[Boot].sid # None => task[Boot].sid \in unrecovered
  /\ \A s \in unrecovered :
       ~(At(Boot, "installed") /\ task[Boot].sid = s) =>
         registry[s] = None /\ \A c \in Conn : task[c].sid # s
  /\ task[Boot].pc \in {"reattach", "check_closing", "check_remote", "check_done"}
                       \cup (ReattachPcs \ {"commit", "installed"})
       /\ task[Boot].rec.state = "error" => row[task[Boot].sid].state = "error"

\* No two tasks have a connection in common, nor two tunnels, nor a task and a tunnel
\* but for the start task that has just installed it.
ClaimsDiffer ==
  /\ \A t, u \in Task : task[t].c # None /\ task[t].c = task[u].c => t = u
  /\ \A t \in Task, s \in Sid : task[t].c # None /\ tunnels[s].c = task[t].c =>
       t = s /\ task[s].pc \in OpenedPcs
  /\ \A s, u \in Sid : tunnels[s].c # None /\ tunnels[s].c = tunnels[u].c => s = u
  /\ \A s \in Sid : tunnels[s].watched /\ tunnels[s].c \in Conn /\ Active(tunnels[s].c) =>
       task[tunnels[s].c].sid = s
  /\ \A c \in Conn : At(c, "close_lost") =>
       task[c].c = c /\ task[c].old.c = c /\ registry[task[c].sid] = None

ServedInv ==
  /\ AliasesAgree /\ CancelledInTime /\ CloseIsKnown /\ RetryIsDue /\ AttemptIsAlone
  /\ OpeningIsAlone /\ PortIsWatched /\ WatchersAgree /\ WatcherReadsRight
  /\ ReadyIsMended /\ RecoveryStartsClean /\ ClaimsDiffer

-----------------------------------------------------------------------------
(***************************************************************************)
(* Connections (OwnInv, inductive relative to ServedInv and the others).   *)
(***************************************************************************)
\* A task has a connection only where it uses it, or is about to close it.
UsePcs ==
  (OpeningPcs \ {"connect"}) \cup (ReattachPcs \ {"reconnect", "installed"})
  \cup {"ready_read", "watcher", "listener", "undo_remote", "undo_conn", "take_over",
        "stop", "close_conn", "check_remote", "check_done", "close_lost"}
ClaimsAreUsed == \A t \in Task : task[t].c # None => task[t].pc \in UsePcs

\* A watcher that saw its path lost: no one opens that connection again.
LostPathIsDown ==
  \A c \in Conn : task[c].pc \in {"initial", "exit", "exit_checks", "close_lost"} => ~conn[c]

\* The cleanup of a failed open has taken the session's tunnel down, and recovery
\* finds none for a row it has still to handle or whose host it inspects.
InspectPcs == {"check_closing", "check_remote", "check_done"}
TunnelIsDown ==
  /\ \A s \in Sid : task[s].pc \in {"watcher", "listener", "undo_remote", "undo_conn"} =>
       tunnels[s].c = None
  /\ \A s \in unrecovered : task[Boot].sid # s \/ task[Boot].pc \in InspectPcs =>
       tunnels[s].c = None

OwnInv == ClaimsAreUsed /\ LostPathIsDown /\ TunnelIsDown

-----------------------------------------------------------------------------
(***************************************************************************)
(* Opens that nothing disturbs (SteadyInv, inductive relative to the       *)
(* others when Faults is a subset of SteadyFaults): paths are lost once    *)
(* the session is served, replies get lost, aliases leave the catalog and  *)
(* the gateway crashes, but what is asked of a host or a connection works. *)
(***************************************************************************)
SteadyFaults == {"loss", "lost_reply", "alias_gone", "crash", "pid_reuse"}

\* The editor an open has asked for comes up, and stays up.
LaunchedPcs == {"identity", "forward", "tunnel", "verify"}
EditorIsUp ==
  \A s \in Sid :
    /\ At(s, "start") => remote[s] \in {"starting", "running"}
    /\ task[s].pc \in LaunchedPcs => remote[s] = "running"

\* An open cleans up only because a close cancelled it; that close awaits it, and no
\* other can cancel it once more.
CleanupPcs == {"ready_read", "watcher", "listener", "undo_remote", "undo_conn"}
CleanupIsAsked ==
  \A s \in Sid : task[s].pc \in CleanupPcs =>
    s \notin cancelled /\ \E o \in Op : At(o, "start_settles") /\ task[o].sid = s

SteadyInv == EditorIsUp /\ CleanupIsAsked
=============================================================================
