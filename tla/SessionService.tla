--------------------------- MODULE SessionService ---------------------------
(***************************************************************************)
(* The session lifecycle of src/vscode_gateway/sessions.py: open, close,   *)
(* force close, retry, the forward watchers and startup recovery, as       *)
(* asyncio tasks that interleave at their awaits.                          *)
(*                                                                         *)
(* One action is the code of one task from the point where an await        *)
(* returns to the next await, that await's request included.  A database   *)
(* write takes effect when it is issued (SessionStore); the value of a     *)
(* read is taken when it is issued and used one step later, so it may be   *)
(* stale; a remote command takes effect when its answer arrives.  A        *)
(* cancellation is delivered where the cancelled task resumes.             *)
(*                                                                         *)
(* Left out: presence and grace timers (module Presence), host-key         *)
(* challenges, the catalog, and everything that is only displayed.         *)
(***************************************************************************)
EXTENDS SessionStore, Naturals, Sequences, FiniteSets

CONSTANTS
  Conn,       \* SSH connection chains (SshConnection objects), each with the
              \* task watching its forward
  Op,         \* request handlers that can be active at once
  Boot,       \* the startup recovery task
  Capacity,   \* settings.session_capacity
  Requests,   \* the requests clients make: "open", "close", "force", "retry"
  Faults,     \* what may go wrong, see Fault below
  MaxFaults,  \* bound on how often it does
  MaxTries    \* bound on reconnect attempts before recovery_timeout expires

ASSUME ServiceAssumption ==
  /\ Capacity \in Nat \ {0} /\ MaxFaults \in Nat /\ MaxTries \in Nat \ {0}
  /\ None \notin Conn \cup Op \cup {Boot}
  /\ Sid \cap Conn = {} /\ Sid \cap Op = {} /\ Conn \cap Op = {}
  /\ Boot \notin Sid \cup Conn \cup Op
  /\ Requests \subseteq {"open", "close", "force", "retry"}

VARIABLES
  owned,        \* _capacity_owned
  tunnels,      \* _tunnels: the _SessionTunnel of each session
  registry,     \* ProxyRegistry: the connection whose local port is published
  conn,         \* whether the path of each connection is up; once nothing refers to
                \* it, whether any hop of its chain was left open
  remote,       \* the editor process of each session on its SSH host
  lock,         \* _alias_locks: the queue of each asyncio.Lock, holder first
  task,         \* the program counter and locals of each task
  cancelled,    \* tasks with a cancellation to be delivered
  unrecovered,  \* rows recover_all has still to handle
  abandoned,    \* history: sessions whose remote start was given up unanswered
  faults        \* how often something went wrong

memory == <<owned, tunnels, registry>>
world  == <<conn, remote, abandoned>>
vars == <<row, owned, tunnels, registry, conn, remote, lock, task, cancelled,
          unrecovered, abandoned, faults>>

\* The start task of a session bears its id, a forward watcher its connection.
Task == Sid \cup Conn \cup Op \cup {Boot}

\* A _SessionTunnel: its connection, whether it holds a listener, and whether
\* it holds the task watching it.
NoTunnel == [c |-> None, listener |-> FALSE, watched |-> FALSE]
LiveTunnel(c) == [c |-> c, listener |-> TRUE, watched |-> TRUE]

\* "starting": the helper is launching the editor and has recorded no pid;
\* "running": pid files written; "dead": they outlived the process;
\* "reused": another process has the recorded pid.
RemoteState == {"none", "starting", "running", "dead", "reused"}

IdleTask ==
  [pc |-> "idle", kind |-> "none", alias |-> None, sid |-> None, rec |-> NoRow,
   c |-> None, old |-> NoTunnel, exc |-> "none", tries |-> 0, ledger |-> {},
   errors |-> FALSE, absent |-> FALSE]

Active(t) == task[t].pc # "idle"
At(t, label) == task[t].pc = label
Goto(t, label) == task' = [task EXCEPT ![t].pc = label]
Become(t, r) == task' = [task EXCEPT ![t] = r]
End(t) == Become(t, IdleTask)

Holds(t, a) == lock[a] # <<>> /\ Head(lock[a]) = t
Enqueue(t, a) == lock' = [lock EXCEPT ![a] = Append(@, t)]
Release(a) == lock' = [lock EXCEPT ![a] = Tail(@)]
\* A cancelled holder releases; a cancelled waiter leaves the queue.
Without(q, t) ==
  IF \E i \in DOMAIN q : q[i] = t
  THEN LET k == CHOOSE i \in DOMAIN q : q[i] = t IN
       SubSeq(q, 1, k - 1) \o SubSeq(q, k + 1, Len(q))
  ELSE q
Leave(t, a) == lock' = [lock EXCEPT ![a] = Without(@, t)]

\* Cancel the task if it is still running (task.cancel()).
Cancel(t) ==
  cancelled' = IF Active(t) THEN cancelled \cup {t} ELSE cancelled
Delivered(t) == cancelled' = cancelled \ {t}

Fault(kind) == kind \in Faults /\ faults < MaxFaults /\ faults' = faults + 1
NoFault == UNCHANGED faults

\* A command over a connection succeeds only while it is open; it may fail
\* at any time.
Answered(c) == conn[c] /\ NoFault
Failed(c) == (~conn[c] /\ NoFault) \/ Fault("ssh")

\* Connections nothing refers to: a new SshConnection is any one of them.
FreeConn ==
  {c \in Conn : /\ ~conn[c] /\ ~Active(c)
                /\ \A t \in Task : task[t].c # c /\ task[t].old.c # c
                /\ \A s \in Sid : tunnels[s].c # c /\ registry[s] # c}

NewConn == CHOOSE c \in FreeConn : TRUE

Connects(c) == FreeConn # {} /\ c = NewConn /\ NoFault
Opened(c) == conn' = [conn EXCEPT ![c] = TRUE]
Closed(c) == conn' = [conn EXCEPT ![c] = FALSE]

\* Session ids nothing refers to: uuid4() returns any one of them.
FreeSid ==
  {s \in Sid : /\ ~Exists(s) /\ s \notin owned /\ tunnels[s] = NoTunnel
               /\ registry[s] = None /\ remote[s] = "none" /\ ~Active(s)
               /\ \A t \in Task : task[t].sid # s}

NewSid == CHOOSE s \in FreeSid : TRUE

\* get_session_by_alias.
Lookup(a) == IF RowsOf(a) = {} THEN None ELSE CHOOSE s \in RowsOf(a) : TRUE
Read(s) == IF s = None THEN NoRow ELSE row[s]

Published(s, c) == registry' = [registry EXCEPT ![s] = c]
Unpublished(s) == registry' = [registry EXCEPT ![s] = None]
Keep(s, tunnel) == tunnels' = [tunnels EXCEPT ![s] = tunnel]

\* The task _cancel_forward_watcher cancels and awaits, as a set.
WatcherOf(tunnel) == {c \in Conn : tunnel.c = c /\ tunnel.watched /\ Active(c)}
Watcher(s) == [IdleTask EXCEPT !.pc = "watching", !.kind = "watch", !.sid = s]

\* _can_close_without_remote_inspection.
CanCloseWithoutRemote(rec) ==
  rec.error_code = "pre_remote" /\ ~rec.identity /\ ~rec.local_port

-----------------------------------------------------------------------------
(***************************************************************************)
(* open(): a request handler that holds the alias lock.                    *)
(***************************************************************************)
\* A client asks for an operation on an alias; it queues for the alias lock.
\* Requests are served only once startup recovery is over.
Request(o, kind, a) ==
  /\ At(o, "idle") /\ ~Active(Boot)
  /\ kind \in Requests
  /\ Become(o, [IdleTask EXCEPT !.pc = "enter", !.kind = kind, !.alias = a])
  /\ Enqueue(o, a)
  /\ UNCHANGED <<row, memory, world, cancelled, unrecovered, faults>>

\* A mutant: the row is read before the lock is held.
UnlockedEnter(o) ==
  /\ At(o, "enter")
  /\ LET s == Lookup(task[o].alias) IN
       Become(o, [task[o] EXCEPT !.pc = "looked_up", !.sid = s, !.rec = Read(s)])
  /\ UNCHANGED <<row, memory, world, lock, cancelled, unrecovered, faults>>

\* Under the lock: read the alias' row.
Enter(o) ==
  /\ At(o, "enter") /\ Holds(o, task[o].alias)
  /\ LET s == Lookup(task[o].alias) IN
       Become(o, [task[o] EXCEPT !.pc = "looked_up", !.sid = s, !.rec = Read(s)])
  /\ UNCHANGED <<row, memory, world, lock, cancelled, unrecovered, faults>>

\* An existing row answers the request (its view, or 409); a full gateway
\* refuses it (429); otherwise a new row is inserted.  FreeSid = {} is only
\* reached when the bound Sid is.
OpenChecks(o) ==
  /\ At(o, "looked_up") /\ task[o].kind = "open"
  /\ IF task[o].sid # None \/ Cardinality(owned) >= Capacity \/ FreeSid = {}
     THEN /\ End(o) /\ Release(task[o].alias)
          /\ UNCHANGED <<row, abandoned>>
     ELSE /\ Insert(NewSid, task[o].alias)
          /\ abandoned' = abandoned \ {NewSid}
          /\ Become(o, [task[o] EXCEPT !.pc = "inserted", !.sid = NewSid])
          /\ UNCHANGED lock
  /\ UNCHANGED <<memory, conn, remote, cancelled, unrecovered, faults>>

\* A mutant: the slot is taken without looking at the count again.
UncheckedOpenStarts(o) ==
  /\ At(o, "inserted")
  /\ LET s == task[o].sid IN
       /\ owned' = owned \cup {s}
       /\ task' = [task EXCEPT ![o] = IdleTask,
             ![s] = [IdleTask EXCEPT !.pc = "connect", !.kind = "start",
                                     !.alias = task[o].alias, !.sid = s]]
  /\ Release(task[o].alias)
  /\ UNCHANGED <<row, tunnels, registry, world, cancelled, unrecovered, faults>>

\* _capacity_acquire, then the start task; an open of another alias may have
\* taken the last slot during the insert, and the row is removed again.
OpenStarts(o) ==
  /\ At(o, "inserted")
  /\ LET s == task[o].sid IN
     IF Cardinality(owned) >= Capacity
     THEN Delete(s) /\ End(o) /\ UNCHANGED owned
     ELSE /\ owned' = owned \cup {s}
          /\ task' = [task EXCEPT ![o] = IdleTask,
               ![s] = [IdleTask EXCEPT !.pc = "connect", !.kind = "start",
                                       !.alias = task[o].alias, !.sid = s]]
          /\ UNCHANGED row
  /\ Release(task[o].alias)
  /\ UNCHANGED <<tunnels, registry, world, cancelled, unrecovered, faults>>

-----------------------------------------------------------------------------
(***************************************************************************)
(* _run_open and _do_open: the start task, which runs without the lock.    *)
(* Its ledger names what it has acquired.                                  *)
(***************************************************************************)
\* The helper's session-stop: the recorded process is gone afterwards; without
\* a recorded pid it reports success, and it refuses a reused pid.
Stopped(s) == remote' = [remote EXCEPT ![s] = IF @ = "running" THEN "dead" ELSE @]
StopsRemote(c, s) == Answered(c) /\ remote[s] # "reused" /\ Stopped(s)
StopFails(c, s) ==
  \/ Failed(c) /\ UNCHANGED remote
  \/ remote[s] = "reused" /\ NoFault /\ UNCHANGED remote
  \/ conn[c] /\ Fault("lost_reply") /\ Stopped(s)

\* An answer is awaited and no cancellation is pending.
Resumes(t, label) == At(t, label) /\ t \notin cancelled

\* connect_for_session opens a chain; an alias that left the catalog is an
\* error that skips the cleanup.
StartConnects(s) ==
  /\ Resumes(s, "connect")
  /\ \/ \E c \in Conn :
          /\ Connects(c) /\ Opened(c)
          /\ Become(s, [task[s] EXCEPT !.pc = "install", !.c = c])
     \/ /\ Fault("alias_gone") /\ UNCHANGED conn
        /\ Become(s, [task[s] EXCEPT !.pc = "unhandled", !.rec = row[s]])
  /\ UNCHANGED <<row, memory, remote, abandoned, lock, cancelled, unrecovered>>

\* capabilities and ensure_installed, then the helper's session-start is sent.
StartInstalls(s) ==
  /\ Resumes(s, "install") /\ Answered(task[s].c)
  /\ Goto(s, "start")
  /\ remote' = [remote EXCEPT ![s] = "starting"]
  /\ UNCHANGED <<row, memory, conn, abandoned, lock, cancelled, unrecovered>>

\* session-start reports the recorded process; its identity is stored.
StartLaunches(s) ==
  /\ Resumes(s, "start") /\ Answered(task[s].c) /\ remote[s] = "running"
  /\ SetRemoteIdentity(s)
  /\ Become(s, [task[s] EXCEPT !.pc = "identity", !.ledger = {"remote"}])
  /\ UNCHANGED <<memory, world, lock, cancelled, unrecovered>>

\* The identity is stored; forward_local_port is requested.
StartForwards(s) ==
  /\ Resumes(s, "identity")
  /\ Become(s, [task[s] EXCEPT !.pc = "forward", !.ledger = @ \cup {"identity"}])
  /\ UNCHANGED <<row, memory, world, lock, cancelled, unrecovered, faults>>

StartForwarded(s) ==
  /\ Resumes(s, "forward") /\ Answered(task[s].c)
  /\ SetTunnelIdentity(s) /\ Goto(s, "tunnel")
  /\ UNCHANGED <<memory, world, lock, cancelled, unrecovered>>

\* Tunnel, registry entry and watcher are installed without an await.
StartPublishes(s) ==
  /\ Resumes(s, "tunnel")
  /\ LET c == task[s].c IN
       /\ Keep(s, LiveTunnel(c))
       /\ Published(s, c)
       /\ task' = [task EXCEPT ![s].pc = "verify", ![s].ledger = @ \cup {"registry"},
                               ![c] = Watcher(s)]
  /\ UNCHANGED <<row, owned, world, lock, cancelled, unrecovered, faults>>

\* _verify_editor_health through the forward, then mark_ready in a task of
\* its own that a cancellation does not reach.
StartVerifies(s) ==
  /\ Resumes(s, "verify") /\ Answered(task[s].c) /\ remote[s] = "running"
  /\ MarkReady(s)
  /\ Become(s, [task[s] EXCEPT !.pc = "ready", !.ledger = @ \cup {"ready"}])
  /\ UNCHANGED <<memory, world, lock, cancelled, unrecovered>>

\* _finalize_open_read finds the row: no one deletes it while this task runs.
StartDone(s) ==
  /\ Resumes(s, "ready") /\ Exists(s)
  /\ End(s)
  /\ UNCHANGED <<row, memory, world, lock, cancelled, unrecovered, faults>>

\* _run_open's handler for an error that skipped the cleanup.
StartUnhandled(s) ==
  /\ At(s, "unhandled") /\ Delivered(s)
  /\ IF s \notin cancelled /\ task[s].rec.state = "starting"
     THEN MarkError(s, "internal") ELSE UNCHANGED row
  /\ End(s)
  /\ UNCHANGED <<memory, world, lock, unrecovered, faults>>

-----------------------------------------------------------------------------
(***************************************************************************)
(* _open_failure_cleanup, entered without an await by the exception or the *)
(* cancellation that ends the body.  A cancellation during the cleanup     *)
(* ends the task at once.                                                  *)
(***************************************************************************)
AfterTunnel(s) ==
  IF task[s].c = None THEN "mark"
  ELSE IF "remote" \in task[s].ledger THEN "undo_remote" ELSE "undo_conn"

\* A mutant: the port stays published.
DropLocalKeepsPort(s, exc) ==
  /\ Keep(s, NoTunnel) /\ UNCHANGED registry
  /\ cancelled' = (cancelled \ {s}) \cup WatcherOf(tunnels[s])
  /\ Become(s, [task[s] EXCEPT !.exc = exc, !.old = tunnels[s], !.rec = row[s],
        !.pc = IF tunnels[s].c = None THEN AfterTunnel(s) ELSE "watcher"])

\* Registry entry and tunnel go, whichever tunnel is installed by now; its
\* watcher is cancelled.
DropLocal(s, exc) ==
  /\ IF "registry" \in task[s].ledger THEN Unpublished(s) ELSE UNCHANGED registry
  /\ Keep(s, NoTunnel)
  /\ cancelled' = (cancelled \ {s}) \cup WatcherOf(tunnels[s])
  /\ Become(s, [task[s] EXCEPT !.exc = exc, !.old = tunnels[s], !.rec = row[s],
        !.pc = IF tunnels[s].c = None THEN AfterTunnel(s) ELSE "watcher"])

\* With mark_ready under way the row decides; otherwise clean up.
CleansUp(s, exc) ==
  IF "ready" \in task[s].ledger
  THEN /\ Become(s, [task[s] EXCEPT !.pc = "ready_read", !.exc = exc, !.rec = row[s]])
       /\ Delivered(s) /\ UNCHANGED <<tunnels, registry>>
  ELSE DropLocal(s, exc)

\* session-start is no longer listened to while the helper is at work.
GivesUp(s) ==
  abandoned' = IF At(s, "start") /\ remote[s] = "starting" THEN abandoned \cup {s}
                                                         ELSE abandoned

\* CancelledError out of any await of the body.
StartCancelled(s) ==
  /\ task[s].pc \in {"connect", "install", "start", "identity", "forward",
                     "tunnel", "verify", "ready"}
  /\ s \in cancelled
  /\ CleansUp(s, "internal") /\ GivesUp(s)
  /\ UNCHANGED <<row, owned, conn, remote, lock, unrecovered, faults>>

\* A mutant: every failure is taken for one before the remote start.
AlwaysPreRemote(s) == "pre_remote"

\* Key and host-trust refusals have codes of _PRE_REMOTE_FAILURE_CODES.
FailureCode(s) == IF At(s, "connect") THEN "pre_remote" ELSE "other"

\* An error out of an await of the body: of the connection, of the installer,
\* of a launch that failed, or of an editor that does not answer.
StartFails(s) ==
  /\ s \notin cancelled
  /\ \/ At(s, "connect") /\ Fault("trust") /\ CleansUp(s, FailureCode(s))
     \/ At(s, "connect") /\ Fault("ssh") /\ CleansUp(s, "other")
     \/ /\ task[s].pc \in {"install", "start", "forward", "verify"}
        /\ Failed(task[s].c) /\ CleansUp(s, FailureCode(s))
     \/ /\ \/ At(s, "start") /\ remote[s] \notin {"starting", "running"}
           \/ At(s, "verify") /\ remote[s] # "running"
        /\ NoFault /\ CleansUp(s, FailureCode(s))
  /\ GivesUp(s)
  /\ UNCHANGED <<row, owned, conn, remote, lock, unrecovered>>

\* A cancellation ends the cleanup where it is.  A chain that _close_ssh_connection was
\* closing, target first, hop by hop, keeps the hops not come to.
CleanupCancelled(s) ==
  /\ task[s].pc \in {"ready_read", "listener", "undo_remote", "undo_conn", "mark"}
  /\ s \in cancelled /\ Delivered(s)
  /\ \/ UNCHANGED conn
     \/ At(s, "undo_conn") /\ Closed(task[s].c)
  /\ \/ UNCHANGED remote
     \/ At(s, "undo_remote") /\ conn[task[s].c] /\ Stopped(s)
  /\ End(s)
  /\ UNCHANGED <<row, memory, abandoned, lock, unrecovered, faults>>

CleanupDecides(s) ==
  /\ Resumes(s, "ready_read")
  /\ IF task[s].rec.state = "ready"
     THEN End(s) /\ UNCHANGED <<tunnels, registry, cancelled>>
     ELSE DropLocal(s, task[s].exc)
  /\ UNCHANGED <<row, owned, world, lock, unrecovered, faults>>

\* The old watcher has ended (a cancellation meanwhile is swallowed).
CleanupWatcherEnded(s) ==
  /\ At(s, "watcher") /\ (WatcherOf(task[s].old) = {} \/ s \in cancelled)
  /\ Delivered(s)
  /\ Goto(s, "listener")
  /\ UNCHANGED <<row, memory, world, lock, unrecovered, faults>>

\* _close_listener (if there is one), then the forgotten port.
CleanupListener(s) ==
  /\ Resumes(s, "listener")
  /\ \/ NoFault /\ ClearTunnelIdentity(s)
     \/ task[s].old.listener /\ Fault("close") /\ UNCHANGED row
  /\ Goto(s, AfterTunnel(s))
  /\ UNCHANGED <<memory, world, lock, cancelled, unrecovered>>

CleanupRemote(s) ==
  /\ Resumes(s, "undo_remote")
  /\ \/ /\ StopsRemote(task[s].c, s)
        /\ IF "identity" \in task[s].ledger THEN ClearRemoteIdentity(s)
                                            ELSE UNCHANGED row
     \/ StopFails(task[s].c, s) /\ UNCHANGED row
  /\ Goto(s, "undo_conn")
  /\ UNCHANGED <<memory, conn, abandoned, lock, cancelled, unrecovered>>

\* A mutant: the connection is forgotten and not closed.
CleanupForgetsConn(s) ==
  /\ Resumes(s, "undo_conn")
  /\ Become(s, [task[s] EXCEPT !.pc = "mark", !.c = None, !.old = NoTunnel,
                               !.rec = row[s]])
  /\ UNCHANGED <<row, memory, world, lock, cancelled, unrecovered, faults>>

\* The connection is closed, or kept for a later cleanup if that fails; the
\* row is read.
CleanupConn(s) ==
  /\ Resumes(s, "undo_conn")
  /\ \/ NoFault /\ Closed(task[s].c) /\ UNCHANGED tunnels
     \/ /\ Fault("close") /\ UNCHANGED conn
        /\ Keep(s, [task[s].old EXCEPT !.c = task[s].c, !.watched = FALSE])
  /\ Become(s, [task[s] EXCEPT !.pc = "mark", !.c = None, !.old = NoTunnel,
                               !.rec = row[s]])
  /\ UNCHANGED <<row, owned, registry, remote, abandoned, lock, cancelled, unrecovered>>

\* A mutant: the row is left as it is.
CleanupLeavesRow(s) ==
  /\ Resumes(s, "mark") /\ End(s)
  /\ UNCHANGED <<row, memory, world, lock, cancelled, unrecovered, faults>>

CleanupMarks(s) ==
  /\ Resumes(s, "mark")
  /\ IF task[s].rec.state \in {"closed", "ready"}
     THEN UNCHANGED row ELSE MarkError(s, task[s].exc)
  /\ End(s)
  /\ UNCHANGED <<memory, world, lock, cancelled, unrecovered, faults>>

-----------------------------------------------------------------------------
(***************************************************************************)
(* _do_close: called by close in the background, and under the lock by     *)
(* force close, retry and recovery.                                        *)
(***************************************************************************)
Unlocks(r) == Release(r.alias)

\* Startup recovery goes on to its next row.
NextRow(r) ==
  /\ Become(Boot, [IdleTask EXCEPT !.pc = "next_row", !.kind = "boot"])
  /\ Unlocks(r)
  /\ unrecovered' = unrecovered \ {r.sid}

\* A direct call by the task whose record is r: the row is read.
DoesClose(t, r) ==
  Become(t, [r EXCEPT !.pc = "fresh", !.rec = Read(r.sid), !.c = None,
                      !.old = NoTunnel, !.exc = "none"])

\* Back in the caller; retry looks whether the row is gone.
DoCloseReturns(t) ==
  CASE task[t].kind = "close" -> End(t) /\ UNCHANGED <<lock, unrecovered>>
    [] task[t].kind = "force" -> End(t) /\ Unlocks(task[t]) /\ UNCHANGED unrecovered
    [] task[t].kind = "retry" ->
         /\ Become(t, [task[t] EXCEPT !.pc = "closed", !.rec = row'[task[t].sid]])
         /\ UNCHANGED <<lock, unrecovered>>
    [] task[t].kind = "boot" -> NextRow(task[t])

\* The background task of a close begins.
DoCloseReads(t) ==
  /\ At(t, "do_close") /\ DoesClose(t, task[t])
  /\ UNCHANGED <<row, memory, world, lock, cancelled, unrecovered, faults>>

\* The remote side is skipped, reached over the session's connection, or over
\* a new one.
RemoteStage(rec, c) ==
  IF CanCloseWithoutRemote(rec) THEN (IF c = None THEN "forget" ELSE "close_conn")
  ELSE IF c = None THEN "dial" ELSE "stop"

\* The row is gone: release what is left.  Otherwise the tunnel is taken over
\* and its watcher cancelled.
DoCloseTakesTunnel(t) ==
  /\ At(t, "fresh")
  /\ LET s == task[t].sid
         fresh == task[t].rec IN
     IF fresh.state = "closed"
     THEN /\ owned' = owned \ {s} /\ Unpublished(s)
          /\ UNCHANGED <<row, tunnels, cancelled>>
          /\ DoCloseReturns(t)
     ELSE /\ Keep(s, NoTunnel)
          /\ cancelled' = cancelled \cup WatcherOf(tunnels[s])
          /\ Become(t, [task[t] EXCEPT !.c = tunnels[s].c, !.old = tunnels[s],
                !.absent = CanCloseWithoutRemote(fresh),
                !.pc = IF tunnels[s].c = None THEN RemoteStage(fresh, None)
                                              ELSE "take_over"])
          /\ UNCHANGED <<row, owned, registry, lock, unrecovered>>
  /\ UNCHANGED <<world, faults>>

\* Its watcher has ended; the listener stops accepting, or that fails.
DoCloseStopsListener(t) ==
  /\ At(t, "take_over") /\ WatcherOf(task[t].old) = {}
  /\ LET next == RemoteStage(task[t].rec, task[t].c) IN
     \/ NoFault /\ Goto(t, next)
     \/ /\ Fault("close") /\ task[t].old.listener
        /\ Become(t, [task[t] EXCEPT !.pc = next, !.errors = TRUE,
                                     !.old = NoTunnel])
  /\ UNCHANGED <<row, memory, world, lock, cancelled, unrecovered>>

DoCloseDials(t) ==
  /\ At(t, "dial")
  /\ \/ \E c \in Conn : /\ Connects(c) /\ Opened(c)
                        /\ Become(t, [task[t] EXCEPT !.pc = "stop", !.c = c])
     \/ /\ Fault("ssh") \/ Fault("trust")
        /\ Become(t, [task[t] EXCEPT !.pc = "finish", !.errors = TRUE])
        /\ UNCHANGED conn
  /\ UNCHANGED <<row, memory, remote, abandoned, lock, cancelled, unrecovered>>

\* session-remove deletes the session directory and with it the pid record.
Removed(s) == remote' = [remote EXCEPT ![s] = IF @ = "starting" THEN @ ELSE "none"]

\* Stop the remote process (after an inspection when no identity is stored)
\* and remove its directory.  Absence is confirmed by the stop; a failed
\* removal is an error all the same.
DoCloseStopsRemote(t) ==
  /\ At(t, "stop")
  /\ LET s == task[t].sid
         c == task[t].c
         After(absent, errors) ==
           Become(t, [task[t] EXCEPT !.pc = "close_conn", !.absent = absent,
                                     !.errors = @ \/ errors]) IN
     \/ Answered(c) /\ remote[s] # "reused" /\ Removed(s) /\ After(TRUE, FALSE)
     \/ StopFails(c, s) /\ After(FALSE, TRUE)
     \/ conn[c] /\ Fault("ssh") /\ remote[s] # "reused" /\ Stopped(s) /\ After(TRUE, TRUE)
  /\ UNCHANGED <<row, memory, conn, abandoned, lock, cancelled, unrecovered>>

\* The connection closes, then the listener has closed and the port is
\* forgotten.  A connection that does not close is an error, and kept unless
\* forced.
DoCloseClosesConn(t) ==
  /\ At(t, "close_conn")
  /\ LET s == task[t].sid
         kept == [NoTunnel EXCEPT !.c = task[t].c] IN
     /\ IF task[t].old.listener THEN ClearTunnelIdentity(s) ELSE UNCHANGED row
     /\ \/ /\ NoFault /\ Closed(task[t].c)
           /\ Become(t, [task[t] EXCEPT !.pc = "forget", !.c = None, !.old = NoTunnel])
           /\ UNCHANGED tunnels
        \/ /\ Fault("close") /\ UNCHANGED conn
           /\ Become(t, [task[t] EXCEPT !.pc = "forget", !.c = None, !.old = NoTunnel,
                                        !.errors = TRUE])
           /\ IF task[t].kind = "force" THEN UNCHANGED tunnels ELSE Keep(s, kept)
  /\ UNCHANGED <<owned, registry, remote, abandoned, lock, cancelled, unrecovered>>

\* Absence confirmed: the stored identity is cleared.
DoCloseForgets(t) ==
  /\ At(t, "forget")
  /\ IF task[t].absent THEN ClearRemoteIdentity(task[t].sid) ELSE UNCHANGED row
  /\ Goto(t, "finish")
  /\ UNCHANGED <<memory, world, lock, cancelled, unrecovered, faults>>

\* Only a force close deletes the row after errors or without knowing that
\* the remote process is gone.
DoCloseFinishes(t) ==
  /\ At(t, "finish")
  /\ IF task[t].kind # "force" /\ (task[t].errors \/ ~task[t].absent)
     THEN MarkError(task[t].sid, "stop_failed") /\ DoCloseReturns(t)
     ELSE Delete(task[t].sid) /\ Goto(t, "deleted") /\ UNCHANGED <<lock, unrecovered>>
  /\ UNCHANGED <<memory, world, cancelled, faults>>

\* A mutant: the slot is not released.
DoCloseKeepsSlot(t) ==
  /\ At(t, "deleted")
  /\ Unpublished(task[t].sid)
  /\ UNCHANGED row /\ DoCloseReturns(t)
  /\ UNCHANGED <<owned, tunnels, world, cancelled, faults>>

DoCloseReleases(t) ==
  /\ At(t, "deleted")
  /\ owned' = owned \ {task[t].sid}
  /\ Unpublished(task[t].sid)
  /\ UNCHANGED row /\ DoCloseReturns(t)
  /\ UNCHANGED <<tunnels, world, cancelled, faults>>

-----------------------------------------------------------------------------
(***************************************************************************)
(* close(): records the intent, settles an open under way, and leaves the  *)
(* cleanup to a background task (the request's own task goes on as that    *)
(* one), or runs it under the lock when forced.                            *)
(***************************************************************************)
CloseRecordsIntent(o) ==
  /\ At(o, "looked_up") /\ task[o].kind \in {"close", "force"}
  /\ IF task[o].sid = None
     THEN End(o) /\ Unlocks(task[o]) /\ UNCHANGED row
     ELSE MarkStopping(task[o].sid) /\ Goto(o, "stopping") /\ UNCHANGED lock
  /\ UNCHANGED <<memory, world, cancelled, unrecovered, faults>>

\* On to _do_close.
StartsClosing(o) ==
  IF task[o].kind = "force" THEN DoesClose(o, task[o]) /\ UNCHANGED lock
                            ELSE Goto(o, "do_close") /\ Unlocks(task[o])

\* A mutant: the start task is cancelled and not awaited.
CloseDoesNotSettle(o) ==
  /\ At(o, "stopping")
  /\ Unpublished(task[o].sid) /\ Cancel(task[o].sid)
  /\ StartsClosing(o)
  /\ UNCHANGED <<row, owned, tunnels, world, unrecovered, faults>>

\* The row says stopping.  A start task under way is cancelled and awaited.
CloseCancelsStart(o) ==
  /\ At(o, "stopping")
  /\ Unpublished(task[o].sid) /\ Cancel(task[o].sid)
  /\ IF Active(task[o].sid) THEN Goto(o, "start_settles") /\ UNCHANGED lock
                            ELSE StartsClosing(o)
  /\ UNCHANGED <<row, owned, tunnels, world, unrecovered, faults>>

CloseStarts(o) ==
  /\ At(o, "start_settles") /\ task[o].kind \in {"close", "force"}
  /\ ~Active(task[o].sid)
  /\ StartsClosing(o)
  /\ UNCHANGED <<row, memory, world, cancelled, unrecovered, faults>>

-----------------------------------------------------------------------------
(***************************************************************************)
(* _reattach_existing_session, called under the lock by retry, by a        *)
(* watcher (one attempt per lock hold) and by recovery; and                *)
(* _reattach_with_retry, the attempts of the first two until               *)
(* recovery_timeout.                                                       *)
(***************************************************************************)
\* How an attempt's exception exc continues in the caller:
\*   retry     gives up on an identity mismatch, cleans up otherwise;
\*   a watcher queues for the lock once more to mark the loss;
\*   recovery  drops a session that never ran, else marks the row.
\* An "error" (not absent, not unavailable) is retried before the deadline;
\* "late" is the deadline itself.
Raises(t, r, exc) ==
  LET On(label) == Become(t, [r EXCEPT !.pc = label, !.c = None, !.old = NoTunnel,
                                       !.exc = "none"])
      Again == exc = "error" /\ r.tries < MaxTries /\ On("backoff") IN
  CASE r.kind = "retry" ->
         /\ \/ exc = "unavailable" /\ End(t) /\ Unlocks(r)
            \/ exc # "unavailable" /\ (DoesClose(t, r) \/ Again) /\ UNCHANGED lock
         /\ UNCHANGED unrecovered
    [] r.kind = "watch" ->
         /\ \/ exc = "cancelled" /\ End(t) /\ Unlocks(r)
            \/ /\ exc # "cancelled" /\ On("lost")
               /\ lock' = [lock EXCEPT ![r.alias] = Append(Tail(@), t)]
            \/ Again /\ Unlocks(r)
         /\ UNCHANGED unrecovered
    [] r.kind = "boot" /\ exc = "absent" ->
         /\ On(IF r.rec.state = "ready" THEN "clear_lost" ELSE "drop")
         /\ UNCHANGED <<lock, unrecovered>>
    [] r.kind = "boot" /\ exc # "absent" ->
         IF exc = "unavailable" \/ r.rec.state # "error"
         THEN On("mark_lost") /\ UNCHANGED <<lock, unrecovered>>
         ELSE NextRow(r)

Reattached(t) ==
  CASE task[t].kind = "retry" -> End(t) /\ Unlocks(task[t]) /\ UNCHANGED unrecovered
    [] task[t].kind = "watch" -> End(t) /\ Unlocks(task[t]) /\ UNCHANGED unrecovered
    [] task[t].kind = "boot" -> NextRow(task[t])

\* asyncio.timeout_at(deadline) interrupts the attempt, or its task is cancelled.
Interrupts(t, exc) ==
  \/ exc = "late" /\ task[t].kind # "boot" /\ Fault("late") /\ UNCHANGED cancelled
  \/ exc = "cancelled" /\ t \in cancelled /\ Delivered(t) /\ NoFault

Uninterrupted(t) == t \notin cancelled /\ UNCHANGED cancelled

\* The attempt begins: nothing may still be owned, and the row must be
\* recoverable when its port is forgotten.  r is the caller's record.
Reattaches(t, r) ==
  IF tunnels[r.sid].c # None
  THEN UNCHANGED row /\ Raises(t, r, "error")
  ELSE /\ BeginRecovery(r.sid)
       /\ IF Recoverable(r.sid)
          THEN Become(t, [r EXCEPT !.pc = "reconnect"]) /\ UNCHANGED <<lock, unrecovered>>
          ELSE Raises(t, r, "unavailable")

RecoveryReattaches(b) ==
  /\ At(b, "reattach") /\ Reattaches(b, task[b])
  /\ UNCHANGED <<memory, world, cancelled, faults>>

Reconnects(t) ==
  /\ At(t, "reconnect") /\ UNCHANGED <<row, memory, remote, abandoned>>
  /\ \/ /\ Uninterrupted(t) /\ UNCHANGED <<lock, unrecovered>>
        /\ \E c \in Conn : /\ Connects(c) /\ Opened(c)
                           /\ Become(t, [task[t] EXCEPT !.pc = "inspect", !.c = c])
     \/ /\ UNCHANGED conn
        /\ \/ Uninterrupted(t) /\ (Fault("ssh") \/ Fault("trust")) /\ Raises(t, task[t], "error")
           \/ \E exc \in {"late", "cancelled"} : Interrupts(t, exc) /\ Raises(t, task[t], exc)

\* An exception while the new connection is not installed: close it first,
\* and the new listener if there is one.
Abandons(t, exc) ==
  \E forwarded \in IF At(t, "commit") THEN {TRUE}
                   ELSE IF At(t, "reforward") THEN BOOLEAN ELSE {FALSE} :
    Become(t, [task[t] EXCEPT !.pc = "drop_conn", !.exc = exc, !.ledger = {},
                              !.old = [NoTunnel EXCEPT !.listener = forwarded]])

Interrupted(t) ==
  /\ task[t].pc \in {"inspect", "remove", "reforward", "commit"}
  /\ \E exc \in {"late", "cancelled"} : Interrupts(t, exc) /\ Abandons(t, exc)
  /\ \/ UNCHANGED remote
     \/ At(t, "remove") /\ conn[task[t].c] /\ Removed(task[t].sid)
  /\ UNCHANGED <<row, memory, conn, abandoned, lock, unrecovered>>

\* session-inspect: running with the recorded identity, a reused pid, or absent.
Inspects(t) ==
  /\ At(t, "inspect") /\ Uninterrupted(t)
  /\ LET s == task[t].sid IN
     \/ Answered(task[t].c) /\ remote[s] = "running" /\ Goto(t, "reforward")
     \/ Answered(task[t].c) /\ remote[s] = "reused" /\ Abandons(t, "unavailable")
     \/ Answered(task[t].c) /\ remote[s] \notin {"running", "reused"} /\ Goto(t, "remove")
     \/ Failed(task[t].c) /\ Abandons(t, "error")
  /\ UNCHANGED <<row, memory, world, lock, unrecovered>>

RemovesAbsent(t) ==
  /\ At(t, "remove") /\ Uninterrupted(t)
  /\ \/ Answered(task[t].c) /\ Removed(task[t].sid) /\ Abandons(t, "absent")
     \/ Failed(task[t].c) /\ Abandons(t, "error") /\ UNCHANGED remote
  /\ UNCHANGED <<row, memory, conn, abandoned, lock, unrecovered>>

\* The new forward is verified and complete_session_recovery issued; the
\* ledger remembers whether it applied.
ReattachVerifies(t) ==
  /\ At(t, "reforward") /\ Uninterrupted(t)
  /\ LET s == task[t].sid IN
     \/ /\ Answered(task[t].c) /\ remote[s] = "running"
        /\ CompleteRecovery(s)
        /\ Become(t, [task[t] EXCEPT !.pc = "commit",
             !.ledger = IF Recoverable(s) THEN {"completed"} ELSE {}])
     \/ /\ Failed(task[t].c) \/ (remote[s] # "running" /\ NoFault)
        /\ Abandons(t, "error") /\ UNCHANGED row
  /\ UNCHANGED <<memory, world, lock, unrecovered>>

\* A mutant: the new port is not published.
ReattachInstallsUnpublished(t) ==
  /\ At(t, "commit") /\ Uninterrupted(t)
  /\ LET s == task[t].sid
         c == task[t].c IN
     IF "completed" \in task[t].ledger
     THEN /\ Keep(s, LiveTunnel(c)) /\ UNCHANGED registry
          /\ task' = [task EXCEPT ![t].pc = "installed", ![t].c = None,
                                  ![t].ledger = {}, ![c] = Watcher(s)]
     ELSE Abandons(t, "unavailable") /\ UNCHANGED <<tunnels, registry>>
  /\ UNCHANGED <<row, owned, world, lock, unrecovered, faults>>

\* Committed: tunnel, registry and watcher are installed without an await.  A port
\* of the session that is still published raises, with the new tunnel in place.
ReattachInstalls(t) ==
  /\ At(t, "commit") /\ Uninterrupted(t)
  /\ LET s == task[t].sid
         c == task[t].c IN
     \/ /\ "completed" \in task[t].ledger /\ registry[s] = None
        /\ Keep(s, LiveTunnel(c)) /\ Published(s, c)
        /\ task' = [task EXCEPT ![t].pc = "installed", ![t].c = None,
                                ![t].ledger = {}, ![c] = Watcher(s)]
        /\ UNCHANGED <<lock, unrecovered>>
     \/ /\ "completed" \in task[t].ledger /\ registry[s] # None
        /\ Keep(s, [LiveTunnel(c) EXCEPT !.watched = FALSE]) /\ UNCHANGED registry
        /\ Raises(t, task[t], "error")
     \/ /\ "completed" \notin task[t].ledger
        /\ Abandons(t, "unavailable")
        /\ UNCHANGED <<tunnels, registry, lock, unrecovered>>
  /\ UNCHANGED <<row, owned, world, faults>>

\* The recovered row is read back; an interruption here leaves the installed
\* resources in place.
ReattachReads(t) ==
  /\ At(t, "installed")
  /\ \/ Uninterrupted(t) /\ NoFault /\ Reattached(t)
     \/ \E exc \in {"late", "cancelled"} : Interrupts(t, exc) /\ Raises(t, task[t], exc)
  /\ UNCHANGED <<row, memory, world>>

\* A connection that does not close is kept, and the exception replaced by
\* RECOVERY_FAILED unless it is a cancellation.  An interruption of the closing (the
\* deadline strikes once) leaves the hops not come to, and keeps nothing.
DropsConn(t) ==
  /\ At(t, "drop_conn")
  /\ LET s == task[t].sid
         exc == task[t].exc IN
     \/ /\ NoFault /\ Closed(task[t].c) /\ UNCHANGED <<tunnels, cancelled>>
        /\ Raises(t, task[t], exc)
     \/ /\ Fault("close") /\ UNCHANGED <<conn, cancelled>>
        /\ Keep(s, [task[t].old EXCEPT !.c = task[t].c])
        /\ Raises(t, task[t], IF exc \in {"late", "cancelled"} THEN exc ELSE "error")
     \/ \E again \in {"late", "cancelled"} :
          /\ again # "late" \/ exc # "late"
          /\ Interrupts(t, again) /\ (Closed(task[t].c) \/ UNCHANGED conn)
          /\ Raises(t, task[t], IF exc = "cancelled" THEN exc ELSE again)
          /\ UNCHANGED tunnels
  /\ UNCHANGED <<row, owned, registry, remote, abandoned>>

\* retry sleeps under the lock; a watcher queues for it again.
BackoffEnds(t) ==
  /\ At(t, "backoff") /\ t \notin cancelled
  /\ LET again == [task[t] EXCEPT !.pc = "attempt", !.tries = @ + 1] IN
     IF task[t].kind = "retry"
     THEN Reattaches(t, again)
     ELSE Become(t, again) /\ Enqueue(t, task[t].alias) /\ UNCHANGED <<row, unrecovered>>
  /\ UNCHANGED <<memory, world, cancelled, faults>>

-----------------------------------------------------------------------------
(***************************************************************************)
(* retry(): reattach to the live process, else clean up and open again.    *)
(***************************************************************************)
\* A session with an outstanding close request, or known to precede the
\* remote start, is cleaned up without an attempt to reattach.
RetriesNow(o) ==
  /\ Unpublished(task[o].sid)
  /\ IF task[o].rec.close_reason \/ CanCloseWithoutRemote(task[o].rec)
     THEN DoesClose(o, task[o]) /\ UNCHANGED <<row, lock, unrecovered>>
     ELSE Reattaches(o, [task[o] EXCEPT !.tries = 1])

\* Only an errored session is retried; its start task is cancelled and awaited.
RetryBegins(o) ==
  /\ At(o, "looked_up") /\ task[o].kind = "retry"
  /\ IF task[o].rec.state # "error"
     THEN /\ End(o) /\ Unlocks(task[o])
          /\ UNCHANGED <<row, registry, cancelled, unrecovered>>
     ELSE IF Active(task[o].sid)
     THEN /\ Goto(o, "start_settles") /\ Cancel(task[o].sid)
          /\ UNCHANGED <<row, registry, lock, unrecovered>>
     ELSE RetriesNow(o) /\ UNCHANGED cancelled
  /\ UNCHANGED <<owned, tunnels, world, faults>>

RetryProceeds(o) ==
  /\ At(o, "start_settles") /\ task[o].kind = "retry" /\ ~Active(task[o].sid)
  /\ RetriesNow(o)
  /\ UNCHANGED <<owned, tunnels, world, cancelled, faults>>

\* The row is gone: open the alias again, behind the lock's other waiters.
RetryReopens(o) ==
  /\ At(o, "closed")
  /\ IF task[o].rec.state = "closed"
     THEN /\ Become(o, [IdleTask EXCEPT !.pc = "enter", !.kind = "open",
                                        !.alias = task[o].alias])
          /\ lock' = [lock EXCEPT ![task[o].alias] = Append(Tail(@), o)]
     ELSE End(o) /\ Unlocks(task[o])
  /\ UNCHANGED <<row, memory, world, cancelled, unrecovered, faults>>

-----------------------------------------------------------------------------
(***************************************************************************)
(* _watch and on_tunnel_exit: one task per installed forward.              *)
(***************************************************************************)
\* The listener closed: look for the session.
WatcherWakes(c) ==
  /\ Resumes(c, "watching") /\ ~conn[c]
  /\ Become(c, [task[c] EXCEPT !.pc = "initial", !.rec = row[task[c].sid]])
  /\ UNCHANGED <<row, memory, world, lock, cancelled, unrecovered, faults>>

WatcherQueues(c) ==
  /\ Resumes(c, "initial")
  /\ IF task[c].rec.state = "closed" THEN End(c) /\ UNCHANGED lock
     ELSE LET a == task[c].rec.alias IN
          /\ Become(c, [task[c] EXCEPT !.pc = "exit", !.alias = a, !.rec = NoRow])
          /\ Enqueue(c, a)
  /\ UNCHANGED <<row, memory, world, cancelled, unrecovered, faults>>

\* With the lock: re-read the row (first, for each attempt, and for the end).
WatcherReads(c) ==
  /\ \E from \in {<<"exit", "exit_checks">>, <<"attempt", "attempt_checks">>,
                  <<"lost", "lost_checks">>} :
       /\ Resumes(c, from[1])
       /\ Become(c, [task[c] EXCEPT !.pc = from[2], !.rec = row[task[c].sid]])
  /\ Holds(c, task[c].alias)
  /\ UNCHANGED <<row, memory, world, lock, cancelled, unrecovered, faults>>

GoneOrStopping(rec) == rec.state \in {"closed", "stopping"}

\* A mutant: the dead port stays published.
WatcherKeepsPort(c) ==
  /\ Resumes(c, "exit_checks")
  /\ LET s == task[c].sid IN
     IF GoneOrStopping(task[c].rec) \/ tunnels[s].c # c
     THEN End(c) /\ Unlocks(task[c]) /\ UNCHANGED <<tunnels, registry>>
     ELSE /\ UNCHANGED registry /\ Keep(s, NoTunnel)
          /\ Become(c, [task[c] EXCEPT !.pc = "close_lost", !.c = c, !.old = tunnels[s]])
          /\ UNCHANGED lock
  /\ UNCHANGED <<row, owned, world, cancelled, unrecovered, faults>>

\* A closing session, or one whose tunnel was replaced, is left alone.
WatcherExits(c) ==
  /\ Resumes(c, "exit_checks")
  /\ LET s == task[c].sid IN
     IF GoneOrStopping(task[c].rec) \/ tunnels[s].c # c
     THEN End(c) /\ Unlocks(task[c]) /\ UNCHANGED <<tunnels, registry>>
     ELSE /\ Unpublished(s) /\ Keep(s, NoTunnel)
          /\ Become(c, [task[c] EXCEPT !.pc = "close_lost", !.c = c, !.old = tunnels[s]])
          /\ UNCHANGED lock
  /\ UNCHANGED <<row, owned, world, cancelled, unrecovered, faults>>

\* The dead chain is closed (or kept), and the first attempt queues.
WatcherDrops(c) ==
  /\ At(c, "close_lost")
  /\ \/ NoFault /\ UNCHANGED tunnels
     \/ Fault("close") /\ Keep(task[c].sid, task[c].old)
  /\ Become(c, [task[c] EXCEPT !.pc = "attempt", !.c = None, !.old = NoTunnel,
                               !.tries = 1])
  /\ lock' = [lock EXCEPT ![task[c].alias] = Append(Tail(@), c)]
  /\ UNCHANGED <<row, owned, registry, world, cancelled, unrecovered>>

WatcherAttempts(c) ==
  /\ Resumes(c, "attempt_checks")
  /\ IF GoneOrStopping(task[c].rec)
     THEN UNCHANGED row /\ Raises(c, task[c], "unavailable")
     ELSE Reattaches(c, task[c])
  /\ UNCHANGED <<memory, world, cancelled, faults>>

\* The deadline passes while the attempt waits for the lock or for its read.
WatcherLate(c) ==
  /\ task[c].pc \in {"attempt", "attempt_checks"} /\ c \notin cancelled
  /\ Fault("late")
  /\ Goto(c, "lost")
  /\ lock' = [lock EXCEPT ![task[c].alias] = Append(Without(@, c), c)]
  /\ UNCHANGED <<row, memory, world, cancelled, unrecovered>>

\* Reconnection failed: the row says so, unless it is closing.
WatcherMarksLoss(c) ==
  /\ Resumes(c, "lost_checks")
  /\ IF GoneOrStopping(task[c].rec) THEN UNCHANGED row
     ELSE MarkError(task[c].sid, "tunnel_lost")
  /\ End(c) /\ Unlocks(task[c])
  /\ UNCHANGED <<memory, world, cancelled, unrecovered, faults>>

\* A mutant: a watcher that waits for the lock cannot be cancelled.
DeafWatcherCancelled(c) ==
  /\ c \in cancelled /\ Delivered(c)
  /\ task[c].pc \in {"watching", "initial", "backoff"}
  /\ End(c)
  /\ UNCHANGED <<row, memory, world, lock, unrecovered, faults>>

WatcherCancelled(c) ==
  /\ c \in cancelled /\ Delivered(c)
  /\ task[c].pc \in {"watching", "initial", "exit", "exit_checks", "attempt",
                     "attempt_checks", "backoff", "lost", "lost_checks"}
  /\ End(c)
  /\ IF task[c].alias = None THEN UNCHANGED lock ELSE Leave(c, task[c].alias)
  /\ UNCHANGED <<row, memory, world, unrecovered, faults>>

-----------------------------------------------------------------------------
(***************************************************************************)
(* recover_all: startup handles the rows one by one, each under its lock,  *)
(* before requests are served.                                             *)
(***************************************************************************)
RecoverRow(b) ==
  /\ At(b, "next_row") /\ unrecovered # {}
  /\ LET s == CHOOSE u \in unrecovered : TRUE
         mine == [task[b] EXCEPT !.sid = s, !.alias = row[s].alias, !.rec = row[s]]
         On(label) == Become(b, [mine EXCEPT !.pc = label]) IN
     /\ lock[row[s].alias] = <<>> /\ Enqueue(b, row[s].alias)
     /\ CASE row[s].state = "stopping" -> DoesClose(b, mine)
          [] row[s].state = "error" /\ row[s].close_reason -> On("check_closing")
          [] OTHER -> On("reattach")
  /\ UNCHANGED <<row, memory, world, cancelled, unrecovered, faults>>

RecoveryEnds(b) ==
  /\ At(b, "next_row") /\ unrecovered = {}
  /\ End(b)
  /\ UNCHANGED <<row, memory, world, lock, cancelled, unrecovered, faults>>

\* A failed close is only finished when the remote process turns out absent.
RecoveryDials(b) ==
  /\ At(b, "check_closing")
  /\ \/ /\ \E c \in Conn : /\ Connects(c) /\ Opened(c)
                           /\ Become(b, [task[b] EXCEPT !.pc = "check_remote", !.c = c])
        /\ UNCHANGED <<lock, unrecovered>>
     \/ Fault("ssh") /\ NextRow(task[b]) /\ UNCHANGED conn
  /\ UNCHANGED <<row, memory, remote, abandoned, cancelled>>

\* A mutant: a host that does not answer counts as one without the process.
RecoveryTrustsSilence(b) ==
  /\ At(b, "check_remote")
  /\ LET s == task[b].sid
         Then(absent) == Become(b, [task[b] EXCEPT !.pc = "check_done", !.absent = absent]) IN
     \/ Answered(task[b].c) /\ remote[s] \in {"running", "reused"} /\ Then(FALSE)
        /\ UNCHANGED remote
     \/ Answered(task[b].c) /\ remote[s] \notin {"running", "reused"} /\ Removed(s)
        /\ Then(TRUE)
     \/ Failed(task[b].c) /\ Then(TRUE) /\ UNCHANGED remote
  /\ UNCHANGED <<row, memory, conn, abandoned, lock, cancelled, unrecovered>>

RecoveryInspects(b) ==
  /\ At(b, "check_remote")
  /\ LET s == task[b].sid
         Then(absent) == Become(b, [task[b] EXCEPT !.pc = "check_done", !.absent = absent]) IN
     \/ Answered(task[b].c) /\ remote[s] \in {"running", "reused"} /\ Then(FALSE)
        /\ UNCHANGED remote
     \/ Answered(task[b].c) /\ remote[s] \notin {"running", "reused"} /\ Removed(s)
        /\ Then(TRUE)
     \/ Failed(task[b].c) /\ Then(FALSE) /\ UNCHANGED remote
  /\ UNCHANGED <<row, memory, conn, abandoned, lock, cancelled, unrecovered>>

RecoveryChecked(b) ==
  /\ At(b, "check_done")
  /\ \/ /\ NoFault /\ Closed(task[b].c) /\ UNCHANGED tunnels
        /\ IF task[b].absent
           THEN /\ Become(b, [task[b] EXCEPT !.pc = "drop", !.c = None])
                /\ UNCHANGED <<lock, unrecovered>>
           ELSE NextRow(task[b])
     \/ /\ Fault("close") /\ UNCHANGED conn /\ NextRow(task[b])
        /\ Keep(task[b].sid, [NoTunnel EXCEPT !.c = task[b].c])
  /\ UNCHANGED <<row, owned, registry, remote, abandoned, cancelled>>

RecoveryDrops(b) ==
  /\ At(b, "drop")
  /\ Delete(task[b].sid) /\ Goto(b, "dropped")
  /\ UNCHANGED <<memory, world, lock, cancelled, unrecovered, faults>>

RecoveryReleases(b) ==
  /\ At(b, "dropped")
  /\ owned' = owned \ {task[b].sid} /\ NextRow(task[b])
  /\ UNCHANGED <<row, tunnels, registry, world, cancelled, faults>>

RecoveryClearsLost(b) ==
  /\ At(b, "clear_lost")
  /\ ClearRemoteIdentity(task[b].sid) /\ Goto(b, "mark_lost")
  /\ UNCHANGED <<memory, world, lock, cancelled, unrecovered, faults>>

RecoveryMarks(b) ==
  /\ At(b, "mark_lost")
  /\ MarkError(task[b].sid, "recovery_failed") /\ NextRow(task[b])
  /\ UNCHANGED <<memory, world, cancelled, faults>>

-----------------------------------------------------------------------------
(***************************************************************************)
(* The environment: the helper at work, the network, crashes.              *)
(***************************************************************************)
OnlyRemote(s, state) ==
  /\ remote' = [remote EXCEPT ![s] = state]
  /\ UNCHANGED <<row, memory, conn, abandoned, lock, task, cancelled, unrecovered>>

\* A mutant: the helper launches a dead editor anew.
RelaunchesDead(s) ==
  remote[s] \in {"starting", "dead"} /\ OnlyRemote(s, "running") /\ NoFault

\* The helper writes the pid files of the editor it launched, or fails.
HelperRecords(s) == remote[s] = "starting" /\ OnlyRemote(s, "running") /\ NoFault
HelperFails(s) == remote[s] = "starting" /\ OnlyRemote(s, "none") /\ Fault("launch")

\* The process dies (a crash, a reboot); its pid may be taken by another one.
ProcessDies(s) == remote[s] = "running" /\ OnlyRemote(s, "dead") /\ Fault("death")
PidReused(s) == remote[s] = "dead" /\ OnlyRemote(s, "reused") /\ Fault("pid_reuse")

\* A session's network path fails: its listener closes.  "loss" is a path lost
\* after the open has ended, "early_loss" one lost while it verifies.
ConnectionLost(c) ==
  /\ At(c, "watching") /\ conn[c]
  /\ Fault(IF Active(task[c].sid) THEN "early_loss" ELSE "loss")
  /\ Closed(c)
  /\ UNCHANGED <<row, memory, remote, abandoned, lock, task, cancelled, unrecovered>>

\* The gateway dies and starts again: memory, connections and tasks are gone,
\* rows and remote processes are not.  recover_all begins by owning a slot for
\* every row.
GatewayCrashes ==
  /\ Fault("crash")
  /\ LET rows == {s \in Sid : Exists(s)} IN
     /\ owned' = rows
     /\ unrecovered' = rows
  /\ tunnels' = [s \in Sid |-> NoTunnel]
  /\ registry' = [s \in Sid |-> None]
  /\ conn' = [c \in Conn |-> FALSE]
  /\ lock' = [a \in Alias |-> <<>>]
  /\ cancelled' = {}
  /\ task' = [t \in Task |-> IF t = Boot
                THEN [IdleTask EXCEPT !.pc = "next_row", !.kind = "boot"]
                ELSE IdleTask]
  /\ abandoned' = abandoned \cup {s \in Sid : remote[s] = "starting"}
  /\ UNCHANGED <<row, remote>>

-----------------------------------------------------------------------------
Init ==
  /\ StoreInit
  /\ owned = {} /\ cancelled = {} /\ unrecovered = {} /\ abandoned = {}
  /\ tunnels = [s \in Sid |-> NoTunnel]
  /\ registry = [s \in Sid |-> None]
  /\ conn = [c \in Conn |-> FALSE]
  /\ remote = [s \in Sid |-> "none"]
  /\ lock = [a \in Alias |-> <<>>]
  /\ task = [t \in Task |-> IdleTask]
  /\ faults = 0

OpenStep(o) == Enter(o) \/ OpenChecks(o) \/ OpenStarts(o)

StartStep(s) ==
  \/ StartCancelled(s) \/ StartConnects(s) \/ StartInstalls(s)
  \/ StartLaunches(s) \/ StartForwards(s) \/ StartForwarded(s)
  \/ StartPublishes(s) \/ StartVerifies(s) \/ StartDone(s) \/ StartUnhandled(s)
  \/ StartFails(s) \/ CleanupCancelled(s) \/ CleanupDecides(s)
  \/ CleanupWatcherEnded(s) \/ CleanupListener(s) \/ CleanupRemote(s)
  \/ CleanupConn(s) \/ CleanupMarks(s)

CloseStep(o) == CloseRecordsIntent(o) \/ CloseCancelsStart(o) \/ CloseStarts(o)

DoCloseStep(t) ==
  \/ DoCloseReads(t) \/ DoCloseTakesTunnel(t) \/ DoCloseStopsListener(t)
  \/ DoCloseDials(t) \/ DoCloseStopsRemote(t) \/ DoCloseClosesConn(t)
  \/ DoCloseForgets(t) \/ DoCloseFinishes(t) \/ DoCloseReleases(t)

RetryStep(o) == RetryBegins(o) \/ RetryProceeds(o) \/ RetryReopens(o)

ReattachStep(t) ==
  \/ Reconnects(t) \/ Interrupted(t) \/ Inspects(t)
  \/ RemovesAbsent(t) \/ ReattachVerifies(t) \/ ReattachInstalls(t)
  \/ ReattachReads(t) \/ DropsConn(t) \/ BackoffEnds(t)

WatchStep(c) ==
  \/ WatcherWakes(c) \/ WatcherQueues(c) \/ WatcherReads(c) \/ WatcherExits(c)
  \/ WatcherDrops(c) \/ WatcherAttempts(c) \/ WatcherLate(c)
  \/ WatcherMarksLoss(c) \/ WatcherCancelled(c)

RecoveryStep(b) ==
  \/ RecoverRow(b) \/ RecoveryReattaches(b) \/ RecoveryEnds(b) \/ RecoveryDials(b) \/ RecoveryInspects(b)
  \/ RecoveryChecked(b) \/ RecoveryDrops(b) \/ RecoveryReleases(b)
  \/ RecoveryClearsLost(b) \/ RecoveryMarks(b)

HelperStep(s) == HelperRecords(s) \/ HelperFails(s)

Environment ==
  \/ \E s \in Sid : ProcessDies(s) \/ PidReused(s)
  \/ \E c \in Conn : ConnectionLost(c)
  \/ GatewayCrashes

\* All tasks have ended: the gateway waits for a request.
Quiescent ==
  /\ \A t \in Task : task[t].pc \in {"idle", "watching"}
  /\ UNCHANGED vars

OpStep(o) ==
  OpenStep(o) \/ CloseStep(o) \/ RetryStep(o) \/ DoCloseStep(o) \/ ReattachStep(o)
WatcherStep(c) == WatchStep(c) \/ ReattachStep(c)
BootStep == RecoveryStep(Boot) \/ DoCloseStep(Boot) \/ ReattachStep(Boot)

Next ==
  \/ \E o \in Op, kind \in Requests, a \in Alias : Request(o, kind, a)
  \/ \E o \in Op : OpStep(o)
  \/ \E s \in Sid : StartStep(s) \/ HelperStep(s)
  \/ \E c \in Conn : WatcherStep(c)
  \/ BootStep
  \/ Environment
  \/ Quiescent

Spec == Init /\ [][Next]_vars

\* The event loop runs every ready task, every await ends (timeouts bound the
\* remote ones) and the helper's launch ends; nothing makes a client send a
\* request or the network fail.
Fairness ==
  /\ \A o \in Op : WF_vars(OpStep(o))
  /\ \A s \in Sid : WF_vars(StartStep(s)) /\ WF_vars(HelperStep(s))
  /\ \A c \in Conn : WF_vars(WatcherStep(c))
  /\ WF_vars(BootStep)

FairSpec == Spec /\ Fairness

-----------------------------------------------------------------------------
\* The points where a task is suspended: all of them, and those of each kind.
DoClosePcs == {"fresh", "take_over", "dial", "stop", "close_conn", "forget",
               "finish", "deleted"}
ReattachPcs == {"reconnect", "inspect", "remove", "reforward", "commit",
                "installed", "drop_conn"}
ClosePcs == {"stopping", "start_settles", "do_close"} \cup DoClosePcs
RetryPcs == {"start_settles", "closed", "backoff"} \cup DoClosePcs \cup ReattachPcs
StartPcs == {"connect", "install", "start", "identity", "forward", "tunnel",
             "verify", "ready", "unhandled", "ready_read", "watcher", "listener",
             "undo_remote", "undo_conn", "mark"}
WatchPcs == {"watching", "initial", "exit", "exit_checks", "close_lost", "attempt",
             "attempt_checks", "backoff", "lost", "lost_checks"} \cup ReattachPcs
BootPcs == {"next_row", "reattach", "check_closing", "check_remote", "check_done",
            "drop", "dropped", "clear_lost", "mark_lost"} \cup DoClosePcs \cup ReattachPcs

Label == {"idle", "enter", "looked_up", "inserted"} \cup ClosePcs \cup RetryPcs
         \cup StartPcs \cup WatchPcs \cup BootPcs

Suspended(r) ==
  \/ r.kind = "none" /\ r.pc = "idle"
  \/ r.kind \in {"open", "close", "force", "retry"} /\ r.pc \in {"enter", "looked_up"}
  \/ r.kind = "open" /\ r.pc = "inserted"
  \/ r.kind = "close" /\ r.pc \in ClosePcs
  \/ r.kind = "force" /\ r.pc \in ClosePcs \ {"do_close"}
  \/ r.kind = "retry" /\ r.pc \in RetryPcs
  \/ r.kind = "start" /\ r.pc \in StartPcs
  \/ r.kind = "watch" /\ r.pc \in WatchPcs
  \/ r.kind = "boot" /\ r.pc \in BootPcs

Kind == {"none", "open", "close", "force", "retry", "start", "watch", "boot"}
Tunnel == [c: Conn \cup {None}, listener: BOOLEAN, watched: BOOLEAN]
Raised == ErrorCode \cup {"absent", "unavailable", "error", "late", "cancelled"}
Ledger == SUBSET {"remote", "identity", "registry", "ready", "completed"}

TaskRecord ==
  [pc: Label, kind: Kind, alias: Alias \cup {None}, sid: Sid \cup {None}, rec: Row,
   c: Conn \cup {None}, old: Tunnel, exc: Raised, tries: 0..MaxTries, ledger: Ledger,
   errors: BOOLEAN, absent: BOOLEAN]

TypeOK ==
  /\ StoreTypeOK
  /\ owned \subseteq Sid /\ abandoned \subseteq Sid /\ unrecovered \subseteq Sid
  /\ tunnels \in [Sid -> Tunnel]
  /\ registry \in [Sid -> Conn \cup {None}]
  /\ conn \in [Conn -> BOOLEAN]
  /\ remote \in [Sid -> RemoteState]
  /\ lock \in [Alias -> Seq(Task)]
  /\ task \in [Task -> TaskRecord]
  /\ \A t \in Task : Suspended(task[t])
  /\ cancelled \subseteq Task
  /\ faults \in 0..MaxFaults

=============================================================================
