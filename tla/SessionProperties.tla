------------------------- MODULE SessionProperties --------------------------
(***************************************************************************)
(* What the session lifecycle promises.                                    *)
(***************************************************************************)
EXTENDS SessionService

\* Tasks that run _do_close or are about to.
Closers == Op \cup {Boot}

Working(s) == {t \in Task \ {s} : Active(t) /\ task[t].sid = s /\ ~At(t, "watching")}

-----------------------------------------------------------------------------
\* Capacity accounting (_capacity_owned against the rows): every row has its
\* slot, except within open() between the insert and the acquisition, and a
\* slot is only held for a row, except within a close between the deletion
\* and the release.  No order of opens, closes, retries, losses and restarts
\* leaks a slot or frees one in use.
SlotPerRow ==
  /\ \A s \in Sid : Exists(s) =>
       s \in owned \/ \E o \in Op : At(o, "inserted") /\ task[o].sid = s
  /\ \A s \in owned : Exists(s) \/ Working(s) # {}

\* The gateway never runs more sessions than its capacity, although open()
\* checks the count before the insert it awaits.
CapacityIsRespected == Cardinality(owned) <= Capacity

\* open() never inserts a row for an alias that has one by then: the answer of
\* its lookup is still true when it is used, thanks to the alias lock.
LookupIsCurrent ==
  \A o \in Op : At(o, "looked_up") /\ task[o].sid = None => RowsOf(task[o].alias) = {}

\* A row that looks pre-remote (_can_close_without_remote_inspection) belongs
\* to a session whose editor was never started: close deletes it without
\* looking at the host.
PreRemoteNeverStarted ==
  \A s \in Sid : Exists(s) /\ CanCloseWithoutRemote(row[s]) => remote[s] = "none"

\* A row in a transient state has a task that will move it on.  (The closes here are those
\* of requests; one that a grace watcher runs is in Presence, StoppingIsDriven.)
TransientRowIsDriven ==
  \A s \in Sid :
    /\ row[s].state = "starting" =>
         \/ Active(s) \/ s \in unrecovered
         \/ \E o \in Op : At(o, "inserted") /\ task[o].sid = s
    /\ row[s].state = "stopping" =>
         \/ s \in unrecovered
         \/ \E o \in Op : task[o].sid = s /\ task[o].kind \in {"close", "force"}

\* A session no task is at work on is ready exactly when it is served: its
\* forward is installed, published in the proxy registry and watched.  (A lost
\* or failed session is never left ready, a repaired one never left in error.)
Quiet(s) == ~Active(s) /\ Working(s) = {} /\ s \notin unrecovered
Served(s) ==
  /\ registry[s] # None /\ Active(registry[s])
  /\ tunnels[s] = LiveTunnel(registry[s])
ReadyIffServed ==
  \A s \in Sid : Quiet(s) => (row[s].state = "ready" <=> Served(s))

\* The proxy only knows ports of forwards the session owns and watches.
PublishedIsOwned ==
  \A s \in Sid : registry[s] # None =>
    tunnels[s] = LiveTunnel(registry[s]) /\ Active(registry[s])

\* ProxyRegistry.add never meets an entry of the session: it would raise with
\* the new tunnel already installed, unwatched and unpublished.
PortIsFree ==
  \A t \in Task : task[t].pc \in {"tunnel", "commit"} => registry[task[t].sid] = None

\* Every open SSH connection is held by a task or a session's tunnel, so
\* something will close it.
Held(c) == (\E t \in Task : task[t].c = c) \/ (\E s \in Sid : tunnels[s].c = c)
ConnectionsAreOwned == \A c \in Conn : conn[c] => Held(c)

\* The ways a holder lets go of a connection it has not closed: the cleanup of a
\* failed open is cancelled before it has closed the whole chain; a force close drops
\* one that does not close; a connection kept because it did not close takes the
\* place of one kept before.
CutShort(c) ==
  \E s \in Sid \cap cancelled :
    task[s].c = c /\ task[s].pc \in {"listener", "undo_remote", "undo_conn"}
Forsaken(c) == \E o \in Op : At(o, "close_conn") /\ task[o].kind = "force" /\ task[o].c = c
Displaced(c) ==
  \E t \in Task : /\ task[t].pc \in {"close_conn", "close_lost"}
                 /\ tunnels[task[t].sid].c = c /\ tunnels'[task[t].sid].c = task[t].c

\* Whoever opens a connection holds it, and hands it on or closes it: no step but
\* those leaves one open that nothing holds.
ConnectionsStayOwned ==
  [][\A c \in Conn : conn'[c] /\ (conn[c] => Held(c)) =>
       Held(c)' \/ CutShort(c) \/ Forsaken(c) \/ Displaced(c)]_vars

\* A session's row is deleted by a normal close, a retry or recovery only when
\* its editor process is gone; a force close may leave it behind.
Forced(s) == \E o \in Op : task[o].kind = "force" /\ task[o].sid = s
DeletionFollowsStop ==
  [][\A s \in Sid : Exists(s) /\ row'[s] = NoRow =>
       remote[s] \notin {"starting", "running"} \/ Forced(s) \/ s \in abandoned]_vars

DeletionConfirmsAbsence ==
  [][\A s \in Sid : Exists(s) /\ row'[s] = NoRow =>
       remote[s] \notin {"starting", "running"} \/ Forced(s)]_vars

-----------------------------------------------------------------------------
\* Refinement.  The lifecycle uses the editor of each session as the helper
\* script provides it (RemoteHelper implements the same machine): it launches a
\* session's editor at most once until the record is gone, never counts on an
\* editor coming back, and forgets a reused pid only by removing the record.
Editor == INSTANCE RemoteEditor
EditorsFollowHelper == Editor!Spec

-----------------------------------------------------------------------------
\* Liveness.
ClosesEnd == \A s \in Sid : row[s].state = "stopping" ~> row[s].state # "stopping"
OpensEnd == \A s \in Sid : row[s].state = "starting" ~> row[s].state # "starting"
RequestsEnd == \A o \in Op : Active(o) ~> ~Active(o)

=============================================================================
