------------------------------ MODULE Presence ------------------------------
(***************************************************************************)
(* Editor presence and the automatic close of an unattended session:       *)
(* on_client_connected, on_client_disconnected, _grace_watcher and         *)
(* _restore_disconnect_timer of src/vscode_gateway/sessions.py, the        *)
(* WebSocket route that calls them, and close() as they meet it.           *)
(*                                                                         *)
(* One session: sessions share no presence state.  Steps are those of      *)
(* SessionService: the code of one task between two awaits, a cancellation *)
(* delivered where the task resumes.  _do_close is reduced to its outcome  *)
(* (row deleted, or kept in error) and what it does to presence.           *)
(***************************************************************************)
EXTENDS Integers, FiniteSets

CONSTANTS
  Client,     \* WebSocket route handlers
  Watcher,    \* _grace_watcher tasks
  Caller,     \* any other caller of close(): a request, an overdue deadline
  Nobody,     \* Python's None
  Faults,     \* what may go wrong: "dial", "crash", "stop"
  MaxFaults   \* bound on how often it does

ASSUME PresenceAssumption ==
  /\ IsFiniteSet(Client) /\ MaxFaults \in Nat
  /\ Caller \notin Watcher /\ Nobody \notin Watcher \cup {Caller}

VARIABLES
  state,      \* the row's state; "closed" when there is none
  deadline,   \* the row's disconnect_deadline_at is set
  registered, \* the session has an entry in the ProxyRegistry
  owned,      \* the session holds a capacity slot
  count,      \* _connected_counts
  timer,      \* _grace_timers: the task that closes the session
  client,     \* where each WebSocket handler is
  closer,     \* where each caller of close() is
  lock,       \* holder of the alias lock
  cancelled,  \* grace watchers with a cancellation to be delivered
  closing,    \* background _do_close tasks, by the closer that spawned them
  faults

durable  == <<state, deadline>>
presence == <<count, timer>>
vars == <<state, deadline, registered, owned, count, timer, client, closer,
          lock, cancelled, closing, faults>>

Closer == Watcher \cup {Caller}

At(t, label) == closer[t] = label
Goto(t, label) == closer' = [closer EXCEPT ![t] = label]
Resumes(t, label) == At(t, label) /\ t \notin cancelled
Idle(t) == At(t, "idle")

Moves(w, from, to) == client[w] = from /\ client' = [client EXCEPT ![w] = to]
Up == {w \in Client : client[w] = "up"}

Fault(kind) == kind \in Faults /\ faults < MaxFaults /\ faults' = faults + 1

\* _cancel_grace: the task in the table, if it still runs, is cancelled.
CancelGrace ==
  /\ timer' = Nobody
  /\ cancelled' = IF timer # Nobody /\ ~Idle(timer) THEN cancelled \cup {timer}
                                                   ELSE cancelled

-----------------------------------------------------------------------------
(***************************************************************************)
(* The presence callbacks.                                                 *)
(***************************************************************************)
\* A mutant: the client is counted, the timer is not cancelled.
KeepsTimer ==
  IF owned THEN count' = count + 1 /\ deadline' = FALSE /\ UNCHANGED <<timer, cancelled>>
           ELSE UNCHANGED <<count, deadline, timer, cancelled>>

OnClientConnected ==
  IF owned THEN count' = count + 1 /\ deadline' = FALSE /\ CancelGrace
           ELSE UNCHANGED <<count, deadline, timer, cancelled>>

\* A mutant: the count is not looked at before it drops.
DropsBelowZero(w) ==
  IF ~owned THEN CancelGrace /\ count' = 0 /\ UNCHANGED <<deadline, closer>>
  ELSE /\ count' = count - 1
       /\ IF count' # 0 THEN UNCHANGED <<deadline, timer, closer>>
          ELSE Goto(w, "sleep") /\ timer' = w /\ deadline' = TRUE
       /\ UNCHANGED cancelled

\* A mutant: only a second client's departure is counted.
ForgetsOne(w) ==
  IF ~owned THEN CancelGrace /\ count' = 0 /\ UNCHANGED <<deadline, closer>>
  ELSE /\ count' = IF count > 1 THEN count - 1 ELSE count
       /\ UNCHANGED <<deadline, timer, closer, cancelled>>

\* The count drops if it can; at zero a watcher is spawned and replaces the
\* timer, whose task is not cancelled.
OnClientDisconnected(w) ==
  IF ~owned THEN CancelGrace /\ count' = 0 /\ UNCHANGED <<deadline, closer>>
  ELSE /\ count' = IF count > 0 THEN count - 1 ELSE 0
       /\ IF count' > 0 THEN UNCHANGED <<deadline, timer, closer>>
          ELSE Goto(w, "sleep") /\ timer' = w /\ deadline' = TRUE
       /\ UNCHANGED cancelled

-----------------------------------------------------------------------------
(***************************************************************************)
(* The WebSocket route.                                                    *)
(***************************************************************************)
\* The registry knows the session and its row, as read, is ready.
WsRoutes(w) ==
  /\ registered /\ state = "ready"
  /\ Moves(w, "out", "routed")
  /\ UNCHANGED <<durable, registered, owned, presence, closer, lock, cancelled,
                 closing, faults>>

\* proxy_websocket dials the editor; the entry must still be there.
WsDials(w) ==
  /\ registered /\ Moves(w, "routed", "dialing")
  /\ UNCHANGED <<durable, registered, owned, presence, closer, lock, cancelled,
                 closing, faults>>

\* Both handshakes have succeeded: the forward stays up until _do_close.
WsConnects(w) ==
  /\ state \in {"ready", "stopping"} /\ Moves(w, "dialing", "up")
  /\ OnClientConnected
  /\ UNCHANGED <<state, registered, owned, closer, lock, closing, faults>>

\* However the handler ends it runs on_client_disconnected, also when it never
\* connected: its session is being closed, or the editor did not answer.  The
\* bound on Watcher keeps the handlers of one moment from spawning more.
WsEnds(w) ==
  /\ \/ Moves(w, "up", "out") /\ UNCHANGED faults
     \/ ~registered /\ Moves(w, "routed", "out") /\ UNCHANGED faults
     \/ state # "ready" /\ Moves(w, "dialing", "out") /\ UNCHANGED faults
     \/ Fault("dial") /\ Moves(w, "dialing", "out")
  /\ \E t \in Watcher : Idle(t) /\ OnClientDisconnected(t)
  /\ UNCHANGED <<state, registered, owned, lock, closing>>

-----------------------------------------------------------------------------
(***************************************************************************)
(* _grace_watcher, and close().                                            *)
(***************************************************************************)
\* The grace period is over: the row is read.
GraceExpires(t) ==
  /\ Resumes(t, "sleep")
  /\ Goto(t, IF state = "ready" THEN "expired" ELSE "idle")
  /\ UNCHANGED <<durable, registered, owned, presence, client, lock, cancelled,
                 closing, faults>>

\* Only a ready session nobody is connected to is closed.
GraceCloses(t) ==
  /\ Resumes(t, "expired")
  /\ Goto(t, IF count = 0 THEN "enter" ELSE "idle")
  /\ UNCHANGED <<durable, registered, owned, presence, client, lock,
                 cancelled, closing, faults>>

CallsClose ==
  /\ Idle(Caller) /\ closing[Caller] = "none" /\ Goto(Caller, "enter")
  /\ UNCHANGED <<durable, registered, owned, presence, client, lock,
                 cancelled, closing, faults>>

\* The lock is acquired and the row looked up; without one there is nothing
\* to close.
CloseEnters(t) ==
  /\ Resumes(t, "enter") /\ lock = Nobody
  /\ IF state = "closed" THEN Goto(t, "idle") /\ UNCHANGED lock
                          ELSE Goto(t, "looked_up") /\ lock' = t
  /\ UNCHANGED <<durable, registered, owned, presence, client, cancelled,
                 closing, faults>>

\* mark_stopping is issued.
CloseMarks(t) ==
  /\ Resumes(t, "looked_up") /\ Goto(t, "marked")
  /\ state' = IF state = "closed" THEN state ELSE "stopping"
  /\ UNCHANGED <<deadline, registered, owned, presence, client, lock, cancelled,
                 closing, faults>>

\* The timer is cancelled, even if it is the task that closes: nothing is
\* awaited any more, so _do_close is spawned all the same.
CloseSpawns(t) ==
  /\ Resumes(t, "marked")
  /\ Goto(t, "idle") /\ lock' = Nobody
  /\ timer' = Nobody
  /\ cancelled' = IF timer \in Watcher \ {t} /\ ~Idle(timer)
                  THEN cancelled \cup {timer} ELSE cancelled
  /\ registered' = FALSE
  /\ closing' = [closing EXCEPT ![t] = "work"]
  /\ UNCHANGED <<durable, owned, count, client, faults>>

\* CancelledError out of any await of a grace watcher.
GraceCancelled(t) ==
  /\ t \in cancelled /\ cancelled' = cancelled \ {t}
  /\ Goto(t, "idle")
  /\ lock' = IF lock = t THEN Nobody ELSE lock
  /\ UNCHANGED <<durable, registered, owned, presence, client, closing, faults>>

-----------------------------------------------------------------------------
(***************************************************************************)
(* _do_close in the background.                                            *)
(***************************************************************************)
\* Stop and cleanup are confirmed and the row is deleted (or was), or they
\* are not and the row is an error.
DoCloseEnds(t) ==
  /\ closing[t] = "work"
  /\ \/ /\ state' = "closed" /\ deadline' = FALSE
        /\ closing' = [closing EXCEPT ![t] = "deleted"] /\ UNCHANGED faults
     \/ /\ Fault("stop") /\ state # "closed" /\ state' = "error"
        /\ closing' = [closing EXCEPT ![t] = "none"] /\ UNCHANGED deadline
  /\ UNCHANGED <<registered, owned, presence, client, closer, lock, cancelled>>

\* A mutant: the clients of the session are still counted.
DoCloseKeepsCount(t) ==
  /\ closing[t] = "deleted" /\ closing' = [closing EXCEPT ![t] = "none"]
  /\ CancelGrace /\ owned' = FALSE /\ registered' = FALSE
  /\ UNCHANGED <<durable, count, client, closer, lock, faults>>

DoCloseForgets(t) ==
  /\ closing[t] = "deleted" /\ closing' = [closing EXCEPT ![t] = "none"]
  /\ CancelGrace /\ owned' = FALSE /\ registered' = FALSE /\ count' = 0
  /\ UNCHANGED <<durable, client, closer, lock, faults>>

-----------------------------------------------------------------------------
(***************************************************************************)
(* A restart of the gateway: recover_all reattaches a ready session and    *)
(* restores its timer, or closes it when its deadline has passed, and      *)
(* finishes the close of a stopping one.                                   *)
(***************************************************************************)
\* A mutant: the deadline in the row is ignored.
RestoresNothing(t) == closer' = [u \in Closer |-> "idle"] /\ timer' = Nobody

RestoreDisconnectTimer(t) ==
  LET spawned(u, label) == closer' = [v \in Closer |-> IF v = u THEN label ELSE "idle"] IN
  \/ deadline /\ state = "ready" /\ spawned(t, "sleep") /\ timer' = t
  \/ deadline /\ state = "ready" /\ spawned(Caller, "enter") /\ timer' = Nobody
  \/ ~(deadline /\ state = "ready") /\ spawned(Nobody, "idle") /\ timer' = Nobody

Restart ==
  /\ Fault("crash")
  /\ \E t \in Watcher : RestoreDisconnectTimer(t)
  /\ registered' = (state = "ready") /\ owned' = (state # "closed")
  /\ count' = 0 /\ cancelled' = {} /\ lock' = Nobody
  /\ client' = [w \in Client |-> "out"]
  /\ closing' = [t \in Closer |->
                   IF t = Caller /\ state = "stopping" THEN "work" ELSE "none"]
  /\ UNCHANGED durable

-----------------------------------------------------------------------------
\* A session has been opened; nobody has connected yet.
Init ==
  /\ state = "ready" /\ deadline = FALSE /\ registered = TRUE /\ owned = TRUE
  /\ count = 0 /\ timer = Nobody /\ lock = Nobody /\ cancelled = {} /\ faults = 0
  /\ client = [w \in Client |-> "out"]
  /\ closer = [t \in Closer |-> "idle"]
  /\ closing = [t \in Closer |-> "none"]

\* Nothing is left to do.
Finished ==
  /\ state # "ready" /\ UNCHANGED vars

WsStep(w) == WsRoutes(w) \/ WsDials(w) \/ WsConnects(w) \/ WsEnds(w)

CloserStep(t) ==
  \/ GraceExpires(t) \/ GraceCloses(t) \/ CloseEnters(t) \/ CloseMarks(t)
  \/ CloseSpawns(t) \/ GraceCancelled(t) \/ DoCloseEnds(t) \/ DoCloseForgets(t)

Next ==
  \/ \E w \in Client : WsStep(w)
  \/ \E t \in Closer : CloserStep(t)
  \/ CallsClose \/ Restart \/ Finished

Spec == Init /\ [][Next]_vars

\* The event loop runs every ready task and sleeps end; clients may stay away.
FairSpec == Spec /\ \A t \in Closer : WF_vars(CloserStep(t))

-----------------------------------------------------------------------------
TypeOK ==
  /\ state \in {"ready", "error", "stopping", "closed"}
  /\ deadline \in BOOLEAN /\ registered \in BOOLEAN /\ owned \in BOOLEAN
  /\ count \in Nat /\ timer \in Watcher \cup {Nobody}
  /\ client \in [Client -> {"out", "routed", "dialing", "up"}]
  /\ closer \in [Closer -> {"idle", "sleep", "expired", "enter", "looked_up", "marked"}]
  /\ lock \in Closer \cup {Nobody}
  /\ cancelled \subseteq Watcher
  /\ closing \in [Closer -> {"none", "work", "deleted"}]
  /\ faults \in 0..MaxFaults

\* Presence is balanced: while the session is ready, _connected_counts is the
\* number of proxied WebSockets.
PresenceIsExact == state = "ready" => count = Cardinality(Up)

\* Nothing of a session that gave its slot back is left behind: no count, and
\* no timer that could still close the alias.
NothingLeft ==
  ~owned => count = 0 /\ (timer = Nobody \/ Idle(timer) \/ timer \in cancelled)

\* A grace watcher never closes a session somebody is connected to, however
\* the connection falls between its expiry, its check, the lock and the lookup.
AttendedStaysOpen ==
  [][\A t \in Watcher : At(t, "looked_up") /\ closer'[t] = "marked" /\ state = "ready"
       => Up = {}]_vars

\* An unattended session is closed, also across a restart, unless somebody
\* connects.
UnattendedEnds == state = "ready" /\ deadline ~> state # "ready" \/ ~deadline

\* A session whose row says stopping is being closed by some task.
StoppingIsDriven ==
  state = "stopping" => \E t \in Closer : At(t, "marked") \/ closing[t] # "none"

=============================================================================
