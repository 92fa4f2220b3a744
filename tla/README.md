# TLA+ models of vscode-gateway

vscode-gateway is an asyncio web service. It opens browser editors (openvscode
server) on SSH hosts, forwards a port to each of them, proxies HTTP and
WebSockets to that port, and closes editors nobody looks at. Everything that
makes it hard is in `src/src/vscode_gateway/sessions.py`: up to a dozen kinds of
task per session share a SQLite row, six in-memory tables, an SSH connection and
a process on another machine, and any await is a place where another task, a
cancellation, a timeout or the end of the process can come in between.

Paths below are relative to `src/src/vscode_gateway/` unless they start with
`src/`.

## 1. Inventory

| Component | State | Operations | Hard behaviour | What makes it correct |
|---|---|---|---|---|
| Session table (`db.py`, `migrations/001_initial.sql`) | one row per session: alias (UNIQUE), state, close reason, error code, remote identity, local port, presence deadline | insert, guarded updates, delete, lookups | statements of all tasks are serialised, the decisions taken between them are not | one row per alias; no statement withdraws a recorded close |
| Session lifecycle (`SessionService`, `sessions.py`) | `_capacity_owned`, `_tunnels`, `_open_tasks`, `_alias_locks`, the task of every operation | open, close, force close, retry, watch, reattach, recover_all, shutdown | cancellation inside cleanups, stale reads, timeouts, lost answers, crashes | slots, rows, tunnels, registry and remote processes agree; every operation ends |
| Presence and automatic close (`sessions.py`, WebSocket route of `routes.py`) | `_connected_counts`, `_grace_timers`, the row's deadline | client connected / disconnected, grace expiry, timer restored at startup | a client connects while the timer that closes its session is between two awaits | attended sessions stay, unattended ones are closed |
| Proxy registry and adapter (`proxy.py`) | session -> local port | add, remove, lookup; relay of HTTP and WebSockets | `add` refuses a second entry | only ports of owned, watched forwards are known |
| Remote helper (`remote/gateway-helper-v1.sh`, driven by `runtime.py`) | pid, port, boot id, start time, executable and group file of each session on the SSH host | session-start, -inspect, -stop, -remove | launch before record, reused pids, reboots, calls beside each other | a stop never signals a foreign process and its answer is right; a start is found again |
| SSH connections (`ssh_connection.py`) | the chain of connections of each session | resolve the route from ProxyJump lists, open hop by hop, forward, run, close in reverse | partial opening, cancellation of the cleanup, a config saved while it is resolved | every opened hop is closed; no route repeats a host or is too long |
| Host-key trust (`host_trust.py`) | challenge rows, known_hosts file | record a challenge, trust it, clear it | file and row are two writes; attempts and requests of several sessions meet at one host | a trusted key is one that was shown; none is replaced unasked |
| SSH keys (`ssh_keys.py`) | two files and a metadata row per slot | upload, delete | three writes, each of which may fail | files and row agree, or the slot says it is taken |
| SSH config and aliases (`ssh_config.py`) | config file, its revision, alias snapshot | read, save, load at startup | two saves from one revision; a save that fails after it replaced the file | no lost save; the listed aliases are those of the file |
| Authentication (`auth.py`) | password hash, session cookie, failed-login window | login, logout, throttle | sliding window | bounded attempts |
| Process lock and lifespan (`lockfile.py`, `app.py`) | flock, startup and shutdown order | acquire, start, serve, stop | a second process; a start that fails anywhere | one gateway at a time writes a state directory |
| HTTP routes (`routes.py`) | none | one service call each | WebSocket route brackets presence | - |
| Settings, models, errors; browser front end (`static/`) | none the server relies on | - | - | - |

How they interact. A route calls one method of `SessionService` and awaits it.
`open` and `close` return after a few awaits and leave a *start task* (`_run_open`)
or a background `_do_close` behind; an installed forward has a *watcher* task
(`_watch`), an unattended session a *grace watcher*. All of them read and write
the session table, the tables in memory and the proxy registry; the per-alias
`asyncio.Lock` orders open, close, retry, each reattachment attempt and recovery,
but neither the start task nor the background close nor the presence callbacks
hold it. `PROJECT.json` lists, line by line, the hazards this creates and the
property that watches each. Beside the sessions, and meeting them only in a
connection attempt, are the gateway's files: known_hosts, the keys, the SSH config
and the lock. Two parts meet over a machine stated on its own, `RemoteEditor`: the
lifecycle is checked against it, and the helper script is shown to implement it.

## 2. Modules

    SessionStore          the table: one operator per SQL statement
    SessionService        EXTENDS SessionStore: the lifecycle, task by task
      SessionProperties   what it promises
      SessionInvariant    its inductive invariants
      SessionMoves        theorems about the table; lemmas: queues, one task's move
                          in them, and the moves each action consists of
      SessionInvariantProofs  the invariant, what follows from it, the capacity, and
                              deletions
      SessionSafetyProofs     slots and transient rows; what each step writes, and does
                              to a session
      SessionServedProofs     ports, tunnels, watchers and rows; connections
      MCSessionService    model values
    RemoteEditor          abstract: the editor of a session as the helper answers tell it
    RemoteHelper          the helper script on its host; implements RemoteEditor
      RemoteHelperProofs  its safety, and the refinement, as theorems
      MCRemoteHelper      model values
    HostTrust             challenges, trust requests, known_hosts
    SshConnection         EXTENDS HostTrust: connection attempts, hop by hop
      SshConnectionProofs theorems about both
      MCSshConnection     routes and host keys
    Lifespan              processes and the lock of a state directory
    SshKeys               one key slot: two files and a row
    SshConfig             the config file, its snapshot and its editors
    ProxyRoute            EXTENDS SshConfig: the resolution of ProxyJump lists
    GatewayFiles          composes Lifespan, SshKeys and ProxyRoute
      GatewayFilesProofs  theorems about it
      MCGatewayFiles      texts of the config
    Presence              one session's clients, timers and closes
      PresenceProofs      theorems about it
      MCPresence          model values

**SessionStore.** `row[s]` is the row of session `s`, with the columns the
lifecycle reads; the absence of a row is the state "closed", as in the code's
views. Every writer of `db.py` is one statement followed by a commit on
aiosqlite's single thread, so it is one atomic operator with its `WHERE` clause as
a condition (`Update` is `UPDATE ... WHERE id = ?`). The five remote identity
columns are always written together and are one flag.

**SessionService.** The variables are the code's: `owned` (`_capacity_owned`),
`tunnels` (`_tunnels`), `registry` (`ProxyRegistry`), `lock` (the wait queue of
each `asyncio.Lock`, holder first), `task` (what each coroutine has in its locals
and where it is suspended), `cancelled` (a `CancelledError` is pending),
`unrecovered` (what `recover_all` has left), and outside the gateway `conn` and
`remote`. `conn[c]` is one flag for a chain: while something holds it, whether its path
is up (one lost counts as closed, although its holder has yet to close the hops), and once
nothing does, whether any hop was left open. A start task is named by its session and a watcher by its connection,
which is how `_open_tasks` and `_SessionTunnel.watcher` identify them. One action
is one task from the point an await returns to the next await; because the event
loop is single threaded nothing interleaves within it.

 - A database *write* takes effect when it is issued and the task continues in a
   later step; a *read* takes its value when it is issued and the value is used
   in a later step (`rec`), when it may be stale. Those are the two extremes
   asyncio allows, and between them another task may do anything.
 - A remote command takes effect when its answer arrives, may fail at any time
   (fault `ssh`), fails when its connection has closed, and may be carried out
   although its answer is lost (`lost_reply`).
 - `Cancel(t)` is `task.cancel()`: delivered where `t` resumes. The start task's
   cleanup (`CleanupCancelled`), the attempts (`Interrupted`) and the lock queue
   (`Leave`) each have their cancelled exits.
 - `timeout_at` / `recovery_timeout` is the fault `late`; `MaxTries` bounds the
   attempts that fit before it.
 - `GatewayCrashes` empties all memory, closes all connections and starts
   `recover_all`; rows and remote processes survive. `shutdown()` closes the same
   resources and keeps the rows, so it is covered by the crash.

| Actions | Code |
|---|---|
| `Request`, `Enter`, `Open*` | `open`, `_capacity_acquire`, the routes |
| `Start*`, `Cleanup*` | `_run_open`, `_do_open`, `_open_failure_cleanup`, `_finalize_open_read` |
| `CloseRecordsIntent`, `CloseCancelsStart`, `CloseStarts` | `close` |
| `DoClose*` | `_do_close`, `_cancel_forward_watcher`, `_close_ssh_connection` |
| `Retry*` | `retry` |
| `Reconnects` ... `BackoffEnds` | `_reattach_existing_session`, `_reattach_with_retry` |
| `Watcher*` | `_watch`, `on_tunnel_exit` |
| `Recover*`, `Recovery*` | `recover_all` |
| `Helper*`, `ProcessDies`, `PidReused` | the helper script and the remote host |

**Presence.** One session (sessions share no presence state) whose forward stays
up. `client[w]` follows a WebSocket handler through the route (`out`, `routed`,
`dialing`, `up`), `closer[t]` a grace watcher or any other caller of `close`
through its awaits, `closing[t]` the `_do_close` it spawned. `_do_close` is
reduced to its outcome, since its steps are in SessionService.

**RemoteEditor** and **RemoteHelper.** `RemoteEditor` has six states and the steps between
them. It is the seam between two models: `SessionProperties!EditorsFollowHelper` says
that the lifecycle's `remote` takes only these steps, `RemoteHelper!HelperIsRemoteEditor`
that the script and its host take only these, under the mapping `EditorState`. So
what the lifecycle assumes of the host is what the script does there. RemoteHelper
is the script command by command wherever another process can step in: `start` and
`call[c]` are program counters; `leader` is the process that has the editor's pid,
`node` the child in its group; `files` counts the record's files in the order they
are written, `recorded` says what they hold. Assumed of the host: a pid is not
reused while its process group has members, nor while session-start runs, nor
between a stop's comparison and its last signal (seconds); within a boot no two
processes share a pid and a start time; a reboot keeps the files.

**HostTrust** and **SshConnection.** `attempt[s]` is where `connect_for_session` is for
session `s`, `chain[s]` the hops it has open. `known_hosts` is read when a hop is
dialled and the key is compared when the host has answered, two steps, since
AsyncSSH reads the file first. Once the chain is complete it belongs to the session
and SessionService says how it is closed; `Released` hands it over. `shown` is a
history variable: the keys ever put in a challenge.

**Lifespan**, **SshKeys**, **SshConfig**, **ProxyRoute**, **GatewayFiles.** Key slots share
nothing but the mutation lock, so one slot is modelled, write by write. A config text
is the map of its ProxyJump lists, all that the rest looks at, and its revision (a
hash) is the text. A save has no await in it but for a lock nobody holds across one,
so it is one step, with an early failure that changes nothing left out and the late
failure (`SaveFailsLate`) kept. `walk` is the recursion of `_resolve_route` as a
stack, with an await at every host. GatewayFiles says which of these a process may do
in which phase, and what a process that ends or dies leaves behind.

| Actions | Code |
|---|---|
| `MakesDirectory` ... `CannotWrite` | `cmd_session_start` |
| `StopLooks` ... `StopChecks`, `Inspects`, `Removes` | `cmd_session_stop`, `cmd_session_inspect`, `cmd_session_remove` |
| `Connects` ... `ChainClosed` | `connect_for_session`, `_HostKeyCapturer`, `_close_connection_chain` |
| `Submits`, `Writes`, `Clears`, `SessionDeleted` | `HostTrustService.trust`, the trust route, ON DELETE CASCADE |
| `Acquires` ... `Releases` | `ProcessLock`, `lifespan` |
| `Enters` ... `DeletesRow` | `import_upload`, `delete_key`, `_atomic_write_pair`, `_unlink_pair` |
| `ReadsConfig`, `Saves`, `SaveFailsLate`, `LoadsCatalog` | the config routes, `validate_and_save_config`, `SshCatalog` |
| `Resolves`, `VisitsJump`, `ListsHop`, `WalkEnds` | `_resolve_route` |

Names such as `UnguardedRecoverable` or `WatcherKeepsPort`, introduced with
"A mutant", are deliberate mistakes. They are not part of any specification;
substituting one for the definition after it must make the property it is meant
for fail, which shows the property has teeth (`PROJECT.json`, "mutants").

## 3. Runs

| Run | Instance | What it shows |
|---|---|---|
| lifecycle | 1 session, 3 connections, 2 concurrent requests of all four kinds, 1 fault of eight kinds; 217k states | Any two requests on an alias interleave with the start task, watchers and closes, with one failure anywhere, and rows, slots, tunnels, registry, connections and process stay consistent |
| recovery | 1 session, 4 connections, 1 request at a time, 2 faults, crashes and timeouts included; 65k states, fair | Across restarts no row stays in a transient state and none is deleted too early, the editor takes only the steps of `RemoteEditor`, and every open, close and request ends |
| capacity | 2 sessions, 2 aliases, 1 slot, 2 requests; 62k states | The slot count is exact although it is checked before an await; no connection is orphaned |
| presence | 2 clients, 2 grace watchers, 2 faults; 45k states, fair | Counts are exact, attended sessions stay, unattended ones are closed, across restarts |
| remote_helper | session-start beside 2 other calls, 2 reboots; 76k states | Only the editor is signalled, a confirmed stop is right for good, the record tells the editor, and the script implements `RemoteEditor` |
| ssh_access | 2 sessions through one jump host that changes its key, 2 trust requests; 1.2M states | No key is trusted or used that was not shown, none is replaced unasked, and an ended attempt has closed its hops |
| gateway_files | 2 processes, 2 key requests, 2 keys, 2 config editors, 3 texts, 1 walk at a time; 510k states | One writer; key row and files agree; no lost save; listed aliases are the file's; no save during a walk makes an unsafe route |
| loss_during_open | 1 request, 1 lost forward | finding 1 |
| abandoned_start | 2 requests, no fault | finding 2 |
| cancelled_cleanup | 2 requests, 1 SSH failure | finding 3 |
| failed_websocket | 2 clients, 1 failed dial | finding 4 |
| reconnect_while_closing | 2 clients, no fault | finding 5 |

Properties of the lifecycle (`SessionProperties`): `SlotPerRow`, `CapacityIsRespected`,
`LookupIsCurrent`, `PreRemoteNeverStarted`, `TransientRowIsDriven`, `ReadyIffServed`,
`PublishedIsOwned`, `PortIsFree`, `ConnectionsAreOwned`, `ConnectionsStayOwned`, `CloseIntentIsFinal`,
`DeletionFollowsStop`, and under fairness `ClosesEnd`, `OpensEnd`, `RequestsEnd`.
Of presence: `PresenceIsExact`, `NothingLeft`, `AttendedStaysOpen`,
`UnattendedEnds`. Of the helper: `SignalsOnlyEditor`, `StopConfirmsAbsence`,
`RecordTellsEditor`, `HelperIsRemoteEditor`. Of access: `OnlyShownKeys`, `NoSilentReplace`,
`ChainsAreClosed`. Of the files: `OneWriter`, `RowTellsTruth`, `KeyIsNotReplaced`,
`CatalogTellsFile`, `NoLostSave`, `RouteIsSafe`. Each is explained where it is defined.

**Bounds.** Sessions interact through the slot count only, so one session is
enough for everything but `capacity`, which has two on different aliases. Two
concurrent requests give every pair (open and close, close and force, retry and
close, ...), each also against the start task and the watchers of the session. A
session has at most one dead connection, one in its tunnel and one being dialled;
the fourth in `recovery` is for a connection kept after a failed close. `Faults`
and `MaxFaults` name what may fail and how often: one failure at any place in
`lifecycle`, two in sequence (a crash during the handling of a loss, a timeout
after a failed stop) in `recovery`. `MaxTries = 2` has a first, a repeated and a
last attempt. Where a bound cuts a behaviour short the action says so
(`OpenChecks` refuses when `Sid` is exhausted).

In `remote_helper` two calls give a stop beside a stop, an inspection or a removal;
the script's calls share nothing but files and processes, so a third meets the
states the second met. Two reboots put a record on a boot, its reader on the next,
and a pid taken on either. In `ssh_access` the two sessions share a host, so a
challenge answered for one opens the hop of the other; the jump host has two keys,
which gives a changed key and an answer to the old challenge. In `gateway_files` two
processes and two requests of a kind give every pair, with a crash between any two
steps. The three texts have, for a walk from two aliases and a maximum of two jumps, a
list in a list, a host named twice in a list, a way back to the alias, and one jump
more than the maximum (the code's own maximum is larger; the walk compares with it in
one place), and any of them can replace another during a walk.

`ssh_access` and `gateway_files` use symmetry, of requests, processes, keys and
editors that the specification and the properties do not tell apart; both check
safety only. The runs that check liveness use none. Identifiers are taken with CHOOSE from those
nothing refers to, since unused identifiers are interchangeable.

Each run lists the properties that hold under *its* faults. `ReadyIffServed`,
`PublishedIsOwned` and `PortIsFree` are properties of `lifecycle` and not of `recovery`,
`ConnectionsAreOwned` of the run without faults only, because the code does not keep
them beyond (findings 1 and 3, observations below); none is weakened to pass. With
failures, `lifecycle` checks `ConnectionsStayOwned` instead: it names the three steps that
do lose an open connection and says that no other does. `CutShort` is finding 3: the cleanup
of a failed open cancelled before the chain is closed, or while it is, hop by hop; `Forsaken`
is the code's choice, a force close gives up what does not close; `Displaced`
is the connection kept after a failed close whose place a second one takes.

**Fairness.** Weak fairness for every task of the gateway: the event loop runs a
task that is ready, each await of a remote operation is bounded by a timeout of
the code, and `asyncio.Lock` is first in, first out (`lock` is a queue, so no
fairness is needed for it). Weak fairness for the helper: its launch loop is
bounded. Nothing is assumed of clients, of the network or of failures. In
Presence, grace sleeps end and tasks run; clients may never come.

Deadlock checking is on in every run but `ssh_access`: `Quiescent` and `Finished` say
where the system may rest, and anything else that blocks is reported. In `ssh_access`
all sessions may have been deleted and all keys changed, after which nothing is left
to do. RemoteHelper, SshConnection and GatewayFiles state no fairness: their
properties are about safety.

## 4. Findings

1. **loss_during_open** (`sessions.py:650`). The forward dies while the open verifies
   it; its watcher reattaches and `complete_session_recovery` makes the row ready; the
   open's health check then fails and `_open_failure_cleanup` tears down *whatever*
   tunnel is installed - the replacement. The row stays ready, unserved, unwatched.
2. **abandoned_start** (`sessions.py:781`). A close cancels an open that awaits
   session-start. No pid is recorded yet, so the inspection reports absence, the
   row is deleted, and the editor runs on without a row.
3. **cancelled_cleanup** (`sessions.py:729`). A close cancels a start task that is already
   in its failure cleanup. The cancellation ends the cleanup before
   `_close_ssh_connection`; the connection was only a local of that task. If it comes
   inside, while the target is awaited (`sessions.py:397-412` catch `Exception` only), the
   jump connections of the chain stay open in the same way (`CleanupCancelled`), though
   `src/design.md:108` says that the whole chain is closed.
4. **failed_websocket** (`routes.py:527`). `on_client_disconnected` also runs for a
   WebSocket whose upstream dial failed and that was never counted in: with another
   client connected the count reaches zero and the grace timer closes an attended
   session.
5. **reconnect_while_closing** (`sessions.py:721`). A client that finishes its handshake
   while the expired grace watcher awaits `mark_stopping` cancels that watcher; the
   row says stopping and no task closes the session.

Observed while modelling, without a run of their own:

 - A reattachment that times out after it installed the new tunnel (`late`) counts
   as failed: the watcher then marks `tunnel_lost` over a served session, and a retry
   cleans up around it (`sessions.py:549`). If it was a retry's attempt and a close
   follows, the registry entry stays behind; the next attempt that reaches
   `ProxyRegistry.add` then gets CONFLICT with its tunnel in place and unwatched. So
   `ReadyIffServed`, `PublishedIsOwned` and `PortIsFree` are properties of `lifecycle`, whose
   faults leave `late` and `early_loss` out, and not of `recovery`. A search with every other
   fault, crashes included, two of them in one behaviour and two requests side by side
   (1.4M states), found none of the three violated.
 - The same deadline may strike while a failed attempt closes its connection
   (`sessions.py:556`): the hops not come to stay open and nothing holds them (`DropsConn`).
   `ConnectionsStayOwned`, too, is therefore a property of `lifecycle` only.
 - session-start looks for its port with patterns (`pid=12`, or the children of a pid,
   which may be none) that other processes' listeners match too
   (`gateway-helper-v1.sh:161-164`); `FindsPort` therefore does not ask for a bound editor.
   The health check of the open meets whatever listens there.
 - A crash between an insert and the slot it was refused leaves a row that startup
   gives a slot: the gateway may then own one more than its capacity.
   `CapacityIsRespected` is a property without crashes.
 - A session whose clients were connected at a crash has no stored deadline; if
   they do not come back it is never closed. `UnattendedEnds` speaks of sessions
   with a deadline.
 - An overdue deadline found at startup is closed by a task that is in no timer
   table, so a client that connects does not stop it.
 - A timer that expires while the row is in error ends for good.

## 5. Proofs

Theorems hold for all values of the constants under the named assumptions of the
modules: identifiers of different kinds are different, bounds are naturals, a route
has a hop, a host has a key, a config names finitely many hosts. None of them uses fairness. TLC checked each formula
first, the inductive invariants below on the instances of the runs.

**Table** (`SessionMoves`, its first part). `StoreInvariant`: rows are typed, an alias has at
most one row, a row with a recorded close is `stopping` or `error`.
`StoreKeepsCloseIntent`: no statement withdraws a close. Both speak of `StoreSpec`,
where any task issues any statement at any time, so they rest on the `WHERE`
clauses and the UNIQUE constraint alone. `StatementKinds` reduces the statements to
three kinds - one new row, one row edited in permitted ways, one row deleted - and
the invariant is proved once per kind.

**Slots** (`SessionInvariantProofs`, its part on the capacity). `SlotsAreBounded`: without restarts the gateway
never owns more slots than its capacity. The code compares before it awaits the
insert, and compares again when it takes the slot; every action is shown to leave
`owned` alone, shrink it, or add one below the capacity. A crash is excluded
because startup adopts every row without comparing (see section 4).

**Lifecycle** (`SessionInvariantProofs`). No safety property of the tasks is
inductive alone: what a task does next depends on what it has in its locals, and
what may happen meanwhile depends on who holds the lock. `LifecycleInv` has

| Part | Says | Needed for |
|---|---|---|
| `TypeOK`, `OneRowPerAlias`, `ClosingRowIsDown` | types, and the table's invariant | every statement, with the values its task read earlier |
| `TaskShape` | which locals are set at which await | an action that resumes knows whose row, alias and connection it uses |
| `LockOrder` | each lock queues exactly the tasks at work on its alias, once each, holder first | mutual exclusion; `release` and a cancelled waiter remove the right entry |
| `FreshConnections` | a connection being set up belongs to one task and has no watcher | installing a tunnel starts a watcher that was idle |
| `RecoveryIsAlone` | while `recover_all` runs no request does, and every session on its list still has its row | a row recovery reads exists |

The argument follows the shape of the code rather than its 70 actions. A *move* is one
task changing its record while its lock entry is kept, joined, left or released
(`SessionMoves`, which shows that every action is one move, or one of the
three that start a second task: `OpenStarts`, `StartPublishes`, `ReattachInstalls`).
`LockOrder`, `TaskShape` and `FreshConnections` are then proved once for a move. What an
action does to the row is shown to be a statement of `SessionStore`, so the table's
lemmas apply; `RecoveryIsAlone` needs that recovery's own steps keep its list and
that no other task deletes a listed row. From the invariant:

 - `LifecycleInvariant`, `LifecycleTypes`;
 - `AliasLocksExclude`: no two tasks hold one alias lock, across cancelled waiters,
   attempts that release and take it again, and crashes;
 - `CloseIntentStays`: no step of any task withdraws a recorded close;
 - `LookupStaysCurrent`: a request that found no session for its alias still
   finds none when it acts on that. Rows appear only in `OpenChecks`, whose task
   holds the alias lock, and so does the one that looked up; hence they are one;
 - `LifecycleFollowsEditor`: the lifecycle takes only `RemoteEditor`'s steps. `StepSettles`
   shows that every action but session-start changes an editor in one of seven ways
   (`EditorChanges`), none of which starts one. That session-start finds no editor
   needs `Unlaunched`: before it is sent there is none, and a row just inserted has
   neither an editor nor a start task, nor a second request at work on it. With
   `HelperImplementsEditor` below, both sides of the seam are proved.

**Deletions, slots and transient rows** (`SessionInvariantProofs` has the first,
`SessionSafetyProofs` the others). Three invariants, each
inductive relative to `LifecycleInv` and those before it. They say what a task that
acts on something it read, or was told, several awaits ago may rely on; TLC checked
them on one session and two requests with every fault, two per behaviour (2.5M states).

| Invariant | Parts | Theorems |
|---|---|---|
| `SafetyInv` | before session-start there is no editor (`Unlaunched`); the row an open has just inserted is its own (`InsertsAlone`); nobody stops an editor, or reattaches to it, beside its start task (`Settled`); a failure recorded as one before the remote start is one (`PreRemoteIsTold`); an editor being launched is listened to, or was given up (`StartingIsAwaited`); whoever holds the editor for gone is right (`AbsentIsGone`) | `PreRemoteStays`: a row that is deleted without a look at the host never had an editor. `DeletionsFollowStop`: any other deletion by close, retry or recovery finds the editor gone, but after a force or the abandonment of finding 2 |
| `SlotInv` | whoever gives a slot back has deleted the row (`DeletedIsGone`); only its open removes a row just inserted (`InsertedExists`); a slot without a row has a task about to return it, a row without a slot an open about to take it | `SlotsFollowRows`: no order of requests, losses and restarts leaks a slot or frees one in use |
| `DrivenInv` | a start task that leaves the row as it is has found it past `starting` (`StartIsTold`); so has a request that cancels one (`OpIsTold`); a cancellation meets the task it was meant for (`CancelledIsActive`); recovery leaves a row only when it rests (`BootIsTold`); a `starting` or `stopping` row has its driver | `TransientRowsAreDriven`: no row stays `starting`, or `stopping` for a request's close, without a task, or the recovery of this start, that will move it on (a close that a grace watcher runs is in Presence: finding 5) |

`AbsentIsGone` is the heart of the first: a stop or an inspection answers in one step
and the row is deleted several awaits later; no other task may launch an editor in
between. `Settled` gives that: the deleter holds the alias lock, hence no open does, and
it has seen the start task end. `DrivenInv` needs the order in which `close` works:
it records its intent, cancels the start task and awaits it, so a start task
that is cancelled, and may end without a write of its own, leaves no row `starting`.

**What is served** (`SessionServedProofs`). Four tables must agree that the code writes in
different steps of different tasks: the registry, `_tunnels`, the watchers and the row.
`ServedInv` says how, relative to the invariants above, if neither `late` nor `early_loss` is
among the faults: with either the theorems are false (finding 1, the first observation in
section 4). Every other fault, crashes included, may happen any number of times.

| Part | Says | Needed for |
|---|---|---|
| `OpeningIsAlone` | while a start task is active nothing of the session exists but what it made: no port before it publishes, then its own; only its watcher, idle | an open fails or is cancelled with its own tunnel to take down |
| `PortIsWatched` | a published port is the tunnel's, and its watcher is at its post | `PublishedIsOwned`, half of `ReadyIffServed` |
| `WatchersAgree`, `WatcherReadsRight`, `ReadyIsMended` | in a session no close was requested of, a watcher at its post is that of the port, and one that repairs is alone; it gives up only a row that is gone or closing; a ready row without a port has somebody at its repair | the other half |
| `AttemptIsAlone`, `RetryIsDue`, `CloseIsKnown` | an attempt to reattach finds nothing installed or published, and nobody interferes before it ends; a retry works on a session in error; a close has recorded its intent and then left no port | `PortIsFree`; two tasks that would repair one session |
| `AliasesAgree` | whoever works on a session has the alias of its row | one lock per session, not only per alias: with `OneHolder`, the parts above |
| `CancelledInTime` | start tasks are cancelled by a close that awaits them, watchers after their forward was taken down, attempts never | a cancellation meets no port that is still published and no repair under way |
| `RecoveryStartsClean`, `ClaimsDiffer` | recovery finds no port and no watcher; no two holders have one connection in common | taking one session down leaves the others served |

The proof does not go part by action, twelve times seventy. `SessionSafetyProofs` shows
once what each step writes, and from it that a step is, for every session, one of a few
*events* - its row is inserted, moved or deleted, its tunnel installed or dropped, its
port published or withdrawn - and for every task one of a few moves. Each part of
`ServedInv` is then proved from the events. `ServedInvariant`; from it
`PublishedPortsAreOwned`, `PortsAreFree`, `ReadySessionsAreServed`. Before the proof TLC
checked `ServedInv` with every fault but the two, two per behaviour: one session, four
connections, two requests, 1.5M states; two sessions, three connections, as far as 2.3M states.

**Connections** (`SessionServedProofs`, its last parts). Two statements, since the code does
not keep the simple one when things fail.

 - `ConnectionsKeepTheirOwners`, with the same hypothesis: an open connection is held by
   a task or a tunnel, and no step but the three named in `ConnectionsStayOwned` changes
   that. It needs `OwnInv`: a task has a connection only where it uses or closes it
   (`ClaimsAreUsed`); a path that was lost stays down (`LostPathIsDown`); the cleanup of an
   open has emptied the session's place in `_tunnels`, and so has whatever precedes
   recovery (`TunnelIsDown`), hence what they put there replaces nothing.
 - `ConnectionsHaveOwners`: if what is asked of hosts and connections works (`SteadyFaults`:
   losses once served, lost replies, aliases that go, reused pids, crashes), none of the
   three happens and `ConnectionsAreOwned` holds. That a cleanup is then not cut short needs
   `SteadyInv`: an open cleans up only because a close cancelled it, and that close is
   awaiting it (`CleanupIsAsked`); which in turn needs that no open fails by itself, hence
   that its editor is up at every await after session-start (`EditorIsUp`). TLC checked
   `SteadyInv` with three of these faults per behaviour (634k states). Finding 3 is the
   same statement with one SSH failure.

**Presence** (`PresenceProofs`). `PresenceTypes`; `NothingIsLeft`: a session that gave its
slot back leaves no count and no live timer; `CountIsExact`: the count is the number
of proxied clients; `AttendedSessionsStay`: no grace watcher closes a ready session
with clients. The last two need, while the row is `ready`: nobody is past
`mark_stopping` and the session is owned and registered (`Undisturbed`); a grace
watcher that is not cancelled is the one in `_grace_timers` and the count is zero
(`OneTimer`); and the count's exactness, which the two theorems then state apart.
They assume `"dial" \notin Faults`, since
finding 4 shows them false otherwise.

**Remote helper** (`RemoteHelperProofs`). `HelperInv` relates the script's program counters to
the record and the processes: the launch happens once and the record follows it
(`LaunchInv`); another process with the pid means that the group is empty, and that it
looks like the editor only on another boot (`LeaderInv`); a group read as the
editor's own stays so, and from the identity on, the record of a living editor is whole
and of this boot (`GroupInv`); a stop past its comparison has the editor's pid
(`SignalInv`). From it `StopSignalsEditor`, `StopIsRight`, `RecordIsRight` follow state
by state, for any number of calls and reboots. `HelperImplementsEditor` is the refinement:
`EditorStep` lists the pairs of states a step may connect, each action is shown to
connect one of them, and each pair to be a step of `RemoteEditor`. The invariant is
needed there: a `reused` pid becomes `dead`, not `orphan`, because its group is empty.
`HelperTypes` is the type invariant, and so are `AccessTypes` and `FilesTypes` below.

**Access** (`SshConnectionProofs`). `AccessInv`: a request past its comparison carries a key
that was shown, what an attempt remembers of known_hosts was shown, and a chain is
open only beside an attempt. `TrustIsShown`, `ReplacesOnRequest` and `ChainsClose` follow,
for any sets of sessions, hosts, keys and requests and any routes.

**Files** (`GatewayFilesProofs`). `FilesInv`: a process past the lock holds it; at most one
key request is inside the lock, and how far it is says which of the two files are its
own; outside, the slot is consistent; the snapshot is the file's but after a late
failure. From it `OneWriterHolds`, `RowsTellTruth`, `KeysAreNotReplaced`, `CatalogIsCurrent`
and `SavesAreNotLost`.

`RoutesAreSafe`: no route comes to a host twice or is too long, even when the config is
replaced in the middle of the walk; if it was not, the walk lists exactly the hosts
that the lists lead to, each list in its order before its host, and refuses only a
config with a repetition, a way back, or too many jumps. `RouteInv` follows the
recursion as a stack:

 - `RouteShape`, whatever is saved: the hosts on the stack and those listed are the
   jumps counted and the alias, each once. This is all that a walk whose config changes
   under it can keep, and it bounds the route.
 - `RouteRead`, while no save fell in: the names read so far are a tree below the alias;
   each list is among the hops, in its order, up to where the walk stands in it. When
   the stack is empty the hops are closed under the lists, hence all that can be reached.
 - `RouteDone`, and for a refusal that the next name is one already counted, or one too
   many.

The steps of `_resolve_route` push, advance and pop the stack; each is shown to keep
every part, over lemmas on positions in a sequence that gets one element more.

Every safety property that a passing run checks, invariant or action property, is stated
by a theorem. Only model-checked: liveness (`ClosesEnd`, `OpensEnd`, `RequestsEnd`,
`UnattendedEnds`) and deadlock freedom, since fairness and ENABLED are outside the prover's
reach.

## 6. Not modelled, and why

 - HTTP relaying, header filtering, streaming and rendering: input and output without
   decisions the rest depends on.
 - The installation of the runtime (`ensure_installed`, runtime-install): files whose
   content the remote helper checks; two concurrent installations share temporary
   paths (a hazard in `PROJECT.json`), and no document says what they promise.
 - The upload of the helper, capabilities and session-list: they change no session.
 - `stage`, messages, timestamps: display data.
 - The syntax of configs, of ProxyJump values and of uploaded keys: a text that is
   refused changes nothing, one that is accepted is a value.
 - The login throttle (`auth.py`): a counter per address with no await in it, which a
   unit test reaches; password hashing and cookies are library calls.
 - Migrations: one transaction that SQLite applies or does not.
 - `shutdown()` as separate steps (see the crash above; the order in which lifespan
   ends services is in Lifespan); `reconcile_catalog`, which nothing calls.
 - A tunnel loss while a grace timer runs; several sessions in Presence. Closes by a
   grace watcher in SessionService: `TransientRowIsDriven` speaks of the closes of requests
   and of recovery, and finding 5 is about the others.
 - A timer replaced without being cancelled (`sessions.py:1258`) needs a disconnect counted
   without its connect, so only the run failed_websocket reaches it; `presence`, without
   that fault, does not.
 - session-remove's `rm -rf` is one step; a record half removed is not seen.
 - A commit that fails and leaves its transaction open on the shared database
   connection, for the next commit of any task to complete.
 - `CatalogTellsFile` excuses the state a late save failure leaves, until the next save or
   start; it says that nothing else separates the aliases from the file.
 - In SessionService a refused host key is the fault `trust`, a removed alias
   `alias_gone`, a failed connection `ssh`; how each comes about is in SshConnection and
   GatewayFiles, which are composed with it in words only: the product has more states
   than TLC can visit.
 - Liveness of connection attempts: each await of the code is bounded by the one
   deadline, which `Fails` and `ClosesHop` have as steps without fairness.

## 7. Plan

Done: table, lifecycle, presence; the remote helper and both sides of its seam; access
and files; a theorem for every safety property of a run. Left, in this order:

1. An abstract session (absent, opening, serving, broken, closing) with a refinement
   mapping from SessionService. `ServedInv` and `DrivenInv` are the invariants it needs.
2. `ReadyIffServed` and its two companions with `late`: the invariant of the code once an attempt
   that is timed out after its last step (`sessions.py:549`) counts as done.
3. Tunnel loss in Presence, for the timer that expires while the row is in error.
