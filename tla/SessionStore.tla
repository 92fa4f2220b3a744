---------------------------- MODULE SessionStore ----------------------------
(***************************************************************************)
(* The durable session table of src/vscode_gateway/db.py and               *)
(* migrations/001: one row per session, written by single SQL statements.  *)
(* aiosqlite runs the statements of all tasks on one thread, in the order  *)
(* they are issued, and every writer commits before it returns, so each    *)
(* writer is one atomic action here.                                       *)
(*                                                                         *)
(* A row keeps the columns the lifecycle reads.  The five remote identity  *)
(* columns are written and cleared together and are one flag; stage,       *)
(* presence and time columns are display data.                             *)
(***************************************************************************)

CONSTANTS
  Sid,      \* session ids (uuid4 values)
  Alias,    \* workspace aliases of the SSH catalog
  None      \* Python's None: no alias, no session, no connection

ASSUME NoneAssumption == None \notin Alias \cup Sid

VARIABLE row   \* the sessions table

ErrorCode == {"none", "pre_remote", "internal", "tunnel_lost",
              "recovery_failed", "stop_failed", "other"}

LiveState == {"starting", "ready", "stopping", "error"}

\* "closed" is the absence of a row.
NoRow == [alias |-> None, state |-> "closed", close_reason |-> FALSE,
          error_code |-> "none", identity |-> FALSE, local_port |-> FALSE]

LiveRow == [alias: Alias, state: LiveState, close_reason: BOOLEAN,
            error_code: ErrorCode, identity: BOOLEAN, local_port: BOOLEAN]

Row == {NoRow} \cup LiveRow

Exists(s) == row[s].state # "closed"

\* get_session_by_alias: the session holding the alias, if any.
RowsOf(a) == {s \in Sid : Exists(s) /\ row[s].alias = a}

NewRow(a) == [NoRow EXCEPT !.alias = a, !.state = "starting"]

\* UPDATE ... WHERE id = s: nothing happens when the row is gone.
Update(s, new) == row' = IF Exists(s) THEN [row EXCEPT ![s] = new] ELSE row

-----------------------------------------------------------------------------
\* alias is UNIQUE: an insert for a taken alias fails and changes nothing.
Insert(s, a) ==
  /\ ~Exists(s)
  /\ RowsOf(a) = {}
  /\ row' = [row EXCEPT ![s] = NewRow(a)]

SetRemoteIdentity(s) == Update(s, [row[s] EXCEPT !.identity = TRUE])

SetTunnelIdentity(s) == Update(s, [row[s] EXCEPT !.local_port = TRUE])

ClearRemoteIdentity(s) == Update(s, [row[s] EXCEPT !.identity = FALSE])

ClearTunnelIdentity(s) == Update(s, [row[s] EXCEPT !.local_port = FALSE])

\* A mutant: the statements do not look for a recorded close request.
UnguardedRecoverable(s) == row[s].state \in {"starting", "ready", "error"}

\* The WHERE clause shared by the two recovery statements.
Recoverable(s) ==
  /\ row[s].state \in {"starting", "ready", "error"}
  /\ ~row[s].close_reason

BeginRecovery(s) ==
  row' = IF Recoverable(s) THEN [row EXCEPT ![s].local_port = FALSE] ELSE row

CompleteRecovery(s) ==
  row' = IF Recoverable(s)
         THEN [row EXCEPT ![s].state = "ready", ![s].identity = TRUE,
                          ![s].local_port = TRUE, ![s].error_code = "none"]
         ELSE row

\* A mutant: no compare-and-set on the state.
UnguardedMarkReady(s) == Update(s, [row[s] EXCEPT !.state = "ready"])

MarkReady(s) ==
  row' = IF row[s].state = "starting" THEN [row EXCEPT ![s].state = "ready"]
                                      ELSE row

MarkStopping(s) ==
  Update(s, [row[s] EXCEPT !.state = "stopping", !.close_reason = TRUE])

\* A mutant: the state is none of the table's.
MisspeltMarkError(s, code) ==
  Update(s, [row[s] EXCEPT !.state = "failed", !.error_code = code])

MarkError(s, code) ==
  Update(s, [row[s] EXCEPT !.state = "error", !.error_code = code])

Delete(s) == row' = [row EXCEPT ![s] = NoRow]

-----------------------------------------------------------------------------
StoreInit == row = [s \in Sid |-> NoRow]

\* Any statement any task may issue.
Statement(s) ==
  \/ \E a \in Alias : Insert(s, a)
  \/ SetRemoteIdentity(s) \/ ClearRemoteIdentity(s)
  \/ SetTunnelIdentity(s) \/ ClearTunnelIdentity(s)
  \/ BeginRecovery(s) \/ CompleteRecovery(s)
  \/ MarkReady(s) \/ MarkStopping(s)
  \/ \E code \in ErrorCode : MarkError(s, code)
  \/ Delete(s)

StoreNext == \E s \in Sid : Statement(s)

StoreSpec == StoreInit /\ [][StoreNext]_row

-----------------------------------------------------------------------------
\* Rows are records of the columns' types.
StoreTypeOK == row \in [Sid -> Row]

\* One active session per alias (the UNIQUE index).
OneRowPerAlias ==
  \A s, u \in Sid : Exists(s) /\ Exists(u) /\ row[s].alias = row[u].alias => s = u

\* A recorded close request keeps its row out of the states a reader serves.
ClosingRowIsDown ==
  \A s \in Sid : row[s].close_reason => row[s].state \in {"stopping", "error"}

\* Close intent is final ("preventing recovery from overriding close intent"):
\* once a close reason is recorded no statement of any task withdraws it or
\* makes the session starting or ready again; only deletion ends the row.
CloseIntentIsFinal ==
  [][\A s \in Sid : row[s].close_reason =>
        \/ row'[s] = NoRow
        \/ row'[s].close_reason /\ row'[s].state \in {"stopping", "error"}]_row

=============================================================================
