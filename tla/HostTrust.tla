------------------------------ MODULE HostTrust ------------------------------
(***************************************************************************)
(* Host keys (host_trust.py, the trust route of routes.py and the          *)
(* pending_host_keys table of db.py): the gateway's known_hosts file, the  *)
(* challenge pending for each session, and the trust requests that move a  *)
(* key from one to the other.                                              *)
(*                                                                         *)
(* A coroutine that awaits a statement goes on after others may have run,  *)
(* so a request keeps the challenge it read; the look at the file and its  *)
(* atomic replacement are one step, with no await between them.            *)
(***************************************************************************)
CONSTANTS
  Sid,       \* sessions
  Host,      \* endpoints (host and port)
  Key,       \* host public keys, with their algorithm
  Request,   \* trust requests at work at a time
  None       \* no key

ASSUME NoKeyAssumption == None \notin Key

VARIABLES
  rows,       \* sessions that have a row
  known,      \* known_hosts: the entry of each endpoint
  pending,    \* pending_host_keys: the challenge of each session
  request,    \* what each trust request has come to
  shown       \* history: the host keys ever put in a challenge

trustVars == <<rows, known, pending, request, shown>>

Challenge == [host: Host, key: Key]
NoChallenge == [host |-> None, key |-> None]

\* The body of a request, and the statement or step it comes to next.
Body == [sid: Sid, host: Host, key: Key, replace: BOOLEAN]
NoRequest == [pc |-> "idle"]
RequestState == {NoRequest} \cup [pc: {"write", "clear"}, body: Body]

\* _is_known_host, _existing_entry_lines.
IsKnown(h) == known[h] # None

\* upsert_pending_host_key; without the session's row the foreign key fails.
RecordChallenge(s, h, k) ==
  /\ pending' = [pending EXCEPT ![s] = [host |-> h, key |-> k]]
  /\ shown' = shown \cup {[host |-> h, key |-> k]}

\* A mutant: a cleared challenge keeps its key.
ClearsHostOnly(s) == pending' = [pending EXCEPT ![s].host = None]

\* delete_pending_host_key: by session, whatever the challenge is by now.
ClearChallenge(s) == pending' = [pending EXCEPT ![s] = NoChallenge]

-----------------------------------------------------------------------------
RequestAt(r, pc) == request[r].pc = pc
RequestGoes(r, pc) == request' = [request EXCEPT ![r].pc = pc]
RequestEnds(r) == request' = [request EXCEPT ![r] = NoRequest]

\* A mutant: the submitted key is not compared.
SameEndpoint(b) == pending[b.sid].host = b.host

\* Does the body name exactly the pending challenge?
MatchesPending(b) == pending[b.sid] = [host |-> b.host, key |-> b.key]

\* A client submits anything for the session of an alias, and trust() reads the
\* session's challenge.  A body that is not the challenge is refused; the route
\* has read it once before, and what it refuses is refused here.
Submits(r) ==
  /\ RequestAt(r, "idle")
  /\ \E b \in Body :
       /\ b.sid \in rows /\ MatchesPending(b)
       /\ request' = [request EXCEPT ![r] = [pc |-> "write", body |-> b]]
  /\ UNCHANGED <<rows, known, pending, shown>>

\* A mutant: an entry of the host is always replaced.
AlwaysAllowed(b) == TRUE

\* An entry of the host is only replaced on request.
WriteAllowed(b) == ~IsKnown(b.host) \/ b.replace

Writes(r) ==
  /\ RequestAt(r, "write")
  /\ LET b == request[r].body IN
     IF WriteAllowed(b)
     THEN known' = [known EXCEPT ![b.host] = b.key] /\ RequestGoes(r, "clear")
     ELSE UNCHANGED known /\ RequestEnds(r)
  /\ UNCHANGED <<rows, pending, shown>>

Clears(r) ==
  /\ RequestAt(r, "clear")
  /\ ClearChallenge(request[r].body.sid) /\ RequestEnds(r)
  /\ UNCHANGED <<rows, known, shown>>

TrustStep(r) == Submits(r) \/ Writes(r) \/ Clears(r)

\* DELETE FROM sessions takes the challenge with it (ON DELETE CASCADE).
SessionDeleted(s) ==
  /\ s \in rows /\ rows' = rows \ {s}
  /\ ClearChallenge(s)
  /\ UNCHANGED <<known, request, shown>>

TrustInit ==
  /\ rows = Sid
  /\ known = [h \in Host |-> None]
  /\ pending = [s \in Sid |-> NoChallenge]
  /\ request = [r \in Request |-> NoRequest]
  /\ shown = {}

TrustTypeOK ==
  /\ rows \subseteq Sid
  /\ known \in [Host -> Key \cup {None}]
  /\ pending \in [Sid -> Challenge \cup {NoChallenge}]
  /\ request \in [Request -> RequestState]
  /\ shown \subseteq Challenge

=============================================================================
