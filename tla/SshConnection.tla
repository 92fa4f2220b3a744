---------------------------- MODULE SshConnection ----------------------------
(***************************************************************************)
(* ssh_connection.py: connect_for_session opens the chain of connections   *)
(* of a session's route, jump hosts first and the target last, each inside *)
(* the one before; composed with the trust decisions of HostTrust, which   *)
(* it reads from the known_hosts file and feeds with challenges.           *)
(*                                                                         *)
(* One deadline bounds the whole attempt.  Whatever goes wrong, and        *)
(* whoever cancels, the hops already open are closed, target first, before *)
(* the attempt ends.  AsyncSSH reads known_hosts when a hop is dialled and *)
(* compares the presented key later, when the host has answered.           *)
(***************************************************************************)
EXTENDS HostTrust, Naturals, Sequences

CONSTANTS
  Route,       \* the hops of each session's alias, as resolved from the config
  Keys         \* the keys each host presents, one after the other (bound)

ASSUME RouteAssumption == Route \in [Sid -> Seq(Host) \ {<<>>}]
ASSUME KeysAssumption == Keys \in [Host -> Seq(Key) \ {<<>>}]

VARIABLES
  age,        \* which of its keys each host presents
  attempt,    \* the connection attempt of each session
  chain       \* the open connections of each session, first jump first

sshVars == <<age, attempt, chain>>
vars == <<trustVars, sshVars>>

\* What known_hosts said when the hop was dialled, and the key that
\* _HostKeyCapturer refused.  The error an attempt ends with is left out.
AttemptPc == {"idle", "dial", "verify", "refused", "close", "open"}
NoAttempt == [pc |-> "idle", known |-> None, captured |-> None]
Attempt == [pc: AttemptPc, known: Key \cup {None}, captured: Key \cup {None}]
Goes(pc) == [NoAttempt EXCEPT !.pc = pc]

Hop == [host: Host, key: Key]

At(s, pc) == attempt[s].pc = pc
Becomes(s, a) == attempt' = [attempt EXCEPT ![s] = a]
Presents(h) == Keys[h][age[h]]
NextHop(s) == Route[s][Len(chain[s]) + 1]

-----------------------------------------------------------------------------
\* connect_for_session with a key uploaded; the route is resolved on the way to
\* the first hop.
Connects(s) ==
  /\ At(s, "idle") /\ s \in rows
  /\ Becomes(s, Goes("dial"))
  /\ UNCHANGED <<trustVars, age, chain>>

Dials(s) ==
  /\ At(s, "dial")
  /\ Becomes(s, [attempt[s] EXCEPT !.pc = "verify", !.known = known[NextHop(s)]])
  /\ UNCHANGED <<trustVars, age, chain>>

KeyIsKnown(s) == attempt[s].known = Presents(NextHop(s))

\* The hop is open; the last one makes the SshConnection.
HopOpens(s) ==
  /\ At(s, "verify") /\ KeyIsKnown(s)
  /\ LET hop == [host |-> NextHop(s), key |-> Presents(NextHop(s))] IN
     chain' = [chain EXCEPT ![s] = Append(@, hop)]
  /\ Becomes(s, Goes(IF Len(chain'[s]) = Len(Route[s]) THEN "open" ELSE "dial"))
  /\ UNCHANGED <<trustVars, age>>

\* HostKeyNotVerifiable: _record_host_key_challenge awaits its statement.
HopRefused(s) ==
  /\ At(s, "verify") /\ ~KeyIsKnown(s)
  /\ Becomes(s, [Goes("refused") EXCEPT !.captured = Presents(NextHop(s))])
  /\ UNCHANGED <<trustVars, age, chain>>

\* The challenge is stored; without the session's row the foreign key fails.
\* Either way the except BaseException clause closes the hops opened so far.
Records(s) ==
  /\ At(s, "refused")
  /\ IF s \in rows
     THEN RecordChallenge(s, NextHop(s), attempt[s].captured)
     ELSE UNCHANGED <<pending, shown>>
  /\ Becomes(s, Goes("close"))
  /\ UNCHANGED <<rows, known, request, age, chain>>

\* Resolution, network, authentication, or the deadline.
Fails(s) ==
  /\ attempt[s].pc \in {"dial", "verify", "refused"}
  /\ Becomes(s, Goes("close"))
  /\ UNCHANGED <<trustVars, age, chain>>

\* A mutant: a cancellation ends the closing of the chain.
CancelEndsClosing(s) ==
  IF At(s, "close") THEN NoAttempt ELSE Goes("close")

\* The task is cancelled at an await; _close_connection_chain swallows it.
AfterCancel(s) ==
  IF At(s, "close") THEN attempt[s] ELSE Goes("close")

Cancelled(s) ==
  /\ attempt[s].pc \in {"dial", "verify", "refused", "close"}
  /\ Becomes(s, AfterCancel(s))
  /\ UNCHANGED <<trustVars, age, chain>>

\* The chain is the session's, which closes it (SessionService models how).
Released(s) ==
  /\ At(s, "open") /\ Becomes(s, NoAttempt)
  /\ chain' = [chain EXCEPT ![s] = <<>>]
  /\ UNCHANGED <<trustVars, age>>

\* close() and at most five seconds of wait_closed, hop by hop from the target.
ClosesHop(s) ==
  /\ At(s, "close") /\ chain[s] # <<>>
  /\ chain' = [chain EXCEPT ![s] = SubSeq(@, 1, Len(@) - 1)]
  /\ UNCHANGED <<trustVars, age, attempt>>

ChainClosed(s) ==
  /\ At(s, "close") /\ chain[s] = <<>> /\ Becomes(s, NoAttempt)
  /\ UNCHANGED <<trustVars, age, chain>>

-----------------------------------------------------------------------------
(* The hosts and the machine (external) *)
Rekeys(h) ==
  /\ age[h] < Len(Keys[h]) /\ age' = [age EXCEPT ![h] = @ + 1]
  /\ UNCHANGED <<trustVars, attempt, chain>>

\* Memory is lost; rows, challenges and known_hosts are not.
Crashes ==
  /\ attempt' = [s \in Sid |-> NoAttempt]
  /\ chain' = [s \in Sid |-> <<>>]
  /\ request' = [r \in Request |-> NoRequest]
  /\ UNCHANGED <<rows, known, pending, shown, age>>

-----------------------------------------------------------------------------
Init ==
  /\ TrustInit
  /\ age = [h \in Host |-> 1]
  /\ attempt = [s \in Sid |-> NoAttempt]
  /\ chain = [s \in Sid |-> <<>>]

AttemptStep(s) ==
  \/ Connects(s) \/ Dials(s) \/ HopOpens(s) \/ HopRefused(s) \/ Records(s)
  \/ Fails(s) \/ Cancelled(s) \/ Released(s) \/ ClosesHop(s) \/ ChainClosed(s)

TrustNext == (\E r \in Request : TrustStep(r)) \/ \E s \in Sid : SessionDeleted(s)

Next ==
  \/ TrustNext /\ UNCHANGED sshVars
  \/ \E s \in Sid : AttemptStep(s)
  \/ \E h \in Host : Rekeys(h)
  \/ Crashes

Spec == Init /\ [][Next]_vars

-----------------------------------------------------------------------------
TypeOK ==
  /\ TrustTypeOK
  /\ age \in [Host -> Nat]
  /\ attempt \in [Sid -> Attempt]
  /\ chain \in [Sid -> Seq(Hop)]

\* Trust is never granted without a user: a key in known_hosts, and the key of
\* every connection that is open, was presented by that very host and shown in
\* a challenge first, whatever requests and attempts of other sessions, key
\* changes and crashes come between the challenge, the answer and the use.
OnlyShownKeys ==
  /\ \A h \in Host : IsKnown(h) => [host |-> h, key |-> known[h]] \in shown
  /\ \A s \in Sid : \A i \in 1..Len(chain[s]) : chain[s][i] \in shown

\* A recorded key is only replaced by a request that says so, although requests
\* of other sessions through the same jump host are under way.
NoSilentReplace ==
  [][\A h \in Host : IsKnown(h) /\ known'[h] # known[h] =>
       \E r \in Request : /\ RequestAt(r, "write") /\ request[r].body.host = h
                          /\ request[r].body.replace]_vars

\* An attempt that has ended without a connection has closed every hop it had
\* opened, wherever it failed and whenever it was cancelled.
ChainsAreClosed == \A s \in Sid : At(s, "idle") => chain[s] = <<>>

=============================================================================
