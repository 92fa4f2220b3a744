---------------------------- MODULE RemoteEditor ----------------------------
(***************************************************************************)
(* What the gateway may believe of the editor of one session on its SSH    *)
(* host: the states the answers of the remote helper tell apart and the    *)
(* steps between them.  The helper script implements this machine          *)
(* (RemoteHelper) and the session lifecycle is written against it          *)
(* (SessionService); each is checked to.                                   *)
(*                                                                         *)
(*   none      no editor and no record of one                              *)
(*   starting  session-start is at work: the editor may run, unrecorded    *)
(*   running   the recorded editor runs: inspect finds it, stop stops it   *)
(*   dead      recorded, and no process has the recorded pid               *)
(*   reused    recorded, and another process has the recorded pid          *)
(*   orphan    a process of the editor runs that no helper call can find   *)
(***************************************************************************)

CONSTANT Sid      \* sessions with an editor on a host

VARIABLE remote   \* the state of the editor of each

RemoteState == {"none", "starting", "running", "dead", "reused", "orphan"}

Init == remote = [s \in Sid |-> "none"]

Becomes(s, from, to) ==
  /\ remote[s] \in from
  /\ \E state \in to : remote' = [remote EXCEPT ![s] = state]

\* session-start begins, and ends with the record written or without it.  A
\* reboot may interrupt it after it wrote the pid.
Starts(s) == Becomes(s, {"none"}, {"starting"})
Records(s) == Becomes(s, {"starting"}, {"running"})
StartFails(s) == Becomes(s, {"starting"}, {"none", "dead", "orphan"})

\* The recorded process ends, by itself or stopped; children may outlive it.
Ends(s) == Becomes(s, {"running", "orphan"}, {"dead", "orphan", "none"})

\* Another process takes the recorded pid, and ends.
PidTaken(s) == Becomes(s, {"dead"}, {"reused"})
PidFreed(s) == Becomes(s, {"reused"}, {"dead"})

\* session-remove forgets the record, of a running editor too.
Removes(s) == Becomes(s, {"dead", "reused", "running"}, {"none", "orphan"})

Next ==
  \E s \in Sid : \/ Starts(s) \/ Records(s) \/ StartFails(s) \/ Ends(s)
                \/ PidTaken(s) \/ PidFreed(s) \/ Removes(s)

Spec == Init /\ [][Next]_remote

=============================================================================
