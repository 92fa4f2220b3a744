---------------------------- MODULE RemoteHelper ----------------------------
(***************************************************************************)
(* remote/gateway-helper-v1.sh at work on one session of one SSH host:     *)
(* session-start, which the gateway calls once per session id, and any     *)
(* number of session-stop, session-inspect and session-remove calls, which *)
(* may run beside it and beside each other (a start or a stop given up by  *)
(* the gateway's timeout goes on on the host).                             *)
(*                                                                         *)
(* The editor is a launch script (the leader, whose pid the helper keeps)  *)
(* and the node process it spawns, in one process group once setsid has    *)
(* run.  The helper is modelled command by command where another process   *)
(* can step in between; it runs under "set -e".                            *)
(*                                                                         *)
(* Assumed of the host: a pid is free for another process only when its    *)
(* group is empty, and is not taken while session-start runs or between a  *)
(* stop's comparison and its last signal; a reboot keeps the files.  A     *)
(* process of another user is nobody to "kill -0", and nobody here.        *)
(***************************************************************************)
EXTENDS Naturals

CONSTANTS
  Session,    \* the session id
  Call,       \* helper calls at work at a time, session-start aside
  MaxBoots    \* reboots of the host (bound)

ASSUME MaxBootsAssumption == MaxBoots \in Nat

VARIABLES
  boot,      \* the kernel's boot id
  dir,       \* does the session directory exist?
  files,     \* how many of the record's files are written, in their order
  recorded,  \* the boot and the identity they hold
  leader,    \* the process with the editor's pid
  node,      \* the editor's node process
  bound,     \* has the editor logged the port it listens on?
  start,     \* where session-start is
  pgid,      \* the process group session-start read is the editor's own
  call,      \* where each of the other calls is
  absent     \* what the gateway was told of the editor's absence

process == <<leader, node, bound>>
record == <<dir, files, recorded>>
vars == <<boot, record, process, start, pgid, call, absent>>

\* pid, port, boot_id, proc_start_id, executable, process_group_id
RecordFiles == 6

\* A process: whose it is, whether it leads the group of its pid, and whether
\* its start time, executable and group are those of the editor.
Process == [who: {"nobody", "editor", "other"}, leads: BOOLEAN, alike: BOOLEAN]
NoProcess == [who |-> "nobody", leads |-> FALSE, alike |-> FALSE]
Launched == [who |-> "editor", leads |-> FALSE, alike |-> TRUE]

Alive == leader.who # "nobody"                \* kill -0 $pid
EditorAlive == leader.who = "editor"
GroupAlive == leader.leads \/ node = "up"     \* kill -0 -- -$process_group_id

StartPc == {"idle", "find", "group", "slept", "port", "identity", "writing",
            "done", "failed"}
CallPc == {"idle", "look", "compare", "term", "wait", "kill", "check", "inspect",
           "remove"}

Starting == start \notin {"idle", "done", "failed"}

-----------------------------------------------------------------------------
(* session-start *)
StartGoes(from, to) == start = from /\ start' = to

\* A mutant: session-start is called again once it has answered.
StartsAgain ==
  /\ start \in {"idle", "done"} /\ start' = "find" /\ dir' = TRUE
  /\ UNCHANGED <<boot, files, recorded, process, pgid, call, absent>>

MakesDirectory ==
  /\ StartGoes("idle", "find") /\ dir' = TRUE
  /\ UNCHANGED <<boot, files, recorded, process, pgid, call, absent>>

\* No runtime is found, or the editor is launched in the background.
NoRuntime ==
  /\ StartGoes("find", "failed")
  /\ UNCHANGED <<boot, record, process, pgid, call, absent>>

Launches ==
  /\ StartGoes("find", "group") /\ leader' = Launched
  /\ UNCHANGED <<boot, record, node, bound, pgid, call, absent>>

\* The group is read at once, maybe before the child has run setsid.
ReadsGroup ==
  /\ StartGoes("group", "slept") /\ pgid' = (EditorAlive /\ leader.leads)
  /\ UNCHANGED <<boot, record, process, call, absent>>

\* A mutant: the group that was read is not looked at.
OnlyAlive == EditorAlive

LaunchHeld == EditorAlive /\ pgid

LaunchSucceeds ==
  /\ LaunchHeld /\ StartGoes("slept", "port")
  /\ UNCHANGED <<boot, record, process, pgid, call, absent>>

\* The leader gets a TERM, which it may ignore.
LaunchFails ==
  /\ ~LaunchHeld /\ StartGoes("slept", "failed")
  /\ leader' \in {leader, NoProcess}
  /\ UNCHANGED <<boot, record, node, bound, pgid, call, absent>>

\* Ten seconds of looking for the port, in the sockets and the server's log.  The
\* patterns for the sockets also match listeners of other processes.
FindsPort ==
  /\ StartGoes("port", "identity")
  /\ UNCHANGED <<boot, record, process, pgid, call, absent>>

\* A TERM to the group of the recorded pid, which its members may ignore.
GroupSignalled ==
  /\ leader' \in {leader} \cup (IF leader.leads THEN {NoProcess} ELSE {})
  /\ node' \in {node} \cup (IF node = "up" THEN {"gone"} ELSE {})
  /\ UNCHANGED bound

FindsNoPort ==
  /\ ~bound /\ StartGoes("port", "failed") /\ GroupSignalled
  /\ UNCHANGED <<boot, record, pgid, call, absent>>

\* Boot id, start time and executable are read before a file is written; of a
\* leader that is gone they say nothing.  The group is the one read at launch.
ReadsIdentity ==
  /\ StartGoes("identity", "writing")
  /\ recorded' = [boot |-> boot, whole |-> EditorAlive /\ pgid]
  /\ UNCHANGED <<boot, dir, files, process, pgid, call, absent>>

\* A mutant: the answer comes one file too late.
WritesOneMore ==
  /\ start = "writing" /\ dir
  /\ files' = files + 1
  /\ start' = IF files = RecordFiles THEN "done" ELSE start
  /\ UNCHANGED <<boot, dir, recorded, process, pgid, call, absent>>

\* One file after the other; the answer is printed after the last one.
WritesFile ==
  /\ start = "writing" /\ dir
  /\ files' = files + 1
  /\ start' = IF files' = RecordFiles THEN "done" ELSE start
  /\ UNCHANGED <<boot, dir, recorded, process, pgid, call, absent>>

\* The directory was removed meanwhile: the script ends, the editor does not.
CannotWrite ==
  /\ ~dir /\ StartGoes("writing", "failed")
  /\ UNCHANGED <<boot, record, process, pgid, call, absent>>

-----------------------------------------------------------------------------
(* session-stop, session-inspect, session-remove *)
CallGoes(c, from, to) == call[c] = from /\ call' = [call EXCEPT ![c] = to]

Told(answer) == absent' = IF absent = "confirmed" THEN absent ELSE answer

Answers(c, from, answer) == CallGoes(c, from, "idle") /\ Told(answer)

\* The gateway removes a session once it was told that the editor is gone.
Begins(c) ==
  /\ \/ CallGoes(c, "idle", "look")
     \/ CallGoes(c, "idle", "inspect")
     \/ absent # "unknown" /\ CallGoes(c, "idle", "remove")
  /\ UNCHANGED <<boot, record, process, start, pgid, absent>>

\* Is a pid recorded, and is a process alive with it?
PidIsAlive == files > 0 /\ Alive

\* absent, no_pid and already_dead: stopped.
StopLooks(c) ==
  /\ \/ PidIsAlive /\ CallGoes(c, "look", "compare") /\ UNCHANGED absent
     \/ ~PidIsAlive /\ Answers(c, "look", "reported")
  /\ UNCHANGED <<boot, record, process, start, pgid>>

\* A mutant: the boot id is not compared.
MatchesOfAnyBoot == files >= RecordFiles - 1 /\ recorded.whole /\ leader.alike

\* A record without its last file takes the group from the process.
Matches ==
  /\ files >= RecordFiles - 1 /\ recorded.whole
  /\ recorded.boot = boot /\ leader.alike

\* A mismatch is answered by a refusal, identity_conflict.
StopCompares(c) ==
  /\ \/ Matches /\ CallGoes(c, "compare", "term") /\ UNCHANGED absent
     \/ ~Matches /\ Answers(c, "compare", "unknown")
  /\ UNCHANGED <<boot, record, process, start, pgid>>

Terminates(c) ==
  /\ CallGoes(c, "term", "wait") /\ GroupSignalled
  /\ UNCHANGED <<boot, record, start, pgid, absent>>

\* Two seconds for the group to go.
Waits(c) ==
  /\ \/ ~GroupAlive /\ CallGoes(c, "wait", "check")
     \/ GroupAlive /\ CallGoes(c, "wait", "kill")
  /\ UNCHANGED <<boot, record, process, start, pgid, absent>>

\* A KILL cannot be ignored, but its effect can be late.
Kills(c) ==
  /\ CallGoes(c, "kill", "check") /\ GroupSignalled
  /\ UNCHANGED <<boot, record, start, pgid, absent>>

\* A mutant: the leader is looked at instead of the group.
LeaderIsGone == ~Alive

GroupIsGone == ~GroupAlive

\* stopped, or stop_failed.
StopChecks(c) ==
  /\ \/ GroupIsGone /\ Answers(c, "check", "confirmed")
     \/ ~GroupIsGone /\ Answers(c, "check", "unknown")
  /\ UNCHANGED <<boot, record, process, start, pgid>>

\* running (with identity_ok true or false), or not running.
Inspects(c) ==
  /\ \/ PidIsAlive /\ Answers(c, "inspect", "unknown")
     \/ ~PidIsAlive /\ Answers(c, "inspect", "reported")
  /\ UNCHANGED <<boot, record, process, start, pgid>>

\* rm -rf, whatever is going on.
Removes(c) ==
  /\ CallGoes(c, "remove", "idle")
  /\ dir' = FALSE /\ files' = 0
  /\ UNCHANGED <<boot, recorded, process, start, pgid, absent>>

-----------------------------------------------------------------------------
(* The host (external) *)
RunsSetsid ==
  /\ EditorAlive /\ ~leader.leads
  /\ leader' = [leader EXCEPT !.leads = TRUE]
  /\ UNCHANGED <<boot, record, node, bound, start, pgid, call, absent>>

SpawnsNode ==
  /\ EditorAlive /\ leader.leads /\ node = "unborn" /\ node' = "up"
  /\ UNCHANGED <<boot, record, leader, bound, start, pgid, call, absent>>

BindsPort ==
  /\ node = "up" /\ ~bound /\ bound' = TRUE
  /\ UNCHANGED <<boot, record, leader, node, start, pgid, call, absent>>

LeaderEnds ==
  /\ Alive /\ leader' = NoProcess
  /\ UNCHANGED <<boot, record, node, bound, start, pgid, call, absent>>

NodeEnds ==
  /\ node = "up" /\ node' = "gone"
  /\ UNCHANGED <<boot, record, leader, bound, start, pgid, call, absent>>

\* Within a boot no two processes have a pid and a start time in common.
PidTaken ==
  /\ files > 0 /\ ~Alive /\ ~GroupAlive /\ ~Starting
  /\ \A c \in Call : call[c] \notin {"term", "wait", "kill", "check"}
  /\ \E leads, alike \in BOOLEAN :
       /\ alike => leads /\ recorded.boot # boot
       /\ leader' = [who |-> "other", leads |-> leads, alike |-> alike]
  /\ UNCHANGED <<boot, record, node, bound, start, pgid, call, absent>>

Reboots ==
  /\ boot < MaxBoots /\ boot' = boot + 1
  /\ leader' = NoProcess
  /\ node' = IF node = "up" THEN "gone" ELSE node
  /\ start' = IF Starting THEN "failed" ELSE start
  /\ call' = [c \in Call |-> "idle"]
  /\ UNCHANGED <<record, bound, pgid, absent>>

-----------------------------------------------------------------------------
Init ==
  /\ boot = 0 /\ dir = FALSE /\ files = 0
  /\ recorded = [boot |-> 0, whole |-> FALSE]
  /\ leader = NoProcess /\ node = "unborn" /\ bound = FALSE
  /\ start = "idle" /\ pgid = FALSE
  /\ call = [c \in Call |-> "idle"] /\ absent = "unknown"

StartStep ==
  \/ MakesDirectory \/ NoRuntime \/ Launches \/ ReadsGroup
  \/ LaunchSucceeds \/ LaunchFails \/ FindsPort \/ FindsNoPort
  \/ ReadsIdentity \/ WritesFile \/ CannotWrite

CallStep(c) ==
  \/ Begins(c) \/ StopLooks(c) \/ StopCompares(c) \/ Terminates(c) \/ Waits(c)
  \/ Kills(c) \/ StopChecks(c) \/ Inspects(c) \/ Removes(c)

HostStep ==
  \/ RunsSetsid \/ SpawnsNode \/ BindsPort \/ LeaderEnds \/ NodeEnds
  \/ PidTaken \/ Reboots

Next == StartStep \/ (\E c \in Call : CallStep(c)) \/ HostStep

Spec == Init /\ [][Next]_vars

-----------------------------------------------------------------------------
TypeOK ==
  /\ boot \in 0..MaxBoots /\ dir \in BOOLEAN /\ files \in 0..RecordFiles
  /\ recorded \in [boot: 0..MaxBoots, whole: BOOLEAN]
  /\ leader \in Process /\ node \in {"unborn", "up", "gone"} /\ bound \in BOOLEAN
  /\ start \in StartPc /\ pgid \in BOOLEAN
  /\ call \in [Call -> CallPc] /\ absent \in {"unknown", "reported", "confirmed"}

\* The editor as the gateway's calls can tell.
EditorState ==
  IF Starting THEN "starting"
  ELSE IF EditorAlive /\ start = "done" /\ dir THEN "running"
  ELSE IF EditorAlive \/ node = "up" THEN "orphan"
  ELSE IF files = 0 THEN "none"
  ELSE IF Alive THEN "reused" ELSE "dead"

remote == [s \in {Session} |-> EditorState]

\* Refinement.  Whatever helper calls run beside each other, whenever the
\* processes end and the host reboots, the editor goes through the steps the
\* session lifecycle counts on.
Machine == INSTANCE RemoteEditor WITH Sid <- {Session}
HelperIsRemoteEditor == Machine!Spec

\* session-stop never signals a process that is not the session's editor: not
\* one that took its pid, on this boot or the next, in any order of reboots,
\* pid reuse and concurrent stops.
SignalsOnlyEditor ==
  \A c \in Call : call[c] \in {"term", "kill"} => leader.who # "other"

\* A stop that signalled the editor and answered "stopped" is right for good:
\* neither its leader nor its node process runs, or will run again.
StopConfirmsAbsence == absent = "confirmed" => ~EditorAlive /\ node # "up"

\* A stop signals a running editor and nothing else: an editor whose start has
\* answered matches its record, also after calls that ran beside the start, so
\* it is not refused as a stranger; and only an editor matches.
RecordTellsEditor ==
  /\ EditorState = "running" => files = RecordFiles /\ Matches
  /\ files > 0 /\ Matches => EditorState \in {"starting", "running"}

=============================================================================
