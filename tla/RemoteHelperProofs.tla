------------------------- MODULE RemoteHelperProofs -------------------------
(***************************************************************************)
(* Theorems about RemoteHelper, for any number of concurrent calls and     *)
(* reboots: the safety of session-stop, and that the script implements     *)
(* RemoteEditor.  HelperInv says what the script's variables, the record   *)
(* on disk and the processes have to do with each other.                   *)
(***************************************************************************)
EXTENDS RemoteHelper, TLAPS

Signalling == {"term", "wait", "kill", "check"}

\* The launch happens once, and the record follows it.
LaunchInv ==
  /\ start \in {"idle", "find"} => leader = NoProcess /\ node = "unborn"
  /\ files > 0 => dir /\ start \in {"writing", "done", "failed"}
  /\ start = "writing" => files < RecordFiles
  /\ dir /\ start = "done" => files = RecordFiles
  /\ start = "failed" /\ files > 0 => ~EditorAlive

\* Who may have the editor's pid.
LeaderInv ==
  /\ leader.who = "nobody" => leader = NoProcess
  /\ EditorAlive => leader.alike
  /\ leader.who = "other" => start \in {"done", "failed"} /\ node # "up"
  /\ leader.who = "other" /\ leader.alike => recorded.boot # boot

\* What the group that was read at launch, and the record, say of the editor.
GroupInv ==
  /\ pgid => start \notin {"idle", "find", "group"} /\ (EditorAlive => leader.leads)
  /\ start \in {"port", "identity", "writing", "done"} => pgid
  /\ recorded.whole => pgid
  /\ start \in {"writing", "done"} /\ EditorAlive => recorded.whole /\ recorded.boot = boot

\* A stop that has compared goes on with the editor's own group.
SignalInv == \A c \in Call : call[c] \in Signalling => pgid /\ leader.who # "other"

AbsenceInv == absent = "confirmed" => pgid /\ ~EditorAlive /\ node # "up"

HelperInv == TypeOK /\ LaunchInv /\ LeaderInv /\ GroupInv /\ SignalInv /\ AbsenceInv

-----------------------------------------------------------------------------
(* Every step keeps the invariant *)

\* session-start, command by command.
LEMMA StartStepKeeps ==
  ASSUME HelperInv, StartStep
  PROVE  HelperInv'
<1> USE MaxBootsAssumption
    DEF HelperInv, TypeOK, LaunchInv, LeaderInv, GroupInv, SignalInv, AbsenceInv,
        Signalling, StartPc, CallPc, Process, NoProcess, RecordFiles, EditorAlive, Alive,
        process, record,
        Launched, Starting, StartGoes, LaunchHeld, GroupSignalled
<1>1. CASE MakesDirectory
  BY <1>1 DEF MakesDirectory
<1>2. CASE NoRuntime
  BY <1>2 DEF NoRuntime
<1>3. CASE Launches
  BY <1>3 DEF Launches
<1>4. CASE ReadsGroup
  BY <1>4 DEF ReadsGroup
<1>5. CASE LaunchSucceeds
  BY <1>5 DEF LaunchSucceeds
<1>6. CASE LaunchFails
  <2>1. CASE leader' = leader
    BY <1>6, <2>1 DEF LaunchFails
  <2>2. CASE leader' = NoProcess
    BY <1>6, <2>2 DEF LaunchFails
  <2> QED
    BY <1>6, <2>1, <2>2 DEF LaunchFails
<1>7. CASE FindsPort
  BY <1>7 DEF FindsPort
<1>8. CASE FindsNoPort
  <2>1. leader' = leader \/ leader' = NoProcess
    BY <1>8 DEF FindsNoPort
  <2>2. node' = node \/ (node = "up" /\ node' = "gone")
    BY <1>8 DEF FindsNoPort
  <2>3. CASE leader' = leader
    BY <1>8, <2>2, <2>3 DEF FindsNoPort
  <2>4. CASE leader' = NoProcess
    BY <1>8, <2>2, <2>4 DEF FindsNoPort
  <2> QED
    BY <2>1, <2>3, <2>4
<1>9. CASE ReadsIdentity
  BY <1>9 DEF ReadsIdentity
<1>10. CASE WritesFile
  BY <1>10 DEF WritesFile
<1>11. CASE CannotWrite
  BY <1>11 DEF CannotWrite
<1> QED
  BY <1>1, <1>2, <1>3, <1>4, <1>5, <1>6, <1>7, <1>8, <1>9, <1>10, <1>11 DEF StartStep

\* The other calls.
LEMMA CallStepKeeps ==
  ASSUME HelperInv, NEW c \in Call, CallStep(c)
  PROVE  HelperInv'
<1> USE MaxBootsAssumption
    DEF HelperInv, TypeOK, LaunchInv, LeaderInv, GroupInv, SignalInv, AbsenceInv,
        Signalling, StartPc, CallPc, Process, NoProcess, RecordFiles, EditorAlive, Alive,
        process, record,
        GroupAlive, CallGoes, Told, Answers, GroupSignalled, PidIsAlive, Matches, GroupIsGone
<1>1. CASE Begins(c)
  BY <1>1 DEF Begins
<1>2. CASE StopLooks(c)
  BY <1>2 DEF StopLooks
<1>3. CASE StopCompares(c)
  BY <1>3 DEF StopCompares
<1>4. CASE Terminates(c)
  <2>1. leader' = leader \/ leader' = NoProcess
    BY <1>4 DEF Terminates
  <2>2. node' = node \/ (node = "up" /\ node' = "gone")
    BY <1>4 DEF Terminates
  <2>3. CASE leader' = leader
    BY <1>4, <2>2, <2>3 DEF Terminates
  <2>4. CASE leader' = NoProcess
    BY <1>4, <2>2, <2>4 DEF Terminates
  <2> QED
    BY <2>1, <2>3, <2>4
<1>5. CASE Waits(c)
  BY <1>5 DEF Waits
<1>6. CASE Kills(c)
  <2>1. leader' = leader \/ leader' = NoProcess
    BY <1>6 DEF Kills
  <2>2. node' = node \/ (node = "up" /\ node' = "gone")
    BY <1>6 DEF Kills
  <2>3. CASE leader' = leader
    BY <1>6, <2>2, <2>3 DEF Kills
  <2>4. CASE leader' = NoProcess
    BY <1>6, <2>2, <2>4 DEF Kills
  <2> QED
    BY <2>1, <2>3, <2>4
<1>7. CASE StopChecks(c)
  BY <1>7 DEF StopChecks
<1>8. CASE Inspects(c)
  BY <1>8 DEF Inspects
<1>9. CASE Removes(c)
  <2>0. /\ UNCHANGED <<boot, recorded, process, start, pgid, absent>>
        /\ dir' = FALSE /\ files' = 0 /\ call' \in [Call -> CallPc]
    BY <1>9, SMT DEF Removes, CallGoes
  <2>1. TypeOK'
    <3>1. dir' \in BOOLEAN
      BY <2>0, Zenon
    <3>2. files' \in 0..RecordFiles
      BY <2>0
    <3> QED
      BY <2>0, <3>1, <3>2, Zenon
  <2>4. LaunchInv'
    <3>1. ~dir' /\ files' = 0 /\ UNCHANGED <<process, start>>
      BY <1>9 DEF Removes
    <3> QED
      BY <3>1
  <2>2. LeaderInv' /\ GroupInv'
    BY <1>9 DEF Removes
  <2>3. SignalInv' /\ AbsenceInv'
    BY <1>9 DEF Removes
  <2> QED
    BY <2>1, <2>2, <2>3, <2>4
<1> QED
  BY <1>1, <1>2, <1>3, <1>4, <1>5, <1>6, <1>7, <1>8, <1>9 DEF CallStep

\* Processes that come and go, and reboots.
LEMMA HostStepKeeps ==
  ASSUME HelperInv, HostStep
  PROVE  HelperInv'
<1> USE MaxBootsAssumption
    DEF HelperInv, TypeOK, LaunchInv, LeaderInv, GroupInv, SignalInv, AbsenceInv,
        Signalling, StartPc, CallPc, Process, NoProcess, RecordFiles, EditorAlive, Alive,
        process, record,
        GroupAlive, Starting
<1>1. CASE RunsSetsid
  <2>1. leader' = [who |-> "editor", leads |-> TRUE, alike |-> TRUE]
    BY <1>1 DEF RunsSetsid
  <2>2. TypeOK'
    BY <1>1, <2>1 DEF RunsSetsid
  <2>3. leader.who = "editor" /\ leader.alike
    BY <1>1 DEF RunsSetsid
  <2>4. LaunchInv' /\ LeaderInv'
    BY <1>1, <2>1, <2>3 DEF RunsSetsid
  <2>5. GroupInv' /\ SignalInv' /\ AbsenceInv'
    BY <1>1, <2>1, <2>3 DEF RunsSetsid
  <2> QED
    BY <2>2, <2>4, <2>5
<1>2. CASE SpawnsNode
  BY <1>2 DEF SpawnsNode
<1>3. CASE BindsPort
  BY <1>3 DEF BindsPort
<1>4. CASE LeaderEnds
  BY <1>4 DEF LeaderEnds
<1>5. CASE NodeEnds
  BY <1>5 DEF NodeEnds
<1>6. CASE PidTaken
  BY <1>6 DEF PidTaken
<1>7. CASE Reboots
  BY <1>7 DEF Reboots
<1> QED
  BY <1>1, <1>2, <1>3, <1>4, <1>5, <1>6, <1>7 DEF HostStep

LEMMA NextKeeps ==
  ASSUME HelperInv, [Next]_vars
  PROVE  HelperInv'
<1>1. CASE StartStep
  BY <1>1, StartStepKeeps
<1>2. CASE \E c \in Call : CallStep(c)
  BY <1>2, CallStepKeeps
<1>3. CASE HostStep
  BY <1>3, HostStepKeeps
<1>4. CASE UNCHANGED vars
  BY <1>4
     DEF vars, record, process, HelperInv, TypeOK, LaunchInv, LeaderInv, GroupInv, SignalInv,
         AbsenceInv, EditorAlive
<1> QED
  BY <1>1, <1>2, <1>3, <1>4 DEF Next

\* session-start, the stops beside it, the record and the processes agree in
\* every reachable state; the theorems below are read off this invariant.
THEOREM HelperInvariant == Spec => []HelperInv
<1>1. Init => HelperInv
  <2> SUFFICES ASSUME Init
               PROVE  HelperInv
    OBVIOUS
  <2>1. dir \in BOOLEAN /\ bound \in BOOLEAN /\ pgid \in BOOLEAN
    BY Zenon DEF Init
  <2>2. boot \in 0..MaxBoots /\ files \in 0..RecordFiles
    BY MaxBootsAssumption DEF Init, RecordFiles
  <2>3. recorded \in [boot: 0..MaxBoots, whole: BOOLEAN] /\ leader \in Process
    BY MaxBootsAssumption DEF Init, Process, NoProcess
  <2>4. call \in [Call -> CallPc]
    BY DEF Init, CallPc
  <2>5. TypeOK
    BY <2>1, <2>2, <2>3, <2>4, Zenon DEF Init, TypeOK, StartPc
  <2>6. LaunchInv /\ LeaderInv /\ GroupInv
    BY DEF Init, LaunchInv, LeaderInv, GroupInv, NoProcess, EditorAlive, RecordFiles
  <2>7. SignalInv /\ AbsenceInv
    BY DEF Init, SignalInv, AbsenceInv, Signalling, EditorAlive, NoProcess
  <2> QED
    BY <2>5, <2>6, <2>7 DEF HelperInv
<1>2. HelperInv /\ [Next]_vars => HelperInv'
  BY NextKeeps
<1> QED
  BY <1>1, <1>2, PTL DEF Spec

\* The helper's variables stay in their types: the record never has more files
\* than session-start writes.
THEOREM HelperTypes == Spec => []TypeOK
<1>1. HelperInv => TypeOK
  BY DEF HelperInv
<1> QED
  BY <1>1, HelperInvariant, PTL

\* session-stop signals no stranger, however many stops run beside each other
\* and however often the host reboots.
THEOREM StopSignalsEditor == Spec => []SignalsOnlyEditor
<1>1. HelperInv => SignalsOnlyEditor
  BY DEF HelperInv, SignalInv, Signalling, SignalsOnlyEditor
<1> QED
  BY <1>1, HelperInvariant, PTL

\* The answer of a stop that signalled the editor is right for good.
THEOREM StopIsRight == Spec => []StopConfirmsAbsence
<1>1. HelperInv => StopConfirmsAbsence
  BY DEF HelperInv, AbsenceInv, StopConfirmsAbsence
<1> QED
  BY <1>1, HelperInvariant, PTL

\* The record matches the running editor and nothing else.
THEOREM RecordIsRight == Spec => []RecordTellsEditor
<1>1. ASSUME HelperInv, EditorState = "running"
      PROVE  files = RecordFiles /\ Matches
  BY <1>1 DEF HelperInv, LaunchInv, LeaderInv, GroupInv, EditorState, EditorAlive, Starting,
              Matches, RecordFiles
<1>2. ASSUME HelperInv, files > 0, Matches
      PROVE  EditorState \in {"starting", "running"}
  <2>1. leader.who = "editor"
    BY <1>2 DEF HelperInv, TypeOK, LeaderInv, Matches, Process, NoProcess
  <2>2. CASE start = "done"
    BY <1>2, <2>1, <2>2 DEF HelperInv, LaunchInv, EditorState, EditorAlive, Starting
  <2>3. CASE start # "done"
    BY <1>2, <2>1, <2>3 DEF HelperInv, TypeOK, LaunchInv, EditorState, EditorAlive, Starting,
                            StartPc
  <2> QED
    BY <2>2, <2>3
<1>3. HelperInv => RecordTellsEditor
  BY <1>1, <1>2 DEF RecordTellsEditor
<1> QED
  BY <1>3, HelperInvariant, PTL

-----------------------------------------------------------------------------
(* The script implements RemoteEditor *)

\* The steps of RemoteEditor, said of the one editor this module is about.
EditorStep ==
  \/ EditorState' = EditorState
  \/ EditorState = "none" /\ EditorState' = "starting"
  \/ EditorState = "starting" /\ EditorState' = "running"
  \/ EditorState = "starting" /\ EditorState' \in {"none", "dead", "orphan"}
  \/ EditorState \in {"running", "orphan"} /\ EditorState' \in {"dead", "orphan", "none"}
  \/ EditorState = "dead" /\ EditorState' = "reused"
  \/ EditorState = "reused" /\ EditorState' = "dead"
  \/ EditorState \in {"dead", "reused", "running"} /\ EditorState' \in {"none", "orphan"}

LEMMA EditorBecomes ==
  ASSUME NEW from, NEW to, EditorState \in from, EditorState' \in to
  PROVE  Machine!Becomes(Session, from, to)
<1>1. remote' = [remote EXCEPT ![Session] = EditorState']
  BY DEF remote
<1> QED
  BY <1>1 DEF remote, Machine!Becomes

LEMMA EditorStepIsMachineStep ==
  ASSUME EditorStep
  PROVE  Machine!Next \/ UNCHANGED remote
<1>1. CASE EditorState' = EditorState
  BY <1>1 DEF remote
<1>2. CASE EditorState = "none" /\ EditorState' = "starting"
  <2>1. Machine!Starts(Session)
    BY <1>2, EditorBecomes DEF Machine!Starts
  <2> QED
    BY <2>1 DEF Machine!Next
<1>3. CASE EditorState = "starting" /\ EditorState' = "running"
  <2>1. Machine!Records(Session)
    BY <1>3, EditorBecomes DEF Machine!Records
  <2> QED
    BY <2>1 DEF Machine!Next
<1>4. CASE EditorState = "starting" /\ EditorState' \in {"none", "dead", "orphan"}
  <2>1. Machine!StartFails(Session)
    BY <1>4, EditorBecomes DEF Machine!StartFails
  <2> QED
    BY <2>1 DEF Machine!Next
<1>5. CASE /\ EditorState \in {"running", "orphan"}
           /\ EditorState' \in {"dead", "orphan", "none"}
  <2>1. Machine!Ends(Session)
    BY <1>5, EditorBecomes DEF Machine!Ends
  <2> QED
    BY <2>1 DEF Machine!Next
<1>6. CASE EditorState = "dead" /\ EditorState' = "reused"
  <2>1. Machine!PidTaken(Session)
    BY <1>6, EditorBecomes DEF Machine!PidTaken
  <2> QED
    BY <2>1 DEF Machine!Next
<1>7. CASE EditorState = "reused" /\ EditorState' = "dead"
  <2>1. Machine!PidFreed(Session)
    BY <1>7, EditorBecomes DEF Machine!PidFreed
  <2> QED
    BY <2>1 DEF Machine!Next
<1>8. CASE /\ EditorState \in {"dead", "reused", "running"}
           /\ EditorState' \in {"none", "orphan"}
  <2>1. Machine!Removes(Session)
    BY <1>8, EditorBecomes DEF Machine!Removes
  <2> QED
    BY <2>1 DEF Machine!Next
<1> QED
  BY <1>1, <1>2, <1>3, <1>4, <1>5, <1>6, <1>7, <1>8 DEF EditorStep

\* session-start begins, and its last file makes the editor a recorded one.
LEMMA StartStepIsEditorStep ==
  ASSUME HelperInv, StartStep
  PROVE  EditorStep
<1> USE DEF HelperInv, TypeOK, LaunchInv, LeaderInv, GroupInv, SignalInv, Signalling, Process, NoProcess,
        StartPc, EditorAlive, Alive, process, record, RecordFiles, EditorState, EditorStep,
        Launched, Starting, StartGoes, LaunchHeld, GroupSignalled
<1>1. CASE MakesDirectory
  BY <1>1 DEF MakesDirectory
<1>2. CASE NoRuntime
  BY <1>2 DEF NoRuntime
<1>3. CASE Launches
  BY <1>3 DEF Launches
<1>4. CASE ReadsGroup
  BY <1>4 DEF ReadsGroup
<1>5. CASE LaunchSucceeds
  BY <1>5 DEF LaunchSucceeds
<1>6. CASE LaunchFails
  BY <1>6 DEF LaunchFails
<1>7. CASE FindsPort
  BY <1>7 DEF FindsPort
<1>8. CASE FindsNoPort
  BY <1>8 DEF FindsNoPort
<1>9. CASE ReadsIdentity
  BY <1>9 DEF ReadsIdentity
<1>10. CASE WritesFile
  BY <1>10 DEF WritesFile
<1>11. CASE CannotWrite
  BY <1>11 DEF CannotWrite
<1> QED
  BY <1>1, <1>2, <1>3, <1>4, <1>5, <1>6, <1>7, <1>8, <1>9, <1>10, <1>11 DEF StartStep

\* A signal ends the editor, a removal forgets it; all else is no step of it.
LEMMA CallStepIsEditorStep ==
  ASSUME HelperInv, NEW c \in Call, CallStep(c)
  PROVE  EditorStep
<1> USE DEF HelperInv, TypeOK, LaunchInv, LeaderInv, GroupInv, SignalInv, Signalling, Process, NoProcess,
        StartPc, EditorAlive, Alive, process, record, RecordFiles, EditorState, EditorStep,
        Starting, CallGoes, Told, Answers, GroupSignalled
<1>1. CASE Begins(c)
  BY <1>1 DEF Begins
<1>2. CASE StopLooks(c)
  BY <1>2 DEF StopLooks
<1>3. CASE StopCompares(c)
  BY <1>3 DEF StopCompares
<1>4. CASE Terminates(c)
  BY <1>4 DEF Terminates
<1>5. CASE Waits(c)
  BY <1>5 DEF Waits
<1>6. CASE Kills(c)
  BY <1>6 DEF Kills
<1>7. CASE StopChecks(c)
  BY <1>7 DEF StopChecks
<1>8. CASE Inspects(c)
  BY <1>8 DEF Inspects
<1>9. CASE Removes(c)
  BY <1>9 DEF Removes
<1> QED
  BY <1>1, <1>2, <1>3, <1>4, <1>5, <1>6, <1>7, <1>8, <1>9 DEF CallStep

\* What the host does to the processes.
LEMMA HostStepIsEditorStep ==
  ASSUME HelperInv, HostStep
  PROVE  EditorStep
<1> USE DEF HelperInv, TypeOK, LaunchInv, LeaderInv, GroupInv, SignalInv, Signalling, Process, NoProcess,
        StartPc, EditorAlive, Alive, process, record, RecordFiles, EditorState, EditorStep,
        Starting, GroupAlive
<1>1. CASE RunsSetsid
  BY <1>1 DEF RunsSetsid
<1>2. CASE SpawnsNode
  BY <1>2 DEF SpawnsNode
<1>3. CASE BindsPort
  BY <1>3 DEF BindsPort
<1>4. CASE LeaderEnds
  BY <1>4 DEF LeaderEnds
<1>5. CASE NodeEnds
  BY <1>5 DEF NodeEnds
<1>6. CASE PidTaken
  BY <1>6 DEF PidTaken
<1>7. CASE Reboots
  BY <1>7 DEF Reboots
<1> QED
  BY <1>1, <1>2, <1>3, <1>4, <1>5, <1>6, <1>7 DEF HostStep

\* The script implements the machine the session lifecycle is checked against:
\* every step of it, of the processes and of the host is one step of the editor
\* or none.
THEOREM HelperImplementsEditor == Spec => HelperIsRemoteEditor
<1>1. Init => Machine!Init
  BY DEF Init, Machine!Init, remote, EditorState, Starting, EditorAlive, NoProcess
<1>2. HelperInv /\ [Next]_vars => [Machine!Next]_remote
  <2> SUFFICES ASSUME HelperInv, [Next]_vars
               PROVE  Machine!Next \/ UNCHANGED remote
    OBVIOUS
  <2>1. CASE StartStep
    BY <2>1, StartStepIsEditorStep, EditorStepIsMachineStep
  <2>2. CASE \E c \in Call : CallStep(c)
    BY <2>2, CallStepIsEditorStep, EditorStepIsMachineStep
  <2>3. CASE HostStep
    BY <2>3, HostStepIsEditorStep, EditorStepIsMachineStep
  <2>4. CASE UNCHANGED vars
    BY <2>4 DEF vars, record, process, remote, EditorState, Starting, EditorAlive, Alive
  <2> QED
    BY <2>1, <2>2, <2>3, <2>4 DEF Next
<1> QED
  BY <1>1, <1>2, HelperInvariant, PTL DEF Spec, HelperIsRemoteEditor, Machine!Spec

=============================================================================
