------------------------ MODULE SessionServedProofs ------------------------
(***************************************************************************)
(* What is served: the ports the proxy knows, the tunnels behind them,     *)
(* their watchers and the rows agree (ServedInv).  Its parts look only at  *)
(* the events of a session and of its tasks, which SessionSafetyProofs     *)
(* derives from the steps.                                                 *)
(* Then the open connections: who holds each one (OwnInv), and that nobody *)
(* lets go of one unless it is closed, handed on or known to be given up.  *)
(* Last the opens that nothing disturbs (SteadyInv): under them every      *)
(* connection that is left open has an owner.                              *)
(***************************************************************************)
EXTENDS SessionSafetyProofs

-----------------------------------------------------------------------------
(***************************************************************************)
(* A close at work (CloseIsKnown).                                         *)
(***************************************************************************)
LEMMA CloseReasonStep ==
  ASSUME CalmStep, NEW s \in Sid, row'[s].state = "stopping"
  PROVE  row'[s].close_reason
<1>1. CASE SameRow(s)
  BY <1>1, CalmFacts DEF SameRow, CloseIsKnown
<1>2. CASE ~SameRow(s)
  BY <1>2, RowTurns, RowValues
<1> QED
  BY <1>1, <1>2

LEMMA CloserIsHeard ==
  ASSUME CalmStep, NEW o \in Op, task'[o].kind \in {"close", "force"}, task'[o].pc \in ClosePcs
  PROVE  LET s == task'[o].sid IN ~(row'[s].state # "closed" /\ ~row'[s].close_reason)
<1> DEFINE s == task'[o].sid
<1>1. o \in Task /\ Suspended(task[o])
  BY CalmFacts, CalmTypes, TaskFacts
<1>2. CASE /\ task'[o].sid = task[o].sid
           /\ task[o].kind \in {"close", "force"} /\ task[o].pc \in ClosePcs
  <2>1. s \in Sid /\ ~Standing(s)
    BY <1>2, CalmFacts, OpFacts DEF CloseIsKnown, ClosePcs, DoClosePcs
  <2> QED
    BY <1>1, <1>2, <2>1, CalmFacts, NotStandingStays
<1>3. CASE AsksStop(o)
  BY <1>3 DEF AsksStop, From, Exists, SameRows, SameRow
<1>4. CASE OpDoes(o)
  <2>1. ~Arrives(o) /\ ~LooksUp(o) /\ ~Answers(o) /\ ~InsertsRow(o) /\ ~RemovesRow(o)
        /\ ~StartsOpening(o)
    BY RestingFields DEF Arrives, LooksUp, Answers, InsertsRow, RemovesRow, StartsOpening,
       ClosePcs, DoClosePcs
  <2>2. ~BeginsRetry(o)
    BY RestingFields DEF BeginsRetry, HasBegun, HasRaised, From
  <2>3. CASE SettlesStart(o)
    BY <1>1, <1>2, <2>3 DEF SettlesStart, From, Suspended, ClosePcs, StartPcs, At, WatchPcs, RetryPcs, DoClosePcs, ReattachPcs, BootPcs
  <2>4. CASE BeginsClosing(o)
    BY <1>2, <2>4 DEF BeginsClosing, From, ClosePcs, At
  <2> QED
    BY <1>3, <1>4, <2>1, <2>2, <2>3, <2>4 DEF OpDoes
<1>5. CASE CloseDoes(o) \/ AttemptDoes(o)
  <2>1. task[o].pc \in SettledPcs /\ task'[o].sid = task[o].sid /\ task'[o].kind = task[o].kind
    BY <1>5, OpStays, RestingFields
  <2>2. task[o].pc \in ClosePcs
    BY <1>1, <2>1 DEF Suspended, SettledPcs, DoClosePcs, ReattachPcs
  <2> QED
    BY <1>2, <2>1, <2>2
<1>6. CASE task'[o] = task[o]
  BY <1>2, <1>6
<1> QED
  BY <1>4, <1>5, <1>6, OpTurns

\* Once a close or retry has withdrawn the port, no one publishes another.
ShutPcs == (SettledPcs \ {"installed"}) \cup {"start_settles"}
LEMMA StaysShut ==
  ASSUME CalmStep, NEW o \in Op, task[o].pc \in ShutPcs, task'[o].pc # "installed"
  PROVE  registry'[task[o].sid] = None
<1> DEFINE s == task[o].sid
<1>1. s \in Sid /\ Works(o, s) /\ registry[s] = None /\ o \in Task
  BY CalmFacts, CalmTypes, OpWorks DEF ShutPcs, CloseIsKnown
<1>2. ASSUME NEW u \in Task, Publishes(u, s)
      PROVE  FALSE
  <2>1. s \notin cancelled /\ task[s].pc = "tunnel"
    BY <1>2 DEF Publishes, At
  <2>2. CASE task[o].pc \in SettledPcs
    BY <2>1, <2>2, CalmFacts DEF Settled, Active
  <2>3. CASE At(o, "start_settles")
    BY <2>1, <2>3, CalmFacts DEF CloseIsKnown, OpeningPcs
  <2> QED
    BY <2>2, <2>3 DEF ShutPcs, At
<1>3. ASSUME NEW u \in Task, Works(u, s), Installs(u, s)
      PROVE  FALSE
  <2>1. task[u].pc \in ReattachPcs /\ u \notin Sid /\ task'[u].pc = "installed"
    BY <1>3, CalmTypes DEF Installs, At, ReattachPcs, From
  <2>2. task[u].sid = s
    BY <1>1, <1>3, <2>1 DEF Works
  <2> QED
    BY <1>1, <2>1, <2>2, AttemptLocks
<1> QED
  BY <1>1, <1>2, <1>3, PortBegins

LEMMA ShutStep ==
  ASSUME CalmStep, NEW o \in Op, task'[o].pc \in ShutPcs
  PROVE  registry'[task'[o].sid] = None
<1>0. task'[o].pc \notin {"installed", "idle", "enter", "looked_up", "inserted", "stopping"}
  BY DEF ShutPcs, SettledPcs, DoClosePcs, ReattachPcs
<1>1. CASE task[o].pc \in ShutPcs /\ task'[o].sid = task[o].sid
  BY <1>0, <1>1, StaysShut
<1>2. CASE OpDoes(o)
  <2>1. ~Arrives(o) /\ ~LooksUp(o) /\ ~Answers(o) /\ ~InsertsRow(o) /\ ~RemovesRow(o)
        /\ ~StartsOpening(o) /\ ~AsksStop(o)
    BY <1>0, RestingFields DEF Arrives, LooksUp, Answers, InsertsRow, RemovesRow, StartsOpening,
       AsksStop, From
  <2>2. ASSUME Unpublished(task[o].sid), task'[o].sid = task[o].sid, task[o].sid \in Sid
        PROVE  registry'[task'[o].sid] = None
    BY <2>2, Elsewhere
  <2>3. CASE SettlesStart(o)
    BY <2>2, <2>3, CalmFacts, OpWorks DEF SettlesStart, From, At
  <2>4. CASE BeginsClosing(o)
    <3>1. task'[o].sid = task[o].sid
      BY <2>4 DEF BeginsClosing, From
    <3>2. CASE At(o, "stopping") /\ Unpublished(task[o].sid)
      BY <2>2, <3>1, <3>2, OpWorks DEF At
    <3>3. CASE At(o, "start_settles")
      BY <1>1, <3>1, <3>3 DEF At, ShutPcs
    <3> QED
      BY <2>4, <3>2, <3>3 DEF BeginsClosing
  <2>5. CASE BeginsRetry(o)
    <3>1. Unpublished(task[o].sid) /\ task[o].sid \in Sid
      BY <2>5 DEF BeginsRetry
    <3>2. task'[o].sid = task[o].sid
      BY <1>0, <2>5, RestingFields DEF BeginsRetry, HasBegun, HasRaised, From, ShutPcs
    <3> QED
      BY <2>2, <3>1, <3>2
  <2> QED
    BY <1>2, <2>1, <2>3, <2>4, <2>5 DEF OpDoes
<1>3. CASE CloseDoes(o) \/ AttemptDoes(o)
  <2>1. task[o].pc \in SettledPcs /\ task'[o].sid = task[o].sid
    BY <1>0, <1>3, OpStays, RestingFields
  <2>2. CASE At(o, "installed")
    <3>1. AttemptDoes(o)
      BY <1>3, <2>2 DEF CloseDoes, CloseGoesOn, At
    <3>2. task'[o] = IdleTask \/ o = Boot
      BY <2>2, <3>1 DEF AttemptDoes, AttemptOn, At
    <3> QED
      BY <1>0, <3>2, CalmTypes, RestingFields
  <2> QED
    BY <1>1, <2>1, <2>2 DEF At, ShutPcs
<1>4. CASE task'[o] = task[o]
  BY <1>1, <1>4
<1> QED
  BY <1>2, <1>3, <1>4, OpTurns

\* The start task that a close awaits is cancelled while it opens.
LEMMA SettlesStep ==
  ASSUME CalmStep, NEW o \in Op, task'[o].pc = "start_settles"
  PROVE  LET s == task'[o].sid IN
         /\ task'[o].kind \in {"close", "force"}
         /\ task'[s].pc \in OpeningPcs => s \in cancelled'
<1>1. CASE task'[o] = task[o]
  <2> DEFINE s == task[o].sid
  <2>1. At(o, "start_settles") /\ s \in Sid /\ task[o].kind \in {"close", "force"}
        /\ (task[s].pc \in OpeningPcs => s \in cancelled)
    BY <1>1, CalmFacts, OpWorks DEF At, CloseIsKnown
  <2>2. ASSUME task'[s].pc \in OpeningPcs
        PROVE  s \in cancelled'
    <3>1. ~Started(s)
      BY <2>1, StartedAlone DEF StartsOpening, At
    <3>2. s \in cancelled
      BY <2>1, <2>2, <3>1, StartOpens
    <3> QED
      BY <2>1, <2>2, <3>2, StartCancels
  <2> QED
    BY <1>1, <2>1, <2>2
<1>2. CASE OpDoes(o)
  <2>1. SettlesStart(o)
    BY <1>2, RestingFields DEF OpDoes, Arrives, LooksUp, Answers, InsertsRow, RemovesRow,
       StartsOpening, AsksStop, BeginsClosing, BeginsRetry, HasBegun, HasRaised, From
  <2>2. Suspended(task[o]) /\ At(o, "stopping")
    BY <2>1, CalmFacts, CalmTypes, TaskFacts DEF SettlesStart
  <2>3. task[o].kind \in {"close", "force"}
    BY <2>2 DEF Suspended, At, StartPcs, WatchPcs, RetryPcs, DoClosePcs, ReattachPcs, BootPcs
  <2> QED
    BY <2>1, <2>3 DEF SettlesStart, From
<1>3. CASE CloseDoes(o) \/ AttemptDoes(o)
  BY <1>3, OpStays, RestingFields DEF SettledPcs, DoClosePcs, ReattachPcs
<1> QED
  BY <1>1, <1>2, <1>3, OpTurns

LEMMA CloseKnownStep ==
  ASSUME CalmStep
  PROVE  CloseIsKnown'
<1>1. \A s \in Sid : row'[s].state = "stopping" => row'[s].close_reason
  BY CloseReasonStep
<1>2. \A o \in Op : task'[o].kind \in {"close", "force"} /\ task'[o].pc \in ClosePcs =>
        ~(row'[task'[o].sid].state # "closed" /\ ~row'[task'[o].sid].close_reason)
  BY CloserIsHeard
<1>3. \A o \in Op : task'[o].pc \in (SettledPcs \ {"installed"}) \cup {"start_settles"} =>
        registry'[task'[o].sid] = None
  BY ShutStep DEF ShutPcs
<1>4. \A o \in Op : task'[o].pc = "start_settles" =>
        /\ task'[o].kind \in {"close", "force"}
        /\ task'[task'[o].sid].pc \in OpeningPcs => task'[o].sid \in cancelled'
  BY SettlesStep
<1> QED
  BY <1>1, <1>2, <1>3, <1>4 DEF CloseIsKnown, Standing, Exists, At

-----------------------------------------------------------------------------
(***************************************************************************)
(* A retry at work (RetryIsDue).                                           *)
(***************************************************************************)
\* A retry at work finds its session as it was, until it has repaired it.
LEMMA FailingStays ==
  ASSUME CalmStep, NEW o \in Op, task[o].kind = "retry", Holding(task[o]), task[o].sid \in Sid,
         Failing(task[o].sid), ~Active(task[o].sid), task'[o].pc # "commit"
  PROVE  row'[task[o].sid].state \in {"error", "closed"} /\ task'[task[o].sid].pc = "idle"
<1> DEFINE s == task[o].sid
<1>1. o \in Task /\ Suspended(task[o]) /\ s \in Sid /\ s # None
  BY CalmFacts, CalmTypes, TaskFacts
<1>2. ~Started(s)
  <2>1. ~At(o, "inserted")
    BY <1>1 DEF Suspended, At, RetryPcs, DoClosePcs, ReattachPcs
  <2> QED
    BY <1>1, <2>1, StartedAlone DEF StartsOpening
<1>3. task'[s] = task[s]
  BY <1>1, <1>2, StartMoves
<1>4. ASSUME NEW u \in Task, task[u].sid = s, Holding(task[u])
      PROVE  u = o
  BY <1>1, <1>4, CalmFacts, OneWorker
<1>5. ASSUME NEW u \in Task, Inserts(u, s)
      PROVE  FALSE
  BY <1>1, <1>5, InsertsAreNew
<1>6. ASSUME NEW u \in Task, Asks(u, s)
      PROVE  FALSE
  <2>1. Holding(task[u]) /\ task[u].sid = s /\ task[u].kind \in {"close", "force"}
    BY <1>6 DEF Asks, AsksStop, Holding, At
  <2> QED
    BY <1>4, <2>1
<1>7. ASSUME NEW u \in Task, Works(u, s), Completes(u, s)
      PROVE  FALSE
  <2>1. task[u].pc = "reforward" /\ task'[u].pc = "commit"
    BY <1>7 DEF Completes, From, At
  <2>2. u # s
    BY <2>1 DEF Active
  <2>3. Holding(task[u]) /\ task[u].sid = s
    BY <1>7, <2>1, <2>2 DEF Works, Holding, ReattachPcs
  <2> QED
    BY <1>4, <2>1, <2>3
<1>8. ASSUME NEW u \in Task
      PROVE  ~Readies(u, s)
  <2>1. Readies(u, s) => task[s].pc = "verify"
    BY DEF Readies, At
  <2>2. task[s].pc = "idle"
    BY DEF Active
  <2> QED
    BY <2>1, <2>2
<1>9. SameRow(s) => row'[s].state \in {"error", "closed"}
  BY DEF SameRow, Failing
<1>10. ASSUME NEW u \in Task, Deletes(u, s) \/ Fails(u, s)
       PROVE  row'[s].state \in {"error", "closed"}
  BY <1>1, <1>10, RowValues
<1> QED
  BY <1>1, <1>3, <1>5, <1>6, <1>7, <1>8, <1>9, <1>10, RowTurns DEF Active

\* What a retry reads is so.
LEMMA RetryReads ==
  ASSUME CalmStep, NEW o \in Op, LooksUp(o), task'[o].rec.state = "error"
  PROVE  LET s == task'[o].sid IN
         row'[s].state \in {"error", "closed"} /\ task'[s].pc = "idle"
<1> DEFINE s == task'[o].sid
<1>1. s = Lookup(task[o].alias) /\ task'[o].rec = Read(s) /\ row' = row /\ Others(o)
  BY DEF LooksUp, Alone
<1>2. s # None /\ row[s].state = "error"
  BY <1>1 DEF Read, NoRow
<1>3. s \in Sid
  <2>1. RowsOf(task[o].alias) # {}
    BY <1>1, <1>2 DEF Lookup
  <2>2. s \in RowsOf(task[o].alias)
    BY <1>1, <2>1 DEF Lookup
  <2> QED
    BY <2>2 DEF RowsOf
<1>4. ~Active(s)
  BY <1>2, <1>3, CalmFacts DEF OpeningIsAlone, Opening
<1>5. task'[s] = task[s]
  BY <1>1, <1>3, CalmTypes, ServiceAssumption DEF Others
<1> QED
  BY <1>1, <1>2, <1>4, <1>5 DEF Active

LEMMA RetryDueStep ==
  ASSUME CalmStep
  PROVE  RetryIsDue'
<1> DEFINE Due(o) ==
      /\ task'[o].pc = "looked_up" /\ task'[o].rec.state = "error" =>
           /\ row'[task'[o].sid].state \in {"error", "closed"}
           /\ task'[task'[o].sid].pc = "idle"
      /\ task'[o].pc \in SettledPcs \ {"commit", "installed"} =>
           row'[task'[o].sid].state \in {"error", "closed"}
<1>1. ASSUME NEW o \in Op, task'[o].kind = "retry"
      PROVE  Due(o)
  <2>1. o \in Task /\ Suspended(task[o]) /\ ShapeOK(o, task[o])
    BY CalmFacts, CalmTypes, TaskFacts DEF MoveInv, TaskShape
  <2>2. ASSUME task[o].kind = "retry", task'[o].sid = task[o].sid,
               task[o].pc \in SettledPcs \ {"commit", "installed"}, task'[o].pc # "commit"
        PROVE  row'[task'[o].sid].state \in {"error", "closed"}
    <3>1. Failing(task[o].sid) /\ ~Active(task[o].sid) /\ task[o].sid \in Sid
      BY <2>2, CalmFacts, OpWorks DEF RetryIsDue, Settled
    <3>2. Holding(task[o])
      BY <2>1, <2>2 DEF Holding, Suspended, SettledPcs, RetryPcs
    <3> QED
      BY <2>2, <3>1, <3>2, FailingStays
  <2>3. CASE task'[o] = task[o]
    <3>1. ASSUME task[o].pc = "looked_up", task[o].rec.state = "error"
          PROVE  /\ row'[task'[o].sid].state \in {"error", "closed"}
                 /\ task'[task'[o].sid].pc = "idle"
      <4>1. Failing(task[o].sid) /\ ~Active(task[o].sid) /\ Holding(task[o])
        BY <1>1, <2>3, <3>1, CalmFacts DEF RetryIsDue, At, Holding
      <4>2. task[o].sid \in Sid
        BY <2>1, <3>1 DEF ShapeOK, NoRow, TaskRecord
      <4> QED
        BY <1>1, <2>3, <3>1, <4>1, <4>2, FailingStays
    <3> QED
      BY <1>1, <2>2, <2>3, <3>1
  <2>4. CASE OpDoes(o)
    <3>1. CASE LooksUp(o)
      <4>1. task'[o].pc = "looked_up"
        BY <3>1 DEF LooksUp
      <4> QED
        BY <3>1, <4>1, RetryReads DEF SettledPcs, DoClosePcs, ReattachPcs
    <3>2. CASE BeginsRetry(o)
      <4>1. task[o].pc = "looked_up" /\ task[o].kind = "retry" /\ task[o].rec.state = "error"
            /\ task[o].sid \in Sid /\ SameRows
        BY <3>2 DEF BeginsRetry, At
      <4>2. task'[o].pc # "looked_up" /\ (task'[o].sid = task[o].sid \/ task'[o] = IdleTask)
        BY <3>2, RestingFields DEF BeginsRetry, HasBegun, HasRaised, From
      <4>3. row'[task[o].sid].state \in {"error", "closed"}
        BY <4>1, CalmFacts DEF RetryIsDue, Failing, At, SameRows, SameRow
      <4> QED
        BY <4>2, <4>3, RestingFields DEF SettledPcs, DoClosePcs, ReattachPcs
    <3>3. CASE ~LooksUp(o) /\ ~BeginsRetry(o)
      <4>1. task'[o].pc \in {"idle", "enter", "inserted", "stopping", "start_settles"}
        <5>1. ~BeginsClosing(o)
          BY <1>1 DEF BeginsClosing, From
        <5> QED
          BY <2>4, <3>3, <5>1, RestingFields DEF OpDoes, Arrives, Answers, InsertsRow, RemovesRow,
             StartsOpening, AsksStop, SettlesStart, From
      <4> QED
        BY <4>1 DEF SettledPcs, DoClosePcs, ReattachPcs
    <3> QED
      BY <3>1, <3>2, <3>3
  <2>5. CASE CloseDoes(o) \/ AttemptDoes(o)
    <3>1. CASE task'[o] = IdleTask
      BY <3>1, RestingFields DEF SettledPcs, DoClosePcs, ReattachPcs
    <3>2. CASE task'[o] # IdleTask
      <4>1. /\ task'[o].sid = task[o].sid /\ task[o].kind = "retry"
            /\ task[o].pc \in SettledPcs /\ task'[o].pc \in SettledPcs
        BY <1>1, <2>5, <3>2, OpStays
      <4>2. CASE task[o].pc \in {"commit", "installed"}
        <5>1. AttemptDoes(o) /\ o # Boot
          BY <2>5, <4>2, CalmTypes DEF CloseDoes, CloseGoesOn, At
        <5>2. task'[o].pc = "installed"
          BY <3>2, <4>2, <5>1 DEF AttemptDoes, AttemptOn, At, From
        <5> QED
          BY <5>2
      <4>3. CASE task[o].pc \notin {"commit", "installed"}
        BY <2>2, <4>1, <4>3 DEF SettledPcs, DoClosePcs, ReattachPcs
      <4> QED
        BY <4>2, <4>3
    <3> QED
      BY <3>1, <3>2
  <2> QED
    BY <2>3, <2>4, <2>5, OpTurns
<1> QED
  BY <1>1 DEF RetryIsDue, Failing, Active, At

-----------------------------------------------------------------------------
(***************************************************************************)
(* The alias of a session at work (AliasesAgree).                          *)
(***************************************************************************)
\* The row of a session at work is not replaced.
LEMMA RowRemains ==
  ASSUME CalmStep, NEW t \in Task, NEW s \in Sid, task[t].sid = s, row'[s].state # "closed"
  PROVE  Exists(s) /\ row'[s].alias = row[s].alias
<1>1. ASSUME NEW u \in Task, Inserts(u, s)
      PROVE  FALSE
  BY <1>1, InsertsAreNew
<1>2. ASSUME NEW u \in Task, Asks(u, s) \/ Fails(u, s) \/ Readies(u, s) \/ Completes(u, s)
      PROVE  Exists(s)
  BY <1>2 DEF Asks, Fails, Readies, Completes, Exists, Recoverable
<1>3. CASE SameRow(s)
  BY <1>3 DEF SameRow, Exists
<1> QED
  BY <1>1, <1>2, <1>3, RowTurns, RowValues

LEMMA StartsAreIdleWork ==
  ASSUME NEW s \in Sid, NEW r, ShapeOK(s, r)
  PROVE  ~AtWork(r)
<1>1. s \notin Conn /\ s \notin Op /\ s # Boot
  BY ServiceAssumption
<1>2. r.pc \in {"idle"} \cup StartPcs
  BY <1>1 DEF ShapeOK, KindOK, Suspended
<1> QED
  BY <1>2 DEF AtWork, Busy, Queued, Holding, StartPcs, DoClosePcs, ReattachPcs

\* A task that stays at work keeps its session and the alias it locks; one that takes
\* up work has read the alias in the row.
WorksOn(t) ==
  /\ AtWork(task[t]) /\ task'[t].sid = task[t].sid
  /\ LockedAlias(task'[t]) = LockedAlias(task[t])
TakesUp(t) ==
  LET s == task'[t].sid IN
  s \in Sid /\ row'[s].state # "closed" /\ row'[s].alias = LockedAlias(task'[t])

LEMMA StaysAtWork ==
  ASSUME NEW t, AtWork(task[t]), task[t].pc # "initial", task'[t].pc # "initial",
         task'[t].sid = task[t].sid, task'[t].alias = task[t].alias
  PROVE  WorksOn(t)
BY DEF WorksOn, LockedAlias

LEMMA OpTakesUp ==
  ASSUME CalmStep, NEW o \in Op, OpDoes(o), AtWork(task'[o])
  PROVE  WorksOn(o) \/ TakesUp(o)
<1>1. ~Arrives(o) /\ ~Answers(o) /\ ~RemovesRow(o) /\ ~StartsOpening(o)
  BY RestingFields DEF Arrives, Answers, RemovesRow, StartsOpening, AtWork
<1>2. CASE LooksUp(o)
  <2> DEFINE s == task'[o].sid
  <2>1. s = Lookup(task[o].alias) /\ row' = row /\ task'[o].alias = task[o].alias /\ task'[o].pc = "looked_up"
        /\ s # None
    BY <1>2 DEF LooksUp, Alone, AtWork
  <2>2. s \in RowsOf(task[o].alias)
    BY <2>1 DEF Lookup
  <2> QED
    BY <2>1, <2>2 DEF RowsOf, TakesUp, LockedAlias, Exists
<1>3. CASE InsertsRow(o)
  BY <1>3 DEF InsertsRow, TakesUp, LockedAlias, FreeSid
<1>4. CASE AsksStop(o) \/ SettlesStart(o) \/ BeginsClosing(o)
  <2>1. /\ task'[o].sid = task[o].sid /\ task'[o].alias = task[o].alias
        /\ task[o].pc \in {"looked_up", "stopping", "start_settles"} /\ task'[o].pc # "initial"
    BY <1>4 DEF AsksStop, SettlesStart, BeginsClosing, From, At
  <2> QED
    BY <2>1, StaysAtWork DEF AtWork, Busy, Holding
<1>5. CASE BeginsRetry(o)
  <2>1. task[o].pc = "looked_up"
    BY <1>5 DEF BeginsRetry, At
  <2>2. task'[o].sid # None
    BY DEF AtWork
  <2>3. task'[o].sid = task[o].sid /\ task'[o].alias = task[o].alias /\ task'[o].pc # "initial"
    BY <1>5, <2>2, RestingFields DEF BeginsRetry, HasBegun, HasRaised, From
  <2> QED
    BY <2>1, <2>2, <2>3, StaysAtWork DEF AtWork, Busy, Holding
<1> QED
  BY <1>1, <1>2, <1>3, <1>4, <1>5 DEF OpDoes

LEMMA CloserTakesUp ==
  ASSUME CalmStep, NEW t \in Closers, CloseDoes(t), AtWork(task'[t])
  PROVE  WorksOn(t)
<1>1. task[t].pc \in {"do_close"} \cup DoClosePcs
  BY DEF CloseDoes, CloseGoesOn, DoClosePcs, At
<1>2. t \in Task /\ Suspended(task[t]) /\ task'[t].sid # None
  BY CalmFacts, CalmTypes, TaskFacts DEF AtWork
<1>3. CASE task[t].kind = "close"
  <2>1. task'[t].kind = "close" /\ task'[t].pc \in DoClosePcs
    BY <1>2, <1>3, RestingFields DEF CloseDoes, CloseGoesOn, HasReturned, From, DoClosePcs
  <2> QED
    BY <2>1 DEF AtWork, Busy, Queued, Holding, DoClosePcs, ReattachPcs
<1>4. CASE task[t].kind # "close"
  <2>1. task[t].pc \in DoClosePcs
    BY <1>1, <1>2, <1>4 DEF Suspended, StartPcs, WatchPcs, RetryPcs, DoClosePcs, ReattachPcs, BootPcs
  <2>2. task'[t].sid = task[t].sid /\ task'[t].alias = task[t].alias /\ task'[t].pc # "initial"
    BY <1>2, <1>4, RestingFields DEF CloseDoes, CloseGoesOn, HasReturned, From
  <2> QED
    BY <1>2, <1>4, <2>1, <2>2, StaysAtWork DEF AtWork, Busy, Holding, DoClosePcs
<1> QED
  BY <1>3, <1>4

LEMMA AttemptTakesUp ==
  ASSUME CalmStep, NEW t \in Closers \cup Conn, AttemptDoes(t), AtWork(task'[t])
  PROVE  WorksOn(t)
<1>1. task[t].pc \in {"backoff"} \cup ReattachPcs
  BY DEF AttemptDoes, AttemptOn, ReattachPcs, At
<1>2. task'[t].sid # None
  BY DEF AtWork
<1>3. task'[t].sid = task[t].sid /\ task'[t].alias = task[t].alias /\ task'[t].pc # "initial"
  BY <1>2, RestingFields DEF AttemptDoes, AttemptOn, HasBegun, HasRaised, From
<1> QED
  BY <1>1, <1>2, <1>3, StaysAtWork DEF AtWork, Busy, Holding, ReattachPcs

LEMMA WatcherTakesUp ==
  ASSUME CalmStep, NEW c \in Conn, WatchDoes(c), AtWork(task'[c])
  PROVE  WorksOn(c) \/ TakesUp(c)
<1>1. task'[c].sid # None
  BY DEF AtWork
<1>2. ~WatcherDies(c) /\ ~WatcherLeaves(c)
  BY <1>1, RestingFields DEF WatcherDies, WatcherLeaves
<1>3. CASE WatcherMends(c)
  <2>1. /\ task'[c].sid = task[c].sid /\ task'[c].alias = task[c].alias /\ task'[c].pc # "initial"
        /\ task[c].pc \in {"exit_checks", "close_lost", "attempt_checks"}
    BY <1>1, <1>3, RestingFields DEF WatcherMends, HasBegun, HasRaised, From, At
  <2> QED
    BY <1>1, <2>1, StaysAtWork DEF AtWork, Busy, Holding
<1>4. CASE WatcherGoesOn(c) /\ At(c, "watching")
  <2>1. /\ task'[c].pc = "initial" /\ task'[c].sid = task[c].sid /\ row' = row
        /\ task'[c].rec = row[task[c].sid]
    <3>1. task[c].pc = "watching"
      BY <1>4 DEF At
    <3>2. UNCHANGED row /\ task'[c].sid = task[c].sid
      BY <1>4 DEF WatcherGoesOn
    <3>3. task'[c].pc = "initial" /\ task'[c].rec = row[task[c].sid]
      BY <1>4, <3>1 DEF WatcherGoesOn, At
    <3> QED
      BY <3>2, <3>3
  <2>2. task[c].sid \in Sid
    BY <1>4, CalmFacts, CalmTypes, PcKinds DEF At, Active
  <2>3. task'[c].rec.state # "closed"
    BY <2>1 DEF AtWork, Busy, Queued, Holding, DoClosePcs, ReattachPcs
  <2> QED
    BY <2>1, <2>2, <2>3 DEF TakesUp, LockedAlias
<1>5. CASE WatcherGoesOn(c) /\ At(c, "initial")
  <2>1. /\ task'[c].pc = "exit" /\ task'[c].sid = task[c].sid /\ task[c].rec.state # "closed"
        /\ task'[c].alias = task[c].rec.alias
    BY <1>5 DEF WatcherGoesOn, At
  <2> QED
    BY <1>1, <1>5, <2>1 DEF WorksOn, LockedAlias, AtWork, At
<1>6. CASE WatcherGoesOn(c) /\ ~At(c, "watching") /\ ~At(c, "initial")
  <2>1. /\ task'[c].sid = task[c].sid /\ task'[c].alias = task[c].alias /\ task'[c].pc # "initial"
        /\ task[c].pc \in {"exit", "attempt", "lost"}
    BY <1>6 DEF WatcherGoesOn, At
  <2> QED
    BY <1>1, <2>1, StaysAtWork DEF AtWork, Busy, Queued
<1> QED
  BY <1>2, <1>3, <1>4, <1>5, <1>6 DEF WatchDoes

LEMMA RecoveryTakesUp ==
  ASSUME CalmStep, RecoveryDoes, AtWork(task'[Boot])
  PROVE  WorksOn(Boot) \/ TakesUp(Boot)
<1>1. task'[Boot].sid # None /\ Boot \in Task
  BY CalmTypes DEF AtWork
<1>2. CASE RecoveryTurns
  <2> DEFINE s == task'[Boot].sid
  <2>1. /\ s \in unrecovered /\ task'[Boot].alias = row[s].alias /\ row' = row
        /\ task'[Boot].pc # "initial" /\ task[Boot].pc = "next_row"
    BY <1>2 DEF RecoveryTurns, At
  <2>2. task[Boot].sid = None /\ s \in Sid
    BY <1>1, <2>1, CalmFacts DEF MoveInv, TaskShape, ShapeOK, TypeOK
  <2>3. Exists(s)
    BY <2>1, <2>2, CalmFacts, CalmTypes DEF RecoveryIsAlone
  <2> QED
    BY <2>1, <2>2, <2>3 DEF TakesUp, LockedAlias, Exists
<1>3. CASE RecoveryWorks
  <2>1. /\ task'[Boot].sid = task[Boot].sid /\ task'[Boot].alias = task[Boot].alias
        /\ task'[Boot].pc # "initial"
        /\ task[Boot].pc \in {"check_closing", "check_remote", "check_done", "drop", "clear_lost"}
    BY <1>3 DEF RecoveryWorks, From, At
  <2> QED
    BY <1>1, <2>1, StaysAtWork DEF AtWork, Busy, Holding
<1>4. CASE At(Boot, "reattach") /\ HasBegun(Boot, task[Boot])
  <2>1. /\ task'[Boot].sid = task[Boot].sid /\ task'[Boot].alias = task[Boot].alias
        /\ task'[Boot].pc # "initial" /\ task[Boot].pc = "reattach"
    BY <1>1, <1>4, RestingFields DEF HasBegun, HasRaised, From, At
  <2> QED
    BY <1>1, <2>1, StaysAtWork DEF AtWork, Busy, Holding
<1>5. ~RecoveryLeaves /\ ~(task'[Boot] = IdleTask)
  BY <1>1, RestingFields DEF RecoveryLeaves
<1> QED
  BY <1>2, <1>3, <1>4, <1>5 DEF RecoveryDoes

LEMMA WorkGoesOn ==
  ASSUME CalmStep, NEW t \in Task, AtWork(task'[t])
  PROVE  WorksOn(t) \/ TakesUp(t)
<1>1. CASE task'[t] = task[t]
  BY <1>1 DEF WorksOn
<1>2. t \notin Sid
  BY CalmFacts, StartsAreIdleWork DEF MoveInv, TaskShape
<1>3. ~Born(t)
  <2>1. Born(t) => task'[t].pc = "watching"
    BY RestingFields DEF Born
  <2> QED
    BY <2>1 DEF AtWork, Busy, Queued, Holding, DoClosePcs, ReattachPcs
<1>4. CASE Acts(t)
  BY <1>2, <1>4, OpTakesUp, CloserTakesUp, AttemptTakesUp, WatcherTakesUp, RecoveryTakesUp
     DEF Acts
<1> QED
  BY <1>1, <1>2, <1>3, <1>4, TaskMoves DEF Started

LEMMA AliasStep ==
  ASSUME CalmStep
  PROVE  AliasesAgree'
<1>1. ASSUME NEW t \in Task, AtWork(task'[t]), row'[task'[t].sid].state # "closed",
             task'[t].sid \in Sid
      PROVE  row'[task'[t].sid].alias = LockedAlias(task'[t])
  <2>1. CASE TakesUp(t)
    BY <2>1 DEF TakesUp
  <2>2. CASE WorksOn(t)
    <3>1. Exists(task[t].sid) /\ row'[task[t].sid].alias = row[task[t].sid].alias
      BY <1>1, <2>2, RowRemains DEF WorksOn
    <3> QED
      BY <2>2, <3>1, CalmFacts DEF WorksOn, AliasesAgree
  <2> QED
    BY <1>1, <2>1, <2>2, WorkGoesOn
<1>2. ASSUME NEW t \in Task, AtWork(task'[t])
      PROVE  task'[t].sid \in Sid
  BY <1>2, CalmFacts DEF AtWork, MoveInv, TaskShape, ShapeOK, TaskRecord
<1>3. ASSUME NEW t \in Task, NEW u \in Task, AtWork(task'[t]), AtWork(task'[u]),
             task'[t].sid = task'[u].sid
      PROVE  LockedAlias(task'[t]) = LockedAlias(task'[u])
  <2>1. CASE WorksOn(t) /\ WorksOn(u)
    BY <1>3, <2>1, CalmFacts DEF WorksOn, AliasesAgree
  <2>2. CASE TakesUp(t) \/ TakesUp(u)
    BY <1>1, <1>2, <1>3, <2>2 DEF TakesUp
  <2> QED
    BY <1>3, <2>1, <2>2, WorkGoesOn
<1> QED
  BY <1>1, <1>2, <1>3 DEF AliasesAgree, Exists

-----------------------------------------------------------------------------
(***************************************************************************)
(* Cancellations (CancelledInTime).                                        *)
(***************************************************************************)
LEMMA OnlyThese ==
  ASSUME CalmStep
  PROVE  cancelled' \subseteq Sid \cup Conn
<1>1. Still => cancelled' \subseteq Sid \cup Conn
  BY CalmTypes DEF Still
<1>2. ASSUME NEW t \in Task, Acts(t)
      PROVE  cancelled' \subseteq Sid \cup Conn
  <2>1. CASE t \in Op /\ OpDoes(t)
    <3>1. cancelled' = cancelled \/ (t \in Op /\ SettlesStart(t))
      BY <2>1 DEF OpDoes, Arrives, LooksUp, Answers, InsertsRow, RemovesRow, AsksStop, StartsOpening,
                  BeginsClosing, BeginsRetry, Alone
    <3>2. SettlesStart(t) => cancelled' = cancelled \cup {task[t].sid} /\ task[t].sid \in Sid
      BY CalmFacts, TaskFacts DEF SettlesStart, At
    <3> QED
      BY <3>1, <3>2, CalmTypes
  <2>2. CASE t \in Closers /\ CloseDoes(t)
    <3>1. cancelled' = cancelled \/ cancelled' = cancelled \cup WatcherOf(tunnels[task[t].sid])
      BY <2>2 DEF CloseDoes, CloseGoesOn, Kept
    <3> QED
      BY <3>1, WatchersAreConns, CalmTypes
  <2>3. CASE t \in Sid /\ Active(t) /\ StartDoes(t)
    <3>1. HasDropped(t) => cancelled' = (cancelled \ {t}) \cup WatcherOf(tunnels[t])
      BY DEF HasDropped
    <3>2. cancelled' \in {cancelled, cancelled \ {t}} \/ HasDropped(t)
      BY <2>3 DEF StartDoes, OpeningEnds, CleanupDoes
    <3> QED
      BY <3>1, <3>2, WatchersAreConns, CalmTypes
  <2>4. CASE t \in Conn /\ WatchDoes(t)
    BY <2>4, CalmTypes DEF WatchDoes, WatcherDies, WatcherGoesOn, WatcherLeaves, WatcherMends
  <2>5. CASE t = Boot /\ RecoveryDoes
    BY <2>5, CalmTypes DEF RecoveryDoes
  <2> QED
    BY <1>2, <2>1, <2>2, <2>3, <2>4, <2>5, CalmTypes DEF Acts
<1> QED
  BY <1>1, <1>2, StepIs

LEMMA WatchCancelStep ==
  ASSUME CalmStep, NEW c \in Conn, c \in cancelled'
  PROVE  task'[c].pc # "idle" /\ task'[c].pc \notin ReattachPcs
<1>0. c \in Task /\ c \notin Closers /\ c \notin Sid /\ c # Boot /\ c \notin Op /\ c # None
  BY CalmTypes, ServiceAssumption
<1>1. CASE c \notin cancelled
  <2> DEFINE s == task[c].sid
  <2>1. /\ s \in Sid /\ Active(c) /\ tunnels[s].c = c
        /\ tunnels'[s] = NoTunnel /\ task'[c] = task[c]
    BY <1>1, CancelledWatch
  <2>2. tunnels'[s] # tunnels[s]
    BY <1>0, <2>1 DEF NoTunnel
  <2>3. task[c].pc \notin ReattachPcs
    BY <1>0, <2>1, <2>2, AttemptSame DEF Same
  <2> QED
    BY <2>1, <2>3 DEF Active
<1>2. CASE c \in cancelled
  <2>1. Active(c) /\ task[c].pc \notin ReattachPcs
    BY <1>2, CalmFacts DEF CancelledInTime
  <2>2. ~Born(c) /\ ~Started(c)
    BY <1>0, <2>1 DEF Born, Active, At, Started
  <2>3. CASE Acts(c)
    <3>1. WatchDoes(c)
      BY <1>0, <1>2, <2>3 DEF Acts
    <3>2. task'[c].pc = "attempt"
      BY <1>2, <3>1 DEF WatchDoes, WatcherDies, WatcherGoesOn, WatcherLeaves, WatcherMends, From
    <3> QED
      BY <3>2 DEF ReattachPcs
  <2>4. CASE task'[c] = task[c]
    BY <2>1, <2>4 DEF Active
  <2> QED
    BY <1>0, <2>2, <2>3, <2>4, TaskMoves
<1> QED
  BY <1>1, <1>2

LEMMA StartCancelStep ==
  ASSUME CalmStep, NEW s \in Sid, s \in cancelled'
  PROVE  \E o \in Op : task'[o].pc = "start_settles" /\ task'[o].sid = s
<1>1. CASE s \notin cancelled
  BY <1>1, StartCancels DEF SettlesStart, From
<1>2. CASE s \in cancelled
  <2>1. PICK o \in Op : At(o, "start_settles") /\ task[o].sid = s
    BY <1>2, CalmFacts DEF CancelledInTime
  <2>2. task'[s].pc # "idle"
    BY CalmFacts DEF CancelledIsActive, Active
  <2>3. ~CloseDoes(o) /\ ~AttemptDoes(o)
    BY <2>1 DEF CloseDoes, CloseGoesOn, AttemptDoes, AttemptOn, At
  <2>4. CASE OpDoes(o)
    <3>1. BeginsClosing(o)
      BY <2>1, <2>4 DEF OpDoes, Arrives, LooksUp, Answers, InsertsRow, RemovesRow, StartsOpening,
         AsksStop, SettlesStart, BeginsRetry, At
    <3>2. ~Active(s) /\ task'[s] = task[s]
      BY <2>1, <3>1, CalmTypes DEF BeginsClosing, Others
    <3> QED
      BY <2>2, <3>2 DEF Active
  <2>5. CASE task'[o] = task[o]
    BY <2>1, <2>5 DEF At
  <2> QED
    BY <2>3, <2>4, <2>5, OpTurns
<1> QED
  BY <1>1, <1>2

LEMMA CancelStep ==
  ASSUME CalmStep
  PROVE  CancelledInTime'
BY OnlyThese, WatchCancelStep, StartCancelStep DEF CancelledInTime, Active, At

-----------------------------------------------------------------------------
(***************************************************************************)
(* Attempts to reattach (AttemptIsAlone).                                  *)
(***************************************************************************)
\* What AttemptIsAlone says of one attempt.
AloneAt(t) ==
  LET s == task[t].sid IN
  /\ Standing(s)
  /\ ~At(t, "installed") => tunnels[s].c = None /\ registry[s] = None
  /\ At(t, "installed") => registry[s] # None
  /\ task[t].pc \in {"commit", "installed"} => row[s].state = "ready"
  /\ At(t, "commit") => "completed" \in task[t].ledger
  /\ At(t, "drop_conn") => task[t].exc \notin {"late", "cancelled"} /\ ~task[t].old.watched
  /\ t \notin Conn => \A c \in Conn : ~Repairs(c, s)

\* An attempt that begins.
LEMMA AttemptBegins ==
  ASSUME CalmStep, NEW t \in Task, NEW r, NEW s \in Sid, r.sid = s, HasBegun(t, r),
         task'[t].pc \in ReattachPcs, SameRow(s), tunnels' = tunnels, registry'[s] = None,
         t \notin Conn => \A c \in Conn : ~(Repairs(c, s)')
  PROVE  AloneAt(t)'
<1>1. ~HasRaised(t, r)
  BY RestingFields DEF HasRaised, From, ReattachPcs
<1>2. task'[t].pc = "reconnect" /\ task'[t].sid = s /\ tunnels[s].c = None /\ Recoverable(s)
  BY <1>1 DEF HasBegun, From
<1>3. row'[s].state # "closed" /\ ~row'[s].close_reason
  BY <1>2 DEF Recoverable, SameRow
<1> QED
  BY <1>2, <1>3 DEF AloneAt, At, Standing, Exists

\* An attempt another task leaves alone.
LEMMA AttemptWaits ==
  ASSUME CalmStep, NEW t \in Task, task[t].pc \in ReattachPcs, task'[t] = task[t]
  PROVE  AloneAt(t)'
<1> DEFINE s == task[t].sid
<1>1. AloneAt(t)
  BY CalmFacts DEF AttemptIsAlone, AloneAt
<1>2. Same(s) /\ s \in Sid
  BY CalmFacts, AttemptSame, PcKinds
<1>3. ASSUME t \notin Conn, NEW c \in Conn, Repairs(c, s)'
      PROVE  FALSE
  <2>1. TakesDown(c, s)
    BY <1>1, <1>2, <1>3, RepairBegins DEF AloneAt
  <2>2. Works(c, s)
    <3>1. task'[c].sid = task[c].sid /\ task[c].pc = "exit_checks"
      BY <2>1 DEF TakesDown, From, At
    <3> QED
      BY <1>3, <3>1 DEF Repairs, Works, Holding
  <2> QED
    BY <1>3, <2>2, CalmTypes, AttemptLocks
<1> QED
  BY <1>1, <1>2, <1>3 DEF AloneAt, Same, SameRow, Standing, Exists, At

\* An attempt that goes on.
LEMMA AttemptProceeds ==
  ASSUME CalmStep, NEW t \in Closers \cup Conn, AttemptDoes(t), cancelled' = cancelled,
         task[t].pc \in ReattachPcs, task'[t].pc \in ReattachPcs
  PROVE  AloneAt(t)'
<1> DEFINE s == task[t].sid
<1>0. t \in Task /\ s \in Sid /\ AloneAt(t)
  BY CalmFacts, CalmTypes, PcKinds DEF AttemptIsAlone, AloneAt
<1>1. ~HasRaised(t, task[t]) /\ task'[t] # IdleTask /\ task'[t] # NextRowTask
  BY RestingFields DEF HasRaised, From, ReattachPcs
<1>2. ASSUME task'[t].sid = s, t \notin Conn, NEW c \in Conn, Repairs(c, s)'
      PROVE  FALSE
  <2>1. task'[c] = task[c] \/ (Births(t) /\ c = task[t].c)
    BY <1>0, <1>1, <1>2, CalmTypes DEF AttemptDoes, AttemptOn, Others, Births, ReattachPcs, At
  <2>2. ~(Births(t) /\ c = task[t].c)
    BY <1>2, RestingFields DEF Births, Repairs, LostPcs, ReattachPcs
  <2>3. Repairs(c, s)
    BY <1>2, <2>1, <2>2 DEF Repairs
  <2> QED
    BY <1>0, <1>2, <2>3 DEF AloneAt
<1>3. CASE At(t, "reconnect")
  <2>1. From(t, task[t], "inspect") /\ UNCHANGED <<row, tunnels, registry>>
    BY <1>1, <1>3 DEF AttemptDoes, AttemptOn, At
  <2> QED
    BY <1>0, <1>2, <1>3, <2>1 DEF AloneAt, From, At, Standing, Exists
<1>4. CASE task[t].pc \in {"inspect", "remove", "reforward"}
  <2>1. AttemptOn(t)
    BY <1>1, <1>4 DEF AttemptDoes, At
  <2>2. /\ UNCHANGED <<tunnels, registry>> /\ task'[t].sid = s
        /\ task'[t].pc \in {"reforward", "remove", "commit", "drop_conn"}
        /\ task'[t].pc = "drop_conn" => task'[t].exc \notin {"late", "cancelled"} /\ ~task'[t].old.watched
    BY <2>1 DEF AttemptOn, From
  <2>3. CASE task'[t].pc # "commit"
    <3>1. UNCHANGED row
      BY <2>1, <2>3 DEF AttemptOn
    <3> QED
      BY <1>0, <1>2, <1>4, <2>2, <2>3, <3>1 DEF AloneAt, At, Standing, Exists
  <2>4. CASE task'[t].pc = "commit"
    <3>1. CompleteRecovery(s) /\ (Recoverable(s) => "completed" \in task'[t].ledger)
      BY <2>1, <2>4 DEF AttemptOn, From
    <3>2. row[s].state # "closed" /\ row[s].state # "stopping" /\ ~row[s].close_reason
      BY <1>0, CalmFacts, StandingRows DEF AloneAt, Standing, Exists
    <3>3. Recoverable(s)
      BY <1>0, <3>2, CalmTypes DEF Recoverable, Row, LiveRow, LiveState, NoRow
    <3>4. RowTo(s, "ready")
      BY <1>0, <3>1, <3>3, CalmFacts, StateEdited DEF StoreInv
    <3> QED
      BY <1>0, <1>2, <1>4, <2>2, <2>4, <3>1, <3>2, <3>3, <3>4 DEF AloneAt, At, Standing, Exists, RowTo
  <2> QED
    BY <2>3, <2>4
<1>5. CASE At(t, "commit")
  <2>0. ~AttemptOn(t)
    BY <1>5 DEF AttemptOn, At
  <2>1. /\ From(t, task[t], "installed") /\ Births(t) /\ Published(s, task[t].c) /\ UNCHANGED row
    BY <1>1, <1>5, <2>0 DEF AttemptDoes, At
  <2>2. registry'[s] # None
    BY <1>0, <2>1, CalmTypes DEF Births, Published
  <2> QED
    BY <1>0, <1>2, <1>5, <2>1, <2>2 DEF AloneAt, From, At, Standing, Exists
<1>6. ~At(t, "drop_conn") /\ ~At(t, "installed")
  BY <1>1 DEF AttemptDoes, AttemptOn, At
<1> QED
  BY <1>3, <1>4, <1>5, <1>6 DEF At, ReattachPcs

\* A retry finds no watcher at repair work.
LEMMA FailingIsAlone ==
  ASSUME CalmStep, NEW s \in Sid, Failing(s), Standing(s), NEW c \in Conn
  PROVE  ~Repairs(c, s)
<1>1. At(c, "installed") /\ Repairs(c, s) => row[s].state = "ready"
  BY CalmFacts, CalmTypes DEF AttemptIsAlone, Repairs, At, ReattachPcs
<1> QED
  BY <1>1, CalmFacts DEF WatchersAgree, Failing

LEMMA RetryAttempts ==
  ASSUME CalmStep, NEW o \in Op, OpDoes(o), task'[o].pc \in ReattachPcs
  PROVE  AloneAt(o)'
<1>0. task'[o].pc \notin {"idle", "enter", "looked_up", "inserted", "stopping", "start_settles", "fresh", "do_close"}
  BY DEF ReattachPcs
<1>1. BeginsRetry(o)
  BY <1>0, RestingFields DEF OpDoes, Arrives, Answers, LooksUp, InsertsRow, RemovesRow,
     StartsOpening, AsksStop, SettlesStart, BeginsClosing, From
<1>s. task[o].sid \in Sid
  BY <1>1 DEF BeginsRetry
<1>k. PICK s \in Sid : s = task[o].sid
  BY <1>s
<1>2. /\ At(o, "looked_up") /\ task[o].kind = "retry" /\ task[o].rec.state = "error" /\ s \in Sid
      /\ SameRow(s) /\ tunnels' = tunnels /\ cancelled' = cancelled /\ Unpublished(s)
  BY <1>1, <1>k DEF BeginsRetry, SameRows
<1>3. PICK r : HasBegun(o, r) /\ r.sid = s
  BY <1>0, <1>1, <1>k DEF BeginsRetry, From
<1>4. registry'[s] = None
  BY <1>2, CalmTypes DEF Unpublished
<1>5. Failing(s)
  BY <1>2, <1>k, CalmFacts DEF RetryIsDue
<1>6. Others(o) /\ Standing(s)
  BY <1>0, <1>3, RestingFields DEF HasBegun, HasRaised, From, ReattachPcs, Recoverable, Standing, Exists
<1>7. ASSUME NEW c \in Conn, Repairs(c, s)'
      PROVE  FALSE
  <2>1. task'[c] = task[c]
    BY <1>6, CalmTypes, ServiceAssumption DEF Others
  <2>2. Repairs(c, s)
    BY <1>2, <1>7, <2>1 DEF Repairs
  <2> QED
    BY <1>2, <1>5, <1>6, <2>2, FailingIsAlone
<1> QED
  BY <1>2, <1>3, <1>4, <1>7, CalmTypes, AttemptBegins

LEMMA BackoffAttempts ==
  ASSUME CalmStep, NEW t \in Closers \cup Conn, AttemptDoes(t), cancelled' = cancelled,
         task[t].pc \notin ReattachPcs, task'[t].pc \in ReattachPcs
  PROVE  AloneAt(t)'
<1>1. At(t, "backoff")
  BY DEF AttemptDoes, AttemptOn, At, ReattachPcs
<1>2. t \in Task /\ ShapeOK(t, task[t]) /\ task[t].sid \in Sid
  BY <1>1, CalmFacts, CalmTypes, TaskFacts DEF At, MoveInv, TaskShape
<1>k. PICK s \in Sid : s = task[t].sid
  BY <1>2
<1>3. /\ task[t].kind = "retry" /\ UNCHANGED <<tunnels, registry>>
      /\ BeginRecovery(s) \/ UNCHANGED row
      /\ \E r : HasBegun(t, r) /\ r.sid = s
  BY <1>1, <1>k DEF AttemptDoes, AttemptOn, At, From, ReattachPcs
<1>4. t \in Op
  BY <1>2, <1>3, ServiceAssumption DEF ShapeOK, KindOK
<1>5. Failing(s) /\ registry[s] = None
  BY <1>1, <1>3, <1>4, <1>k, CalmFacts DEF RetryIsDue, CloseIsKnown, SettledPcs, At, ReattachPcs
<1>6. SameRow(s)
  BY <1>2, <1>3, CalmFacts, ColumnsEdited DEF StoreInv, SameRows
<1>7. PICK r : HasBegun(t, r) /\ r.sid = s
  BY <1>3
<1>8. Others(t) /\ Standing(s)
  BY <1>7, RestingFields DEF HasBegun, HasRaised, From, ReattachPcs, Recoverable, Standing, Exists
<1>9. ASSUME NEW c \in Conn, Repairs(c, s)'
      PROVE  FALSE
  <2>1. task'[c] = task[c]
    BY <1>4, <1>8, CalmTypes, ServiceAssumption DEF Others
  <2>2. Repairs(c, s)
    BY <1>9, <2>1 DEF Repairs
  <2> QED
    BY <1>2, <1>5, <1>8, <2>2, FailingIsAlone
<1> QED
  BY <1>2, <1>3, <1>5, <1>6, <1>7, <1>9, AttemptBegins

LEMMA BootAttempts ==
  ASSUME CalmStep, RecoveryDoes, task'[Boot].pc \in ReattachPcs
  PROVE  AloneAt(Boot)'
<1>1. ~RecoveryTurns /\ ~RecoveryWorks /\ ~RecoveryLeaves /\ task'[Boot] # IdleTask
  BY RestingFields DEF RecoveryTurns, RecoveryWorks, RecoveryLeaves, ReattachPcs, From
<1>2. /\ At(Boot, "reattach") /\ HasBegun(Boot, task[Boot]) /\ SameRows /\ Others(Boot)
      /\ UNCHANGED <<tunnels, registry, cancelled>>
  BY <1>1 DEF RecoveryDoes
<1>s. task[Boot].sid \in Sid /\ registry[task[Boot].sid] = None
  BY <1>2, CalmFacts, BootWorks DEF At
<1>3. PICK s \in Sid : s = task[Boot].sid /\ registry[s] = None
  BY <1>s
<1>4. \A c \in Conn : task[c].sid # s
  BY <1>2, <1>3, CalmTypes, CalmFacts DEF RecoveryStartsClean, At
<1>5. ASSUME NEW c \in Conn, Repairs(c, s)'
      PROVE  FALSE
  <2>1. task'[c] = task[c]
    BY <1>2, CalmTypes, ServiceAssumption DEF Others
  <2> QED
    BY <1>4, <1>5, <2>1 DEF Repairs
<1> QED
  BY <1>2, <1>3, <1>5, CalmTypes, AttemptBegins DEF SameRows

LEMMA WatchAttempts ==
  ASSUME CalmStep, NEW c \in Conn, WatchDoes(c), task'[c].pc \in ReattachPcs
  PROVE  AloneAt(c)'
<1> DEFINE s == task[c].sid
<1>0. c \in Task
  BY CalmTypes
<1>1. WatcherMends(c)
  BY RestingFields DEF WatchDoes, WatcherDies, WatcherGoesOn, WatcherLeaves, ReattachPcs, At
<1>2. /\ At(c, "attempt_checks") /\ c \notin cancelled /\ UNCHANGED <<tunnels, registry>>
      /\ HasBegun(c, task[c])
  BY <1>1 DEF WatcherMends, From, ReattachPcs, HasBegun
<1>3. SameRows /\ Recoverable(s)
  <2>1. ~HasRaised(c, task[c])
    BY RestingFields DEF HasRaised, From, ReattachPcs
  <2> QED
    BY <1>1, <1>2, <2>1 DEF WatcherMends, HasBegun, At
<1>4. s \in Sid
  BY <1>0, <1>2, CalmFacts, TaskFacts DEF At
<1>5. registry[s] = None
  BY <1>2, <1>3, <1>4, CalmFacts DEF WatchersAgree, Repairs, At, LostPcs, Standing, Exists, Recoverable
<1> QED
  BY <1>0, <1>2, <1>3, <1>4, <1>5, AttemptBegins DEF SameRows

LEMMA AttemptStep ==
  ASSUME CalmStep
  PROVE  AttemptIsAlone'
<1>1. ASSUME NEW t \in Task, task'[t].pc \in ReattachPcs
      PROVE  AloneAt(t)'
  <2>1. CASE task'[t] = task[t]
    BY <1>1, <2>1, AttemptWaits
  <2>2. ~Born(t) /\ ~Started(t)
    BY <1>1, RestingFields DEF Born, Started, StartsOpening, ReattachPcs
  <2>3. CASE t \in Closers /\ CloseDoes(t)
    BY <1>1, <2>3, RestingFields DEF CloseDoes, CloseGoesOn, HasReturned, From, ReattachPcs
  <2>4. CASE t \in Sid
    BY <1>1, <2>4, CalmFacts, NoneAssumption, StartsAreIdleWork DEF AtWork, Busy, Holding, MoveInv, TaskShape,
       ShapeOK, ReattachPcs
  <2>5. CASE Acts(t)
    BY <1>1, <2>3, <2>4, <2>5, RetryAttempts, BackoffAttempts, AttemptProceeds, BootAttempts, WatchAttempts
       DEF Acts
  <2> QED
    BY <2>1, <2>2, <2>5, TaskMoves
<1>2. AttemptIsAlone = \A t \in Task : task[t].pc \in ReattachPcs => AloneAt(t)
  BY DEF AttemptIsAlone, AloneAt
<1> QED
  BY <1>1, <1>2 DEF AttemptIsAlone, AloneAt

-----------------------------------------------------------------------------
(***************************************************************************)
(* Published ports (PortIsWatched).                                        *)
(***************************************************************************)
\* A session whose port is published and that is not being opened is ready or about to
\* be closed: then no watcher of it is past its wait for the alias lock.
LEMMA ServedFacts ==
  ASSUME CalmStep, NEW s \in Sid, registry[s] # None
  PROVE  /\ registry[s] \in Conn /\ tunnels[s] = LiveTunnel(registry[s])
         /\ Guards(registry[s], s) /\ Active(registry[s])
         /\ \/ Active(s) /\ Opening(s) /\ task[s].pc \in {"verify", "ready"} /\ s \notin cancelled
            \/ row[s].state = "ready" \/ StopAsked(s)
         /\ \A c \in Conn : task[c].sid = s /\ Holding(task[c]) => Standing(s)
<1>1. /\ registry[s] \in Conn /\ tunnels[s] = LiveTunnel(registry[s])
      /\ Guards(registry[s], s) /\ Active(registry[s])
      /\ Active(s) \/ row[s].state = "ready" \/ StopAsked(s)
  BY CalmFacts, CalmTypes DEF PortIsWatched, Guards, Active, EarlyPcs
<1>2. Active(s) => Opening(s) /\ task[s].pc \in {"verify", "ready"} /\ s \notin cancelled
  BY CalmFacts DEF OpeningIsAlone, Opening
<1>3. ASSUME NEW c \in Conn, task[c].sid = s, Holding(task[c])
      PROVE  Standing(s)
  <2>1. ~Active(s)
    BY <1>2, <1>3 DEF Opening, Holding, At, DoClosePcs, ReattachPcs
  <2>2. ~StopAsked(s)
    <3>1. SUFFICES ASSUME NEW o \in Op, At(o, "stopping"), task[o].sid = s
                   PROVE  FALSE
      BY DEF StopAsked
    <3>2. Holding(task[o]) /\ o # c /\ o \in Task /\ c \in Task /\ s # None
      BY <3>1, CalmTypes, ServiceAssumption DEF Holding, At
    <3> QED
      BY <1>3, <3>1, <3>2, CalmFacts, OneWorker
  <2> QED
    BY <1>1, <2>1, <2>2, CalmFacts, StandingRows
<1> QED
  BY <1>1, <1>2, <1>3

\* The watcher of a published port does not leave it.
LEMMA PostIsKept ==
  ASSUME CalmStep, NEW s \in Sid, registry[s] # None, registry'[s] = registry[s],
         tunnels'[s] = tunnels[s]
  PROVE  Guards(registry[s], s)'
<1> PICK c \in Conn : c = registry[s]
  BY ServedFacts
<1>1. tunnels[s] = LiveTunnel(c) /\ Guards(c, s) /\ c # None
  BY ServedFacts
<1>2. tunnels'[s] # NoTunnel
  BY <1>1 DEF LiveTunnel, NoTunnel
<1>3. ~CutOff(c, s) /\ ~TakesDown(c, s)
  BY <1>2, Elsewhere DEF CutOff, TakesDown
<1>4. ~WatcherLeaves(c)
  <2>1. task[c].sid = s /\ task[c].pc \in EarlyPcs /\ tunnels[s].c = c
    BY <1>1 DEF Guards, LiveTunnel
  <2>2. CASE At(c, "initial") /\ task[c].rec.state = "closed"
    <3>1. ~Exists(s)
      BY <2>1, <2>2, CalmFacts DEF WatcherReadsRight
    <3>2. Active(s) /\ Opening(s)
      BY <3>1, ServedFacts DEF StopAsked, Exists
    <3> QED
      BY <2>1, <2>2, <3>2 DEF Opening, At
  <2>3. CASE At(c, "exit_checks")
    <3>1. Standing(s)
      BY <2>1, <2>3, ServedFacts DEF Holding, At
    <3>2. ~GoneOrStopping(task[c].rec)
      BY <2>1, <2>3, <3>1, CalmFacts DEF WatcherReadsRight, At
    <3> QED
      BY <2>1, <2>3, <3>2 DEF WatcherLeaves, At
  <2> QED
    BY <2>1, <2>2, <2>3 DEF WatcherLeaves, At, EarlyPcs
<1>5. Guards(c, s)'
  BY <1>1, <1>3, <1>4, GuardEnds
<1> QED
  BY <1>5 DEF Guards

\* A close about to withdraw the port is still about to.
LEMMA StopIsPending ==
  ASSUME CalmStep, NEW s \in Sid, NEW o \in Op, At(o, "stopping"), task[o].sid = s,
         registry'[s] # None
  PROVE  task'[o] = task[o]
<1>1. ~CloseDoes(o) /\ ~AttemptDoes(o)
  BY DEF CloseDoes, CloseGoesOn, AttemptDoes, AttemptOn, At
<1>2. ~Unpublished(s)
  BY Elsewhere
<1>3. ~OpDoes(o)
  BY <1>2 DEF OpDoes, Arrives, LooksUp, Answers, InsertsRow, RemovesRow, StartsOpening,
     AsksStop, SettlesStart, BeginsClosing, BeginsRetry, At
<1> QED
  BY <1>1, <1>3, OpTurns

\* Recovery's own points, and those of a request.
LEMMA BootPcsOnly ==
  ASSUME CalmStep
  PROVE  /\ task[Boot].pc \in {"idle"} \cup BootPcs
         /\ \A o \in Op : task[o].pc \notin {"drop", "mark_lost", "next_row"}
<1>1. ShapeOK(Boot, task[Boot]) /\ Boot \notin Sid /\ Boot \notin Conn /\ Boot \notin Op
  BY CalmFacts, CalmTypes DEF MoveInv, TaskShape
<1>2. task[Boot].pc \in {"idle"} \cup BootPcs
  BY <1>1 DEF ShapeOK, KindOK, Suspended
<1>3. ASSUME NEW o \in Op
      PROVE  task[o].pc \notin {"drop", "mark_lost", "next_row"}
  <2>1. ShapeOK(o, task[o]) /\ o \notin Sid /\ o \notin Conn /\ o # Boot
    BY CalmFacts, CalmTypes, ServiceAssumption DEF MoveInv, TaskShape
  <2> QED
    BY <2>1 DEF ShapeOK, KindOK, Suspended, ClosePcs, RetryPcs, DoClosePcs, ReattachPcs
<1> QED
  BY <1>2, <1>3

\* No one deletes the row of a session whose port is published, or marks it.
LEMMA ServedIsLeft ==
  ASSUME CalmStep, NEW s \in Sid, registry[s] # None, NEW u \in Task, Works(u, s)
  PROVE  ~Deletes(u, s) /\ ~Fails(u, s) /\ ~Completes(u, s)
<1>1. u = s => task[s].pc \in {"verify", "ready"} \/ ~Active(s)
  BY CalmFacts DEF OpeningIsAlone, Opening
<1>2. u # s => task[u].sid = s
  BY DEF Works
<1>3. task[u].pc # "reforward"
  BY <1>1, <1>2, CalmFacts DEF AttemptIsAlone, At, ReattachPcs, Active
<1>4. u \in Closers => u # s /\ task[u].sid = s
  BY <1>2, CalmTypes
<1>5. u \in Closers => task[u].pc \notin {"finish", "drop", "mark_lost", "inserted"}
  <2>1. u \in Closers => task[u].pc # "finish"
    BY <1>4, CloserWorks DEF DoClosePcs
  <2>2. u = Boot => task[u].pc \notin {"drop", "mark_lost"}
    BY <1>4, CalmTypes, BootWorks
  <2>3. u = Boot => task[u].pc # "inserted"
    BY BootPcsOnly DEF BootPcs, DoClosePcs, ReattachPcs
  <2>4. u \in Op => task[u].pc # "inserted"
    BY <1>4, CalmFacts, CalmTypes DEF OpeningIsAlone, NothingYet, At
  <2> QED
    BY <2>1, <2>2, <2>3, <2>4, BootPcsOnly DEF Closers
<1>6. u \in Conn /\ At(u, "lost_checks") => u \in cancelled
  <2>1. SUFFICES ASSUME u \in Conn, At(u, "lost_checks"), u \notin cancelled
                 PROVE  FALSE
    OBVIOUS
  <2>2. task[u].sid = s
    BY <1>2, <2>1, CalmTypes
  <2>3. Standing(s) /\ Repairs(u, s)
    BY <2>1, <2>2, ServedFacts DEF Holding, At, Repairs, LostPcs
  <2> QED
    BY <2>1, <2>3, CalmFacts DEF WatchersAgree, At
<1> QED
  BY <1>1, <1>3, <1>5, <1>6 DEF Deletes, Fails, Completes, At, Active

\* What PortIsWatched says of one session.
WatchedAt(s) ==
  /\ tunnels[s] = LiveTunnel(registry[s]) /\ Guards(registry[s], s)
  /\ Active(s) \/ row[s].state = "ready" \/ StopAsked(s)

\* A port is published only while the start task is at work, the row says ready or a
\* close is about to withdraw it.
LEMMA StaysDriven ==
  ASSUME CalmStep, NEW s \in Sid, registry[s] # None, registry'[s] # None, SameRow(s)
  PROVE  (Active(s) \/ row[s].state = "ready" \/ StopAsked(s))'
<1>1. CASE row[s].state = "ready"
  BY <1>1 DEF SameRow
<1>2. CASE StopAsked(s)
  <2>1. PICK o \in Op : At(o, "stopping") /\ task[o].sid = s
    BY <1>2 DEF StopAsked
  <2>2. task'[o] = task[o]
    BY <2>1, StopIsPending
  <2> QED
    BY <1>2, <2>1, <2>2 DEF StopAsked, SameRow, At
<1>3. CASE Active(s) /\ Opening(s) /\ task[s].pc \in {"verify", "ready"} /\ s \notin cancelled
  <2>1. CASE task'[s] = task[s]
    BY <1>3, <2>1 DEF Active
  <2>2. ~Started(s)
    BY <1>3, StartedAlone
  <2>3. CASE StartDoes(s)
    <3>1. ~CleanupDoes(s) /\ ~OpensOn(s)
      BY <1>3 DEF CleanupDoes, OpensOn, HasDropped, At
    <3>2. CASE At(s, "ready") /\ task'[s] = IdleTask
      BY <1>1, <1>2, <1>3, <3>2 DEF Opening, OpeningPcs, At
    <3>3. CASE ~(At(s, "ready") /\ task'[s] = IdleTask)
      BY <2>3, <3>1, <3>3 DEF StartDoes, OpeningDoes, OpeningEnds, HasDropped, From, Active
    <3> QED
      BY <3>2, <3>3
  <2> QED
    BY <1>3, <2>1, <2>2, <2>3, StartMoves
<1> QED
  BY <1>1, <1>2, <1>3, ServedFacts

\* A new port.
LEMMA PortIsNew ==
  ASSUME CalmStep, NEW s \in Sid, NEW u \in Task, Works(u, s), Publishes(u, s) \/ Installs(u, s)
  PROVE  WatchedAt(s)'
<1> DEFINE c == task[u].c
<1>1. /\ Births(u) /\ UNCHANGED <<row, cancelled>> /\ Keep(s, LiveTunnel(c)) /\ Published(s, c)
      /\ task[u].sid = s
  BY PcKinds, CalmFacts, CalmTypes DEF Publishes, Installs, Works, OpeningIsAlone, Opening, Closers
<1>2. c \in Conn /\ task[c].pc = "idle" /\ task'[c] = Watcher(s)
  BY <1>1 DEF Births
<1>3. c \notin cancelled /\ registry'[s] = c /\ tunnels'[s] = LiveTunnel(c)
  BY <1>1, <1>2, CalmFacts, CalmTypes DEF CancelledInTime, Active, Published, Keep
<1>4. task'[c].sid = s /\ task'[c].pc \in EarlyPcs
  BY <1>2, RestingFields DEF EarlyPcs
<1>5. CASE Publishes(u, s)
  BY <1>1, <1>3, <1>4, <1>5 DEF Publishes, From, WatchedAt, Guards, Active
<1>6. CASE Installs(u, s)
  <2>1. row[s].state = "ready"
    BY <1>1, <1>6, CalmFacts DEF Installs, AttemptIsAlone, At, ReattachPcs
  <2> QED
    BY <1>1, <1>3, <1>4, <2>1 DEF WatchedAt, Guards
<1> QED
  BY <1>5, <1>6

LEMMA PortStep ==
  ASSUME CalmStep
  PROVE  PortIsWatched'
<1>1. ASSUME NEW s \in Sid, registry'[s] # None
      PROVE  WatchedAt(s)'
  <2>1. ASSUME registry[s] # None, registry'[s] = registry[s], tunnels'[s] = tunnels[s]
        PROVE  tunnels'[s] = LiveTunnel(registry'[s]) /\ Guards(registry[s], s)'
    BY <2>1, PostIsKept, ServedFacts
  <2>2. CASE Same(s)
    BY <1>1, <2>1, <2>2, StaysDriven DEF Same, WatchedAt
  <2>3. ASSUME NEW u \in Task, Inserts(u, s)
        PROVE  FALSE
    BY <1>1, <2>3, InsertsAreNew
  <2>4. ASSUME NEW u \in Task, Works(u, s), Shuts(u, s) \/ Drops(u, s) \/ TakesDown(u, s)
        PROVE  FALSE
    BY <1>1, <2>4, Elsewhere DEF Shuts, Drops, TakesDown
  <2>5. ASSUME NEW u \in Task, Empties(u, s) \/ Retains(u, s)
        PROVE  FALSE
    BY <1>1, <2>5 DEF Empties, Retains
  <2>6. ASSUME NEW u \in Task, Works(u, s), Deletes(u, s) \/ Fails(u, s) \/ Completes(u, s)
        PROVE  FALSE
    BY <1>1, <2>6, ServedIsLeft DEF Deletes, Fails, Completes, OnlyRow
  <2>7. ASSUME NEW u \in Task, Asks(u, s)
        PROVE  WatchedAt(s)'
    <3>1. /\ UNCHANGED <<tunnels, registry>> /\ task'[u].pc = "stopping" /\ task'[u].sid = s
          /\ row'[s].state = "stopping" /\ u \in Op
      BY <2>7, RowValues DEF Asks, AsksStop, From
    <3> QED
      BY <1>1, <2>1, <3>1 DEF WatchedAt, StopAsked, At
  <2>8. ASSUME NEW u \in Task, Readies(u, s)
        PROVE  WatchedAt(s)'
    <3>1. UNCHANGED <<tunnels, registry>> /\ row'[s].state = "ready"
      BY <2>8, RowValues DEF Readies, OnlyRow
    <3> QED
      BY <1>1, <2>1, <3>1 DEF WatchedAt
  <2> QED
    BY <2>2, <2>3, <2>4, <2>5, <2>6, <2>7, <2>8, PortIsNew, StepEvents DEF Event
<1> QED
  BY <1>1 DEF PortIsWatched, WatchedAt

-----------------------------------------------------------------------------
(***************************************************************************)
(* The watchers of a session (WatchersAgree).                              *)
(***************************************************************************)
\* A session that stands stood before, or was just inserted and no task knows it.
LEMMA StandsSince ==
  ASSUME CalmStep, NEW s \in Sid, row'[s].state # "closed", ~row'[s].close_reason, ~Standing(s)
  PROVE  /\ \E u \in Task : Inserts(u, s)
         /\ \A c \in Conn : ~(Guards(c, s)') /\ ~(Repairs(c, s)')
<1>1. \A t \in Task : task[t].sid # s
  BY CalmFacts, NotStandingStays
<1>2. \A t \in Task : ~Works(t, s)
  BY <1>1, CalmFacts, CalmTypes DEF Works, OpeningIsAlone, Opening
<1>3. ~SameRow(s)
  BY DEF SameRow, Standing, Exists
<1>4. PICK u \in Task : Inserts(u, s)
  BY <1>2, <1>3, RowTurns
<1>5. /\ registry'[s] = None /\ tunnels[s] = NoTunnel /\ ~Active(s)
  BY <1>4, InsertsAreNew
<1>6. ASSUME NEW c \in Conn, Guards(c, s)' \/ Repairs(c, s)'
      PROVE  FALSE
  <2>1. ~Guards(c, s) /\ ~Repairs(c, s)
    BY <1>1, CalmTypes DEF Guards, Repairs
  <2>2. \A v \in Task : task[v].c = c => ~Publishes(v, s) /\ ~Installs(v, s)
    BY <1>5, CalmTypes DEF Publishes, Installs, Published
  <2>3. ~TakesDown(c, s)
    BY <1>5, CalmTypes DEF TakesDown, NoTunnel
  <2> QED
    BY <1>6, <2>1, <2>2, <2>3, GuardBegins, RepairBegins
<1> QED
  BY <1>4, <1>6

\* A watcher that takes its tunnel down was at its post, with the row ready.
LEMMA TakenDown ==
  ASSUME CalmStep, NEW s \in Sid, Standing(s), NEW c \in Conn, TakesDown(c, s), task[c].sid = s
  PROVE  registry[s] = c /\ row[s].state = "ready" /\ Holding(task[c])
<1>1. At(c, "exit_checks") /\ c \notin cancelled /\ Holding(task[c])
  BY DEF TakesDown, At, Holding
<1>2. Guards(c, s) /\ registry[s] = c
  BY <1>1, CalmFacts DEF Guards, EarlyPcs, At, WatchersAgree
<1>3. ~Active(s)
  BY <1>1, CalmFacts DEF OpeningIsAlone, Opening, At
<1>4. ~StopAsked(s)
  BY CalmFacts, StandingRows DEF StopAsked
<1> QED
  BY <1>1, <1>2, <1>3, <1>4, CalmFacts, CalmTypes DEF PortIsWatched

LEMMA GuardStep ==
  ASSUME CalmStep, NEW s \in Sid, Standing(s), NEW c \in Conn, Guards(c, s)'
  PROVE  registry'[s] = c
<1>1. ASSUME NEW u \in Task, task[u].c = c, Publishes(u, s) \/ Installs(u, s)
      PROVE  registry'[s] = c
  BY <1>1, CalmTypes DEF Publishes, Installs, Published
<1>2. CASE Guards(c, s)
  <2>1. registry[s] = c /\ c # None /\ tunnels[s] = LiveTunnel(c) /\ Active(c) /\ c \in Task
    BY <1>2, CalmFacts, CalmTypes, ServedFacts DEF WatchersAgree
  <2>2. ASSUME NEW u \in Task
        PROVE  ~Inserts(u, s) /\ ~Empties(u, s) /\ ~Retains(u, s) /\ ~Shuts(u, s)
    BY <2>1, InsertsAreNew DEF Empties, Retains, Shuts
  <2>3. ASSUME NEW u \in Task, Works(u, s), Publishes(u, s) \/ Installs(u, s)
        PROVE  FALSE
    <3>1. CASE Publishes(u, s)
      BY <2>1, <3>1, CalmFacts DEF Publishes, OpeningIsAlone, Opening, At, Active
    <3>2. CASE Installs(u, s)
      <4>1. At(u, "commit") /\ u \notin Sid
        BY <3>2, CalmTypes DEF Installs
      <4>2. task[u].sid = s
        BY <2>3, <4>1 DEF Works
      <4> QED
        BY <2>1, <4>1, <4>2, CalmFacts DEF AttemptIsAlone, At, ReattachPcs
    <3> QED
      BY <2>3, <3>1, <3>2
  <2>4. ASSUME NEW u \in Task, Drops(u, s)
        PROVE  FALSE
    <3>1. c \in WatcherOf(tunnels[s])
      BY <2>1 DEF WatcherOf, LiveTunnel
    <3>2. c \in cancelled'
      BY <2>4, <3>1 DEF Drops
    <3> QED
      BY <3>2 DEF Guards
  <2>5. ASSUME NEW u \in Task, TakesDown(u, s)
        PROVE  FALSE
    <3>1. u = c /\ task'[c].pc = "close_lost"
      BY <2>1, <2>5 DEF TakesDown, LiveTunnel, From
    <3> QED
      BY <3>1 DEF Guards, EarlyPcs
  <2>6. ASSUME NEW u \in Task, Asks(u, s) \/ Deletes(u, s) \/ Fails(u, s) \/ Readies(u, s) \/ Completes(u, s)
        PROVE  registry' = registry
    BY <2>6 DEF Asks, AsksStop, Deletes, Fails, Readies, Completes, OnlyRow
  <2> QED
    BY <2>1, <2>2, <2>3, <2>4, <2>5, <2>6, StepEvents DEF Event, Same
<1> QED
  BY <1>1, <1>2, GuardBegins

\* A watcher at repair work finds the row ready, and no one else repairs the session.
LEMMA RepairedRow ==
  ASSUME CalmStep, NEW s \in Sid, Standing(s), NEW c \in Conn, Repairs(c, s), Repairs(c, s)',
         row[s].state = "ready", row'[s].state # "closed", ~row'[s].close_reason
  PROVE  row'[s].state = "ready"
<1>1. c \in Task /\ task[c].sid = s /\ c \notin cancelled
  BY CalmTypes DEF Repairs
<1>2. ~Active(s)
  BY <1>1, CalmFacts DEF OpeningIsAlone, Opening, Repairs, At, LostPcs, ReattachPcs
<1>3. ASSUME NEW u \in Task, Inserts(u, s)
      PROVE  FALSE
  BY <1>1, <1>3, InsertsAreNew
<1>4. ASSUME NEW u \in Task, Works(u, s), Fails(u, s)
      PROVE  FALSE
  <2>1. task[u].sid = s
    BY <1>2, <1>4 DEF Works
  <2>2. u # s
    BY <1>2, <1>4, CalmTypes DEF Fails, Active
  <2>3. CASE u \in Conn /\ At(u, "lost_checks") /\ u \notin cancelled /\ task'[u] = IdleTask
    <3>1. Repairs(u, s)
      BY <2>1, <2>3 DEF Repairs, At, LostPcs
    <3>2. u = c
      BY <2>3, <3>1, CalmFacts DEF WatchersAgree
    <3> QED
      BY <2>3, <3>2, RestingFields DEF Repairs, LostPcs, ReattachPcs
  <2>4. CASE u \in Op /\ At(u, "finish")
    <3>1. task[u].kind \in {"close", "force", "retry"}
      BY <2>4, CalmFacts, CalmTypes, TaskFacts, ServiceAssumption DEF Suspended, KindOK, At, StartPcs, WatchPcs
    <3>2. CASE task[u].kind = "retry"
      BY <2>1, <2>4, <3>2, CalmFacts DEF RetryIsDue, SettledPcs, DoClosePcs, At, Failing, ReattachPcs
    <3>3. CASE task[u].kind # "retry"
      BY <2>1, <2>4, <3>1, <3>3, CalmFacts DEF CloseIsKnown, ClosePcs, DoClosePcs, At
    <3> QED
      BY <3>2, <3>3
  <2>5. CASE u = Boot /\ task[u].pc \in {"finish", "mark_lost"}
    <3>1. s \in unrecovered /\ ~At(Boot, "installed")
      BY <2>1, <2>5, CalmFacts, CalmTypes DEF RecoveryStartsClean, At
    <3> QED
      BY <1>1, <3>1, CalmFacts DEF RecoveryStartsClean
  <2> QED
    BY <1>4, <2>2, <2>3, <2>4, <2>5, BootPcsOnly DEF Fails, Closers, At
<1>5. ASSUME NEW u \in Task, Asks(u, s) \/ Deletes(u, s)
      PROVE  FALSE
  BY <1>5, RowValues
<1>6. CASE SameRow(s)
  BY <1>6 DEF SameRow
<1> QED
  BY <1>3, <1>4, <1>5, <1>6, RowTurns, RowValues

LEMMA RepairStep ==
  ASSUME CalmStep, NEW s \in Sid, Standing(s), NEW c \in Conn, Repairs(c, s)',
         task'[c].pc # "installed", row'[s].state # "closed", ~row'[s].close_reason
  PROVE  registry'[s] = None /\ row'[s].state = "ready"
<1>0. c \in Task
  BY CalmTypes
<1>1. CASE TakesDown(c, s)
  <2>1. task[c].sid = s
    BY <1>1 DEF TakesDown, From, Repairs
  <2>2. row[s].state = "ready" /\ UNCHANGED row /\ Unpublished(s)
    BY <1>1, <2>1, TakenDown DEF TakesDown
  <2> QED
    BY <2>2, CalmTypes DEF Unpublished
<1>2. CASE Repairs(c, s)
  <2>1. ~At(c, "installed")
    <3>1. CASE task'[c] = task[c]
      BY <3>1 DEF At
    <3>2. At(c, "installed") /\ AttemptDoes(c) => task'[c] = IdleTask \/ c = Boot
      BY DEF AttemptDoes, AttemptOn, At
    <3>3. At(c, "installed") => ~WatchDoes(c)
      <4>1. At(c, "installed") => c \notin cancelled
        BY <1>2 DEF Repairs
      <4> QED
        BY <4>1 DEF WatchDoes, WatcherDies, WatcherGoesOn, WatcherLeaves, WatcherMends, At
    <3>4. ~At(c, "idle")
      BY <1>2 DEF Repairs, At, LostPcs, ReattachPcs
    <3>5. task'[c] # IdleTask
      BY RestingFields DEF Repairs, LostPcs, ReattachPcs
    <3> QED
      BY <1>0, <3>1, <3>2, <3>3, <3>4, <3>5, TaskMoves, CalmTypes, ServiceAssumption
         DEF Acts, Born, Started, Closers
  <2>2. registry[s] = None /\ row[s].state = "ready" /\ task[c].sid = s
    BY <1>2, <2>1, CalmFacts DEF WatchersAgree, Repairs
  <2>3. row'[s].state = "ready"
    BY <1>2, <2>2, RepairedRow
  <2>4. ASSUME NEW u \in Task, Publishes(u, s)
        PROVE  FALSE
    BY <1>2, <2>2, <2>4, CalmFacts DEF Publishes, OpeningIsAlone, Opening, Active, At, Repairs, LostPcs, ReattachPcs
  <2>5. ASSUME NEW u \in Task, Works(u, s), Installs(u, s)
        PROVE  FALSE
    <3>1. At(u, "commit") /\ u \notin Sid /\ u \notin cancelled /\ task'[u].pc = "installed"
      BY <2>5, CalmTypes DEF Installs, From
    <3>2. task[u].sid = s
      BY <2>5, <3>1 DEF Works
    <3>3. CASE u \in Conn
      <4>1. Repairs(u, s)
        BY <3>1, <3>2 DEF Repairs, At, LostPcs, ReattachPcs
      <4>2. u = c
        BY <1>2, <3>3, <4>1, CalmFacts DEF WatchersAgree
      <4> QED
        BY <3>1, <4>2
    <3>4. CASE u \notin Conn
      BY <1>2, <3>1, <3>2, <3>4, CalmFacts DEF AttemptIsAlone, At, ReattachPcs
    <3> QED
      BY <3>3, <3>4
  <2> QED
    BY <2>2, <2>3, <2>4, <2>5, PortBegins
<1> QED
  BY <1>1, <1>2, RepairBegins

LEMMA OneRepairs ==
  ASSUME CalmStep, NEW s \in Sid, Standing(s), NEW c \in Conn, NEW d \in Conn,
         Repairs(c, s)', Repairs(d, s)'
  PROVE  c = d
<1>1. ASSUME NEW x \in Conn, TakesDown(x, s), Repairs(x, s)', NEW y \in Conn, Repairs(y, s)
      PROVE  x = y
  <2>1. task[x].sid = s
    BY <1>1 DEF TakesDown, From, Repairs
  <2>2. registry[s] = x /\ Holding(task[x]) /\ x # None
    BY <1>1, <2>1, TakenDown, CalmTypes
  <2>3. At(y, "installed")
    BY <1>1, <2>2, CalmFacts DEF WatchersAgree
  <2>4. task[y].sid = s /\ Holding(task[y]) /\ x \in Task /\ y \in Task /\ s # None
    BY <1>1, <2>3, CalmTypes DEF Repairs, Holding, At, ReattachPcs
  <2> QED
    BY <2>1, <2>2, <2>4, CalmFacts, OneWorker
<1>2. CASE TakesDown(c, s) /\ TakesDown(d, s)
  BY <1>2 DEF TakesDown
<1>3. CASE Repairs(c, s) /\ Repairs(d, s)
  BY <1>3, CalmFacts DEF WatchersAgree
<1> QED
  BY <1>1, <1>2, <1>3, RepairBegins

LEMMA WatchersStep ==
  ASSUME CalmStep
  PROVE  WatchersAgree'
<1>1. ASSUME NEW s \in Sid, row'[s].state # "closed", ~row'[s].close_reason
      PROVE  /\ \A c \in Conn : Guards(c, s)' => registry'[s] = c
             /\ \A c \in Conn : Repairs(c, s)' /\ task'[c].pc # "installed" =>
                  registry'[s] = None /\ row'[s].state = "ready"
             /\ \A c, d \in Conn : Repairs(c, s)' /\ Repairs(d, s)' => c = d
  <2>1. CASE Standing(s)
    BY <1>1, <2>1, GuardStep, RepairStep, OneRepairs
  <2>2. CASE ~Standing(s)
    BY <1>1, <2>2, StandsSince
  <2> QED
    BY <2>1, <2>2
<1> QED
  BY <1>1 DEF WatchersAgree, Standing, Exists, At

-----------------------------------------------------------------------------
(***************************************************************************)
(* What watchers read (WatcherReadsRight).                                 *)
(***************************************************************************)
LEMMA ReadsStep ==
  ASSUME CalmStep
  PROVE  WatcherReadsRight'
<1> DEFINE Right(c) ==
      LET s == task'[c].sid IN
      /\ task'[c].pc \in {"exit_checks", "attempt_checks", "lost_checks"}
           /\ GoneOrStopping(task'[c].rec) =>
             ~(row'[s].state # "closed" /\ ~row'[s].close_reason)
      /\ task'[c].pc = "initial" /\ task'[c].rec.state = "closed" => row'[s].state = "closed"
<1>1. ASSUME NEW c \in Conn
      PROVE  Right(c)
  <2>0. c \in Task /\ c \notin Closers /\ c \notin Sid /\ c # Boot /\ c \notin Op
    BY CalmTypes, ServiceAssumption
  <2>1. CASE task'[c] = task[c]
    <3>1. ASSUME task[c].pc \in {"exit_checks", "attempt_checks", "lost_checks", "initial"}
          PROVE  task[c].sid \in Sid
      BY <2>0, <3>1, CalmFacts, TaskFacts
    <3>2. ASSUME task[c].pc \in {"exit_checks", "attempt_checks", "lost_checks"},
                 GoneOrStopping(task[c].rec)
          PROVE  ~(row'[task[c].sid].state # "closed" /\ ~row'[task[c].sid].close_reason)
      <4>1. ~Standing(task[c].sid)
        BY <3>2, CalmFacts DEF WatcherReadsRight
      <4> QED
        BY <2>0, <3>1, <3>2, <4>1, CalmFacts, NotStandingStays
    <3>3. ASSUME task[c].pc = "initial", task[c].rec.state = "closed"
          PROVE  row'[task[c].sid].state = "closed"
      <4>1. ~Exists(task[c].sid)
        BY <3>3, CalmFacts DEF WatcherReadsRight, At
      <4> QED
        BY <2>0, <3>1, <3>3, <4>1, CalmFacts, RowRemains
    <3> QED
      BY <2>1, <3>2, <3>3
  <2>2. CASE AttemptDoes(c)
    <3>1. task'[c].pc \notin {"exit_checks", "attempt_checks", "lost_checks", "initial"}
      BY <2>2, RestingFields DEF AttemptDoes, AttemptOn, HasBegun, HasRaised, From
    <3> QED
      BY <3>1
  <2>3. CASE WatchDoes(c)
    <3>1. CASE WatcherGoesOn(c)
      <4>1. /\ UNCHANGED row /\ task'[c].sid = task[c].sid
            /\ task'[c].pc \in {"exit_checks", "attempt_checks", "lost_checks", "initial"} =>
                 task'[c].rec = row[task[c].sid]
        BY <3>1 DEF WatcherGoesOn
      <4>2. task[c].sid \in Sid
        BY <2>0, <3>1, CalmFacts, TaskFacts DEF WatcherGoesOn, At
      <4> QED
        BY <4>1, <4>2, CalmFacts DEF GoneOrStopping, CloseIsKnown
    <3>2. CASE ~WatcherGoesOn(c)
      <4>1. task'[c].pc \notin {"exit_checks", "attempt_checks", "lost_checks", "initial"}
        BY <2>3, <3>2, RestingFields DEF WatchDoes, WatcherDies, WatcherLeaves, WatcherMends, HasBegun, HasRaised, From
      <4> QED
        BY <4>1
    <3> QED
      BY <3>1, <3>2
  <2>4. CASE Born(c)
    BY <2>4, RestingFields DEF Born
  <2> QED
    BY <2>0, <2>1, <2>2, <2>3, <2>4, TaskMoves DEF Acts, Started
<1> QED
  BY <1>1 DEF WatcherReadsRight, Standing, Exists, At

-----------------------------------------------------------------------------
(***************************************************************************)
(* Recovery (RecoveryStartsClean).                                         *)
(***************************************************************************)
\* Recovery leaves a row when it turns to the next one.
LEMMA RecoveryLists ==
  ASSUME CalmStep
  PROVE  \/ unrecovered' = unrecovered
         \/ /\ unrecovered' = unrecovered \ {task[Boot].sid} /\ task'[Boot] = NextRowTask
            /\ CloseDoes(Boot) \/ AttemptDoes(Boot) \/ RecoveryDoes
<1> DEFINE Leaves == /\ unrecovered' = unrecovered \ {task[Boot].sid} /\ task'[Boot] = NextRowTask
                     /\ CloseDoes(Boot) \/ AttemptDoes(Boot) \/ RecoveryDoes
<1>1. Still => unrecovered' = unrecovered
  BY DEF Still
<1>2. ASSUME NEW t \in Task, Acts(t)
      PROVE  unrecovered' = unrecovered \/ Leaves
  <2>1. ASSUME NEW r, HasRaised(t, r), r.sid = task[t].sid, r.kind = task[t].kind
        PROVE  unrecovered' = unrecovered \/ (unrecovered' = unrecovered \ {task[Boot].sid} /\ task'[Boot] = NextRowTask /\ t = Boot)
    BY <2>1 DEF HasRaised
  <2>2. ASSUME NEW r, HasBegun(t, r), r.sid = task[t].sid, r.kind = task[t].kind
        PROVE  unrecovered' = unrecovered \/ (unrecovered' = unrecovered \ {task[Boot].sid} /\ task'[Boot] = NextRowTask /\ t = Boot)
    BY <2>1, <2>2 DEF HasBegun
  <2>3. CASE t \in Op /\ OpDoes(t)
    <3>1. BeginsRetry(t) => unrecovered' = unrecovered
      BY <2>2, <2>3, CalmTypes DEF BeginsRetry
    <3> QED
      BY <2>3, <3>1 DEF OpDoes, Arrives, LooksUp, Answers, InsertsRow, RemovesRow, StartsOpening,
         AsksStop, SettlesStart, BeginsClosing, Alone
  <2>4. CASE t \in Closers /\ CloseDoes(t)
    BY <2>4 DEF CloseDoes, CloseGoesOn, HasReturned
  <2>5. CASE AttemptDoes(t)
    BY <2>1, <2>2, <2>5 DEF AttemptDoes, AttemptOn
  <2>6. CASE t \in Sid /\ StartDoes(t)
    BY <2>6 DEF StartDoes
  <2>7. CASE t \in Conn /\ WatchDoes(t)
    BY <2>7 DEF WatchDoes
  <2>8. CASE t = Boot /\ RecoveryDoes
    BY <2>1, <2>2, <2>8 DEF RecoveryDoes, RecoveryTurns, RecoveryWorks, RecoveryLeaves
  <2> QED
    BY <1>2, <2>3, <2>4, <2>5, <2>6, <2>7, <2>8 DEF Acts
<1> HIDE DEF Leaves
<1>3. unrecovered' = unrecovered \/ Leaves
  BY <1>1, <1>2, StepIs
<1> QED
  BY <1>3 DEF Leaves

\* While recovery has rows on its list it runs alone: on those it has not repaired no
\* other task works.
LEMMA RecoveryWorksAlone ==
  ASSUME CalmStep, NEW s \in Sid, s \in unrecovered
  PROVE  /\ Active(Boot) /\ ~Active(s) /\ \A o \in Op : ~Active(o)
         /\ ~(At(Boot, "installed") /\ task[Boot].sid = s) =>
              /\ registry[s] = None /\ \A c \in Conn : task[c].sid # s
              /\ \A u \in Task : Works(u, s) => u = Boot
<1>1. Active(Boot) /\ ~Active(s) /\ \A o \in Op : ~Active(o)
  BY CalmFacts DEF RecoveryIsAlone, Settled
<1>2. ASSUME ~(At(Boot, "installed") /\ task[Boot].sid = s)
      PROVE  registry[s] = None /\ \A c \in Conn : task[c].sid # s
  BY <1>2, CalmFacts DEF RecoveryStartsClean
<1>3. ASSUME NEW u \in Task, Works(u, s), \A c \in Conn : task[c].sid # s
      PROVE  u = Boot
  <2>1. u # s
    <3>1. ASSUME u = s
          PROVE  FALSE
      <4>1. task[s].pc = "idle"
        BY <1>1 DEF Active
      <4>2. s \notin Op
        BY CalmTypes, ServiceAssumption
      <4> QED
        BY <1>3, <3>1, <4>1, <4>2 DEF Works, Holding, Active, DoClosePcs, ReattachPcs
    <3> QED
      BY <3>1
  <2>2. u \in Sid => FALSE
    <3>1. ASSUME u \in Sid
          PROVE  FALSE
      <4>1. ShapeOK(u, task[u]) /\ u \notin Op /\ task[u].sid = s
        BY <1>3, <2>1, <3>1, CalmFacts, ServiceAssumption DEF MoveInv, TaskShape, Works
      <4>2. ~AtWork(task[u])
        BY <3>1, <4>1, StartsAreIdleWork
      <4> QED
        BY <1>3, <2>1, <4>1, <4>2, CalmTypes DEF Works, AtWork, Busy
    <3> QED
      BY <3>1
  <2>3. u \notin Op
    BY <1>1, <1>3, <2>1 DEF Works, Active, Holding, ClosePcs, DoClosePcs, ReattachPcs
  <2>4. u \notin Conn
    BY <1>3, <2>1 DEF Works
  <2> QED
    BY <2>2, <2>3, <2>4 DEF Task
<1> QED
  BY <1>1, <1>2, <1>3

LEMMA ListedStep ==
  ASSUME CalmStep, NEW s \in Sid, s \in unrecovered', ~(task'[Boot].pc = "installed" /\ task'[Boot].sid = s)
  PROVE  registry'[s] = None /\ \A c \in Conn : task'[c].sid # s
<1>1. s \in unrecovered
  BY RecoveryLists
<1>2. ~(At(Boot, "installed") /\ task[Boot].sid = s)
  <2>1. SUFFICES ASSUME At(Boot, "installed"), task[Boot].sid = s
                 PROVE  FALSE
    OBVIOUS
  <2>2. task'[Boot] # task[Boot]
    BY <2>1 DEF At
  <2>3. ~CloseDoes(Boot) /\ ~RecoveryDoes
    BY <2>1 DEF CloseDoes, CloseGoesOn, RecoveryDoes, RecoveryTurns, RecoveryWorks, RecoveryLeaves, At
  <2>4. AttemptDoes(Boot)
    BY <2>2, <2>3, TaskMoves, CalmTypes, ServiceAssumption DEF Acts, Born, Started
  <2>5. task[Boot].kind = "boot"
    BY <2>1, CalmFacts, CalmTypes, PcKinds DEF Active, At
  <2>6. unrecovered' = unrecovered \ {s}
    BY <2>1, <2>4, <2>5 DEF AttemptDoes, AttemptOn, At
  <2> QED
    BY <2>6
<1>3. ASSUME NEW u \in Task, Works(u, s), Publishes(u, s) \/ Installs(u, s)
      PROVE  FALSE
  <2>1. u = Boot
    BY <1>1, <1>2, <1>3, RecoveryWorksAlone
  <2>2. Installs(Boot, s) /\ Boot \notin Sid /\ Boot # s
    BY <1>3, <2>1, CalmTypes DEF Publishes
  <2>3. task'[Boot].pc = "installed" /\ task'[Boot].sid = s
    BY <1>3, <2>1, <2>2 DEF Installs, From, Works
  <2> QED
    BY <2>3
<1>4. registry'[s] = None
  BY <1>1, <1>2, <1>3, RecoveryWorksAlone, PortBegins
<1>5. ASSUME NEW c \in Conn, task'[c].sid = s
      PROVE  FALSE
  <2>0. c \in Task /\ c \notin Closers /\ c \notin Sid /\ c # Boot /\ c \notin Op /\ s # None /\ task[c].sid # s
    BY <1>1, <1>2, CalmTypes, ServiceAssumption, RecoveryWorksAlone
  <2>1. CASE Born(c)
    <3>1. PICK u \in Task : /\ task'[c] = Watcher(task[u].sid)
                            /\ Publishes(u, task[u].sid) \/ Installs(u, task[u].sid)
      BY <2>1 DEF Born
    <3>2. task[u].sid = s
      BY <1>5, <3>1, RestingFields
    <3>3. registry'[s] # None
      <4>1. task[u].c \in Conn
        BY <3>1, <3>2 DEF Publishes, Installs, Births
      <4> QED
        BY <3>1, <3>2, <4>1, CalmTypes DEF Publishes, Installs, Published
    <3> QED
      BY <1>4, <3>3
  <2>2. CASE AttemptDoes(c)
    BY <1>5, <2>0, <2>2, RestingFields, WatcherRepairs
  <2>3. CASE WatchDoes(c)
    BY <1>5, <2>0, <2>3, RestingFields, WatcherPosts DEF TakesDown, From, WatcherLeaves
  <2> QED
    BY <1>5, <2>0, <2>1, <2>2, <2>3, TaskMoves DEF Acts, Started
<1> QED
  BY <1>4, <1>5

\* Recovery's own steps.
LEMMA BootTurns ==
  ASSUME CalmStep
  PROVE  task'[Boot] = task[Boot] \/ CloseDoes(Boot) \/ AttemptDoes(Boot) \/ RecoveryDoes
BY TaskMoves, CalmTypes, ServiceAssumption DEF Acts, Born, Started

LEMMA BootRowStep ==
  ASSUME CalmStep, task'[Boot].sid # None
  PROVE  task'[Boot].sid \in unrecovered'
<1>1. unrecovered' = unrecovered
  BY RecoveryLists, RestingFields
<1>2. CASE task'[Boot].sid = task[Boot].sid
  BY <1>1, <1>2, CalmFacts DEF RecoveryStartsClean
<1>3. CASE CloseDoes(Boot)
  BY <1>2, <1>3, RestingFields DEF CloseDoes, CloseGoesOn, HasReturned, From
<1>4. CASE AttemptDoes(Boot)
  BY <1>2, <1>4, RestingFields DEF AttemptDoes, AttemptOn, HasBegun, HasRaised, From
<1>5. CASE RecoveryDoes
  BY <1>1, <1>2, <1>5, RestingFields DEF RecoveryDoes, RecoveryTurns, RecoveryWorks, RecoveryLeaves,
     HasBegun, HasRaised, From
<1> QED
  BY <1>2, <1>3, <1>4, <1>5, BootTurns

ErrorPcs == {"reattach", "check_closing", "check_remote", "check_done"}
            \cup (ReattachPcs \ {"commit", "installed"})
LEMMA BootErrorStep ==
  ASSUME CalmStep, task'[Boot].pc \in ErrorPcs, task'[Boot].rec.state = "error"
  PROVE  row'[task'[Boot].sid].state = "error"
<1> DEFINE s == task[Boot].sid
<1>0. task'[Boot].pc \notin {"commit", "installed", "next_row", "idle", "clear_lost", "mark_lost", "drop", "dropped", "closed", "attempt", "backoff", "lost"} \cup DoClosePcs
  BY DEF ErrorPcs, ReattachPcs, DoClosePcs
<1>1. ASSUME task[Boot].pc \in ErrorPcs, task[Boot].rec = task'[Boot].rec
      PROVE  row[s].state = "error" /\ s \in Sid /\ Boot \in Task
  BY <1>1, CalmFacts, CalmTypes, TaskFacts DEF RecoveryStartsClean, ErrorPcs, ReattachPcs
<1>2. CASE task'[Boot] = task[Boot]
  <2>1. row[s].state = "error" /\ s \in Sid /\ Boot \in Task
    BY <1>1, <1>2
  <2>2. s \in unrecovered /\ ~(At(Boot, "installed") /\ task[Boot].sid = s)
    BY <1>0, <1>2, <2>1, CalmFacts, CalmTypes DEF RecoveryStartsClean, At
  <2>3. ASSUME NEW u \in Task, Works(u, s)
        PROVE  u = Boot
    BY <2>1, <2>2, <2>3, RecoveryWorksAlone
  <2>4. ASSUME NEW u \in Task, Inserts(u, s)
        PROVE  FALSE
    BY <2>1, <2>4, InsertsAreNew
  <2>5. ~Asks(Boot, s) /\ ~Readies(Boot, s)
    BY <2>1, CalmTypes DEF Asks, Readies
  <2>6. ~Deletes(Boot, s) /\ ~Fails(Boot, s) /\ ~Completes(Boot, s)
    <3>1. Boot \notin Conn /\ Boot \notin Sid
      BY ServiceAssumption
    <3>2. ~Completes(Boot, s)
      BY <1>2 DEF Completes, From, At
    <3>3. task[Boot].pc \in ErrorPcs
      BY <1>2
    <3> QED
      BY <2>1, <3>1, <3>2, <3>3 DEF Deletes, Fails, ErrorPcs, ReattachPcs
  <2>7. SameRow(s)
    BY <2>1, <2>3, <2>4, <2>5, <2>6, RowTurns
  <2> QED
    BY <1>2, <2>1, <2>7 DEF SameRow
<1>3. ~CloseDoes(Boot)
  BY <1>0, RestingFields DEF CloseDoes, CloseGoesOn, HasReturned, From, DoClosePcs
<1>4. CASE AttemptDoes(Boot)
  <2>1. ASSUME NEW r
        PROVE  ~HasRaised(Boot, r)
    BY <1>0, RestingFields DEF HasRaised, From, DoClosePcs
  <2>2. ~At(Boot, "backoff") /\ ~At(Boot, "commit") /\ ~At(Boot, "installed")
    <3>1. ~At(Boot, "backoff")
      BY BootPcsOnly DEF BootPcs, DoClosePcs, ReattachPcs, At
    <3> QED
      BY <1>0, <1>4, <3>1, RestingFields DEF AttemptDoes, AttemptOn, At, From
  <2>3. /\ task'[Boot].sid = s /\ task'[Boot].rec = task[Boot].rec /\ UNCHANGED row
        /\ task[Boot].pc \in {"reconnect", "inspect", "remove", "reforward"}
    BY <1>0, <1>4, <2>1, <2>2 DEF AttemptDoes, AttemptOn, At, From
  <2> QED
    BY <1>1, <2>3 DEF ErrorPcs, ReattachPcs
<1>5. CASE RecoveryDoes
  <2>1. CASE RecoveryTurns
    BY <2>1 DEF RecoveryTurns
  <2>2. CASE RecoveryWorks
    <3>1. /\ task'[Boot].sid = s /\ task'[Boot].rec = task[Boot].rec /\ UNCHANGED row
          /\ task[Boot].pc \in {"check_closing", "check_remote"}
      BY <1>0, <2>2 DEF RecoveryWorks, At, From
    <3> QED
      BY <1>1, <3>1 DEF ErrorPcs
  <2>3. CASE At(Boot, "reattach") /\ HasBegun(Boot, task[Boot]) /\ SameRows
    <3>1. task'[Boot].sid = s /\ task'[Boot].rec = task[Boot].rec
      <4>1. ~HasRaised(Boot, task[Boot])
        BY <1>0, RestingFields DEF HasRaised, From, DoClosePcs
      <4> QED
        BY <2>3, <4>1 DEF HasBegun, From
    <3>2. row[s].state = "error" /\ s \in Sid
      BY <1>1, <2>3, <3>1 DEF ErrorPcs, At
    <3> QED
      BY <2>3, <3>1, <3>2 DEF SameRows, SameRow
  <2>4. ~RecoveryLeaves /\ task'[Boot] # IdleTask
    BY <1>0, RestingFields DEF RecoveryLeaves
  <2> QED
    BY <1>5, <2>1, <2>2, <2>3, <2>4 DEF RecoveryDoes
<1> QED
  BY <1>2, <1>3, <1>4, <1>5, BootTurns

LEMMA CleanStep ==
  ASSUME CalmStep
  PROVE  RecoveryStartsClean'
<1>1. \A s \in unrecovered' : s \in Sid
  BY CalmFacts DEF MoveInv, TypeOK
<1>2. \A s \in unrecovered' : ~(task'[Boot].pc = "installed" /\ task'[Boot].sid = s) =>
        registry'[s] = None /\ \A c \in Conn : task'[c].sid # s
  BY <1>1, ListedStep
<1>3. task'[Boot].sid # None => task'[Boot].sid \in unrecovered'
  BY BootRowStep
<1>4. task'[Boot].pc \in ErrorPcs /\ task'[Boot].rec.state = "error" => row'[task'[Boot].sid].state = "error"
  BY BootErrorStep
<1> QED
  BY <1>2, <1>3, <1>4 DEF RecoveryStartsClean, ErrorPcs, At

-----------------------------------------------------------------------------
(***************************************************************************)
(* Ready rows (ReadyIsMended).                                             *)
(***************************************************************************)
\* What a ready row without a port has.
Mended(s) ==
  \/ s \in unrecovered
  \/ \E c \in Conn : Repairs(c, s)
  \/ \E t \in Closers : At(t, "commit") /\ task[t].sid = s

\* Recovery does not leave a ready row without a port.
LEMMA ListedIsMended ==
  ASSUME CalmStep, NEW s \in unrecovered, row[s].state = "ready", registry[s] = None,
         row'[s].state = "ready"
  PROVE  s \in unrecovered'
<1>1. SUFFICES ASSUME s = task[Boot].sid, task'[Boot] = NextRowTask,
                      CloseDoes(Boot) \/ AttemptDoes(Boot) \/ RecoveryDoes
               PROVE  FALSE
  BY RecoveryLists
<1>2. s \in Sid /\ Boot \in Task /\ Boot \in Closers /\ task[Boot].sid = s
  BY <1>1, CalmFacts, CalmTypes DEF RecoveryStartsClean, MoveInv, TypeOK
<1>3. task'[Boot].pc = "next_row" /\ task'[Boot].sid = None
  BY <1>1, RestingFields
<1>4. task[Boot].pc \in ErrorPcs => task[Boot].rec.state # "error"
  BY <1>2, CalmFacts DEF RecoveryStartsClean, ErrorPcs
<1>5. CASE CloseDoes(Boot)
  <2>1. HasReturned(Boot)
    BY <1>3, <1>5 DEF CloseDoes, CloseGoesOn, From
  <2>2. CASE At(Boot, "finish") /\ Marked(s)
    BY <1>1, <2>2 DEF Marked, RowTo, Exists
  <2>3. CASE DroppedRow(task[Boot])
    BY <1>2, <2>3, CalmFacts DEF DeletedIsGone, Exists
  <2> QED
    BY <1>2, <1>3, <1>5, <2>2, <2>3 DEF CloseDoes, CloseGoesOn, From, DroppedRow, At
<1>6. CASE AttemptDoes(Boot)
  <2>1. CASE At(Boot, "installed")
    BY <1>2, <2>1, CalmFacts DEF AttemptIsAlone, At, ReattachPcs
  <2>2. CASE At(Boot, "backoff")
    BY <2>2, BootPcsOnly DEF At, BootPcs, DoClosePcs, ReattachPcs
  <2>3. CASE HasRaised(Boot, task[Boot]) /\ task[Boot].pc \in {"reconnect", "drop_conn"}
    BY <1>3, <1>4, <2>3, RestingFields DEF HasRaised, From, ErrorPcs, ReattachPcs
  <2> QED
    BY <1>3, <1>6, <2>1, <2>2, <2>3, RestingFields DEF AttemptDoes, AttemptOn, From, At
<1>7. CASE RecoveryDoes
  <2>1. CASE At(Boot, "reattach") /\ HasBegun(Boot, task[Boot])
    BY <1>3, <1>4, <2>1, RestingFields DEF HasBegun, HasRaised, From, ErrorPcs, At
  <2>2. CASE RecoveryLeaves
    <3>1. CASE task[Boot].pc \in {"check_closing", "check_done"}
      <4>1. task[Boot].rec.state = "error"
        BY <3>1, CalmFacts DEF CalmStep, AllInv, DrivenInv, BootIsTold
      <4> QED
        BY <1>4, <3>1, <4>1 DEF ErrorPcs
    <3>2. CASE At(Boot, "dropped")
      BY <1>2, <3>2, CalmFacts DEF DeletedIsGone, DroppedRow, Exists, At
    <3>3. CASE At(Boot, "mark_lost") /\ Marked(s)
      BY <3>3 DEF Marked, RowTo, Exists
    <3> QED
      BY <1>2, <2>2, <3>1, <3>2, <3>3 DEF RecoveryLeaves, At
  <2>3. ~RecoveryTurns /\ ~RecoveryWorks /\ task'[Boot] # IdleTask
    BY <1>3, RestingFields DEF RecoveryTurns, RecoveryWorks, From
  <2> QED
    BY <1>7, <2>1, <2>2, <2>3 DEF RecoveryDoes
<1> QED
  BY <1>1, <1>5, <1>6, <1>7

\* Nor does a close: a tunnel that is cut off under a watcher at repair work is that of
\* a session that is closing or in error.
LEMMA RepairsUncut ==
  ASSUME CalmStep, NEW s \in Sid, Standing(s), row[s].state = "ready", NEW c \in Conn,
         Repairs(c, s), CutOff(c, s), registry[s] = None
  PROVE  Repairs(c, s)'
<1>1. SUFFICES ASSUME ~(Repairs(c, s)')
               PROVE  FALSE
  OBVIOUS
<1>2. c \in Task /\ task'[c] = task[c] /\ c \notin cancelled /\ c \in cancelled' /\ task[c].sid = s
  BY <1>1, CalmTypes DEF CutOff, Repairs
<1>3. tunnels[s] # NoTunnel /\ tunnels'[s] = NoTunnel /\ c # None
  BY CalmTypes DEF CutOff, NoTunnel
<1>4. cancelled' \cap Conn # cancelled \cap Conn
  BY <1>2
<1>5. ~Active(s)
  BY <1>2, CalmFacts DEF OpeningIsAlone, Opening, Repairs, At, LostPcs, ReattachPcs
<1>6. PICK u \in Task : Event(u, s)
  BY <1>3, StepEvents DEF Same
<1>7. ~Inserts(u, s) /\ ~Asks(u, s) /\ ~Deletes(u, s) /\ ~Fails(u, s) /\ ~Readies(u, s) /\ ~Completes(u, s)
      /\ ~Shuts(u, s) /\ ~Retains(u, s) /\ ~Publishes(u, s) /\ ~Installs(u, s)
  BY <1>2, <1>4 DEF Inserts, InsertsRow, Asks, AsksStop, Deletes, Fails, Readies, Completes, Shuts,
     Retains, Publishes, Installs, OnlyRow, SameWatchers
<1>8. ~Drops(u, s) /\ ~TakesDown(u, s)
  BY <1>2, <1>5 DEF Drops, TakesDown, Active, OpeningPcs
<1>9. ~Empties(u, s)
  <2>1. SUFFICES ASSUME Empties(u, s), Works(u, s)
                 PROVE  FALSE
    BY <1>6, <1>7, <1>8 DEF Event
  <2>2. u \in Closers /\ At(u, "fresh") /\ task[u].sid = s
    BY <1>5, <2>1 DEF Empties, Works
  <2>3. CASE u \in Op
    <3>1. task[u].kind \in {"close", "force", "retry"}
      BY <2>2, <2>3, CalmFacts, CalmTypes, TaskFacts, ServiceAssumption DEF Suspended, KindOK, At, StartPcs, WatchPcs
    <3>2. CASE task[u].kind = "retry"
      BY <2>2, <2>3, <3>2, CalmFacts DEF RetryIsDue, SettledPcs, DoClosePcs, At, Failing, ReattachPcs
    <3>3. CASE task[u].kind # "retry"
      BY <2>2, <2>3, <3>1, <3>3, CalmFacts DEF CloseIsKnown, ClosePcs, DoClosePcs, At
    <3> QED
      BY <3>2, <3>3
  <2>4. CASE u = Boot
    <3>1. s \in unrecovered /\ ~At(Boot, "installed")
      BY <2>2, <2>4, CalmFacts, CalmTypes DEF RecoveryStartsClean, At
    <3> QED
      BY <1>2, <3>1, CalmFacts DEF RecoveryStartsClean
  <2> QED
    BY <2>2, <2>3, <2>4 DEF Closers
<1> QED
  BY <1>6, <1>7, <1>8, <1>9 DEF Event

LEMMA MendGoesOn ==
  ASSUME CalmStep, NEW s \in Sid, row[s].state = "ready", registry[s] = None,
         row'[s].state = "ready", registry'[s] = None
  PROVE  Mended(s)'
<1>1. Standing(s)
  BY CalmFacts, StandingRows
<1>2. CASE s \in unrecovered
  BY <1>2, ListedIsMended DEF Mended
<1>3. ASSUME NEW c \in Conn, Repairs(c, s)
      PROVE  Mended(s)'
  <2>1. task[c].sid = s /\ c \in Task
    BY <1>3, CalmTypes DEF Repairs
  <2>2. ~WatcherLeaves(c)
    <3>1. SUFFICES ASSUME WatcherLeaves(c)
                   PROVE  FALSE
      OBVIOUS
    <3>2. At(c, "lost_checks")
      BY <1>3, <3>1 DEF WatcherLeaves, Repairs, At, LostPcs, ReattachPcs
    <3>3. ~GoneOrStopping(task[c].rec)
      BY <1>1, <2>1, <3>2, CalmFacts DEF WatcherReadsRight, At
    <3>4. Marked(s)
      BY <2>1, <3>1, <3>2, <3>3 DEF WatcherLeaves, At
    <3> QED
      BY <3>4 DEF Marked, RowTo, Exists
  <2>3. ~At(c, "installed")
    BY <2>1, CalmFacts DEF AttemptIsAlone, At, ReattachPcs
  <2>4. Repairs(c, s)'
    BY <1>1, <1>3, <2>2, <2>3, RepairEnds, RepairsUncut
  <2> QED
    BY <2>4 DEF Mended
<1>4. ASSUME NEW t \in Closers, At(t, "commit"), task[t].sid = s
      PROVE  Mended(s)'
  <2>1. t \in Task /\ t \notin Conn /\ t \notin Sid
    BY CalmTypes
  <2>2. ~AttemptDoes(t)
    <3>1. SUFFICES ASSUME AttemptDoes(t)
                   PROVE  FALSE
      OBVIOUS
    <3>2. ~AttemptOn(t)
      BY <1>4 DEF AttemptOn, At
    <3>3. Published(s, task[t].c) /\ task[t].c \in Conn
      BY <1>4, <3>1, <3>2 DEF AttemptDoes, At, Births
    <3> QED
      BY <3>3, CalmTypes DEF Published
  <2>3. ~CloseDoes(t) /\ ~OpDoes(t) /\ ~(t = Boot /\ RecoveryDoes)
    BY <1>4 DEF CloseDoes, CloseGoesOn, OpDoes, Arrives, LooksUp, Answers, InsertsRow, RemovesRow,
       StartsOpening, AsksStop, SettlesStart, BeginsClosing, BeginsRetry, RecoveryDoes, RecoveryTurns,
       RecoveryWorks, RecoveryLeaves, At
  <2>4. task'[t] = task[t]
    BY <2>1, <2>2, <2>3, TaskMoves DEF Acts, Born, Started
  <2> QED
    BY <1>4, <2>4 DEF Mended, At
<1> QED
  BY <1>2, <1>3, <1>4, CalmFacts DEF ReadyIsMended

LEMMA MendBegins ==
  ASSUME CalmStep, NEW s \in Sid, row[s].state # "ready" \/ registry[s] # None,
         row'[s].state = "ready", registry'[s] = None
  PROVE  Mended(s)'
<1>1. ASSUME row[s].state # "ready"
      PROVE  Mended(s)'
  <2>1. PICK u \in Task : Works(u, s) /\ (Readies(u, s) \/ Completes(u, s))
    BY <1>1, RowTurns, RowValues DEF SameRow
  <2>2. ~Readies(u, s)
    <3>1. SUFFICES ASSUME Readies(u, s)
                   PROVE  FALSE
      OBVIOUS
    <3>2. /\ At(s, "verify") /\ s \notin cancelled /\ registry' = registry
      BY <3>1 DEF Readies, OnlyRow
    <3>3. Opening(s)
      BY <3>2, CalmFacts DEF OpeningIsAlone, Active, At
    <3>4. registry[s] = task[s].c /\ task[s].c \in Conn
      BY <3>2, <3>3 DEF Opening, At, OpenedPcs
    <3> QED
      BY <3>2, <3>4, CalmTypes
  <2>3. /\ At(u, "reforward") /\ task'[u].pc = "commit" /\ task'[u].sid = task[u].sid
        /\ SameWatchers
    BY <2>1, <2>2 DEF Completes, From, OnlyRow
  <2>4. u \notin Sid
    BY <2>3, CalmFacts, PcKinds DEF At, ReattachPcs
  <2>5. task[u].sid = s
    BY <2>1, <2>4 DEF Works
  <2>6. CASE u \in Closers
    BY <2>3, <2>5, <2>6 DEF Mended, At
  <2>7. CASE u \in Conn
    <3>1. u \notin cancelled
      BY <2>3, <2>7, CalmFacts DEF CancelledInTime, At, ReattachPcs
    <3>2. u \notin cancelled'
      BY <2>3, <2>7, <3>1 DEF SameWatchers
    <3>3. Repairs(u, s)'
      BY <2>3, <2>5, <3>2 DEF Repairs, LostPcs, ReattachPcs
    <3> QED
      BY <2>7, <3>3 DEF Mended
  <2> QED
    BY <2>4, <2>6, <2>7 DEF Task, Closers
<1>2. ASSUME row[s].state = "ready", registry[s] # None
      PROVE  Mended(s)'
  <2>1. PICK u \in Task : Event(u, s)
    BY <1>2, StepEvents DEF Same
  <2>2. ~Inserts(u, s) /\ ~Asks(u, s) /\ ~Deletes(u, s) /\ ~Fails(u, s) /\ ~Readies(u, s) /\ ~Completes(u, s)
        /\ ~Empties(u, s) /\ ~Retains(u, s)
    BY <1>2 DEF Inserts, InsertsRow, Asks, AsksStop, Deletes, Fails, Readies, Completes, OnlyRow,
       Empties, Retains
  <2>3. ~Shuts(u, s)
    BY <1>2, CalmFacts, StandingRows DEF Shuts
  <2>4. ~Publishes(u, s) /\ ~Installs(u, s)
    <3>1. ~Published(s, task[u].c) \/ task[u].c \notin Conn
      BY CalmTypes DEF Published
    <3>2. Publishes(u, s) => Published(s, task[u].c) /\ task[u].c \in Conn
      BY DEF Publishes, Births
    <3>3. Installs(u, s) => Published(s, task[u].c) /\ task[u].c \in Conn
      BY DEF Installs, Births
    <3> QED
      BY <3>1, <3>2, <3>3
  <2>5. ~Drops(u, s)
    <3>1. SUFFICES ASSUME Drops(u, s)
                   PROVE  FALSE
      OBVIOUS
    <3>2. Active(s) /\ Opening(s)
      BY <3>1, CalmFacts DEF Drops, OpeningIsAlone, OpeningPcs, Active
    <3>3. At(s, "ready") /\ s \notin cancelled
      BY <1>2, <3>2 DEF Opening
    <3>4. task'[s].pc \in {"watcher", "mark", "undo_remote", "undo_conn"}
      BY <3>1 DEF Drops
    <3>5. StartDoes(s)
      BY <3>2, <3>3, <3>4, StartMoves, StartedAlone DEF At
    <3> QED
      BY <3>3, <3>4, <3>5, RestingFields DEF StartDoes, OpeningDoes, OpensOn, OpeningEnds, CleanupDoes,
         HasDropped, From, At
  <2>6. CASE TakesDown(u, s)
    <3>1. /\ u \in Conn /\ u \notin cancelled /\ cancelled' = cancelled
          /\ task'[u].pc = "close_lost" /\ task'[u].sid = task[u].sid
      BY <2>6 DEF TakesDown, From
    <3>2. Works(u, s)
      BY <2>1, <2>2, <2>3, <2>4, <2>5, <2>6 DEF Event
    <3>3. task[u].sid = s
      BY <3>1, <3>2, CalmTypes DEF Works
    <3>4. Repairs(u, s)'
      BY <3>1, <3>3 DEF Repairs, LostPcs
    <3> QED
      BY <3>1, <3>4 DEF Mended
  <2> QED
    BY <2>1, <2>2, <2>3, <2>4, <2>5, <2>6 DEF Event
<1> QED
  BY <1>1, <1>2

LEMMA MendStep ==
  ASSUME CalmStep
  PROVE  ReadyIsMended'
<1>1. ASSUME NEW s \in Sid, row'[s].state = "ready", registry'[s] = None
      PROVE  Mended(s)'
  BY <1>1, MendGoesOn, MendBegins
<1> QED
  BY <1>1 DEF ReadyIsMended, Mended

-----------------------------------------------------------------------------
(***************************************************************************)
(* Who holds a connection (ClaimsDiffer).                                  *)
(***************************************************************************)
\* A start task works on its own session only.
LEMMA StartWorks ==
  ASSUME CalmStep, NEW u \in Sid, NEW s \in Sid, Works(u, s)
  PROVE  u = s
<1>1. ShapeOK(u, task[u]) /\ u \notin Op
  BY CalmFacts, CalmTypes, ServiceAssumption DEF MoveInv, TaskShape
<1>2. ~AtWork(task[u])
  BY <1>1, StartsAreIdleWork
<1> QED
  BY <1>1, <1>2, CalmTypes DEF Works, AtWork, Busy

\* What a task takes up a claim on: a new connection, or that of its session's tunnel,
\* which it takes down.
NewClaim(c) ==
  c \in Conn /\ (\A t \in Task : task[t].c # c) /\ (\A s \in Sid : tunnels[s].c # c)
LEMMA ConnectsNew ==
  ASSUME NEW c, Connects(c)
  PROVE  NewClaim(c) /\ ~conn[c] /\ ~Active(c)
<1>1. c \in FreeConn
  BY DEF Connects, NewConn
<1> QED
  BY <1>1 DEF FreeConn, NewClaim

ClaimIs(t) ==
  \/ task'[t].c \in {task[t].c, None}
  \/ NewClaim(task'[t].c)
  \/ \E s \in Sid : Works(t, s) /\ (Empties(t, s) \/ TakesDown(t, s)) /\ task'[t].c = tunnels[s].c

LEMMA OpClaims ==
  ASSUME CalmStep, NEW o \in Op, OpDoes(o)
  PROVE  task'[o].c \in {task[o].c, None}
<1>1. BeginsRetry(o) => task'[o].c \in {task[o].c, None}
  BY DEF BeginsRetry, HasBegun, HasRaised
<1> QED
  BY <1>1, RestingFields DEF OpDoes, Arrives, LooksUp, Answers, InsertsRow, RemovesRow, StartsOpening,
     AsksStop, SettlesStart, BeginsClosing

LEMMA CloserClaims ==
  ASSUME CalmStep, NEW t \in Closers, CloseDoes(t)
  PROVE  ClaimIs(t)
<1>1. HasReturned(t) => task'[t].c \in {task[t].c, None}
  BY RestingFields DEF HasReturned
<1>2. CASE At(t, "fresh") /\ task[t].rec.state # "closed"
  <2>1. /\ Others(t) /\ UNCHANGED <<row, registry, unrecovered>> /\ Keep(task[t].sid, NoTunnel)
        /\ cancelled' = cancelled \cup WatcherOf(tunnels[task[t].sid])
        /\ task'[t].c = tunnels[task[t].sid].c
    BY <1>2 DEF CloseDoes, CloseGoesOn, At
  <2>2. task[t].sid \in Sid /\ Works(t, task[t].sid) /\ registry[task[t].sid] = None
    BY <1>2, CloserWorks DEF At, DoClosePcs
  <2>3. Empties(t, task[t].sid)
    BY <1>2, <2>1, <2>2 DEF Empties, SameRow
  <2> QED
    BY <2>1, <2>2, <2>3 DEF ClaimIs
<1>3. CASE At(t, "dial") /\ Connects(task'[t].c)
  BY <1>3, ConnectsNew DEF ClaimIs
<1>4. CASE ~(At(t, "fresh") /\ task[t].rec.state # "closed") /\ ~(At(t, "dial") /\ Connects(task'[t].c))
  BY <1>1, <1>4 DEF CloseDoes, CloseGoesOn, ClaimIs
<1> QED
  BY <1>2, <1>3, <1>4

LEMMA AttemptClaims ==
  ASSUME CalmStep, NEW t \in Task, AttemptDoes(t)
  PROVE  ClaimIs(t)
<1>1. ASSUME NEW r, r.c = task[t].c, HasBegun(t, r) \/ HasRaised(t, r)
      PROVE  task'[t].c \in {task[t].c, None}
  BY <1>1 DEF HasBegun, HasRaised
<1>2. CASE At(t, "reconnect") /\ Connects(task'[t].c)
  BY <1>2, ConnectsNew DEF ClaimIs
<1>3. CASE ~(At(t, "reconnect") /\ Connects(task'[t].c))
  <2>1. task'[t].c \in {task[t].c, None}
    BY <1>1, <1>3, RestingFields DEF AttemptDoes, AttemptOn
  <2> QED
    BY <2>1 DEF ClaimIs
<1> QED
  BY <1>2, <1>3

LEMMA StartClaims ==
  ASSUME CalmStep, NEW s \in Sid, StartDoes(s)
  PROVE  ClaimIs(s)
<1>1. CASE At(s, "connect") /\ Connects(task'[s].c)
  BY <1>1, ConnectsNew DEF ClaimIs
<1>2. CASE ~(At(s, "connect") /\ Connects(task'[s].c))
  <2>1. task'[s].c \in {task[s].c, None}
    BY <1>2, RestingFields DEF StartDoes, OpeningDoes, OpensOn, OpeningEnds, CleanupDoes, HasDropped, StartGoesOn
  <2> QED
    BY <2>1 DEF ClaimIs
<1> QED
  BY <1>1, <1>2

LEMMA WatcherClaims ==
  ASSUME CalmStep, NEW c \in Conn, WatchDoes(c)
  PROVE  ClaimIs(c)
<1>1. CASE WatcherMends(c) /\ At(c, "exit_checks")
  <2>1. TakesDown(c, task[c].sid) /\ task'[c].c = tunnels[task[c].sid].c
    BY <1>1 DEF WatchDoes, WatcherMends, TakesDown, At
  <2>2. task[c].sid \in Sid /\ Works(c, task[c].sid)
    BY <1>1, CalmFacts, CalmTypes, TaskFacts DEF Works, Holding, At
  <2> QED
    BY <2>1, <2>2 DEF ClaimIs
<1>2. CASE ~(WatcherMends(c) /\ At(c, "exit_checks"))
  <2>1. task'[c].c \in {task[c].c, None}
    BY <1>2, RestingFields DEF WatchDoes, WatcherDies, WatcherGoesOn, WatcherLeaves, WatcherMends, HasBegun, HasRaised
  <2> QED
    BY <2>1 DEF ClaimIs
<1> QED
  BY <1>1, <1>2

LEMMA RecoveryClaims ==
  ASSUME CalmStep, RecoveryDoes
  PROVE  ClaimIs(Boot)
<1>1. CASE At(Boot, "check_closing") /\ Connects(task'[Boot].c)
  BY <1>1, ConnectsNew DEF ClaimIs
<1>2. CASE ~(At(Boot, "check_closing") /\ Connects(task'[Boot].c))
  <2>1. task'[Boot].c \in {task[Boot].c, None}
    BY <1>2, RestingFields DEF RecoveryDoes, RecoveryTurns, RecoveryWorks, RecoveryLeaves, HasBegun, HasRaised
  <2> QED
    BY <2>1 DEF ClaimIs
<1> QED
  BY <1>1, <1>2

\* One task at a time takes up a claim.
LEMMA ClaimMoves ==
  ASSUME CalmStep
  PROVE  \E m \in Task : ClaimIs(m) /\ \A u \in Task \ {m} : task'[u].c \in {task[u].c, None}
<1>1. CASE Still
  BY <1>1, CalmTypes DEF Still, ClaimIs
<1>2. ASSUME NEW t \in Task, Acts(t)
      PROVE  ClaimIs(t) /\ \A u \in Task \ {t} : task'[u].c \in {task[u].c, None}
  <2>1. ClaimIs(t)
    BY <1>2, OpClaims, CloserClaims, AttemptClaims, StartClaims, WatcherClaims, RecoveryClaims DEF Acts, ClaimIs
  <2>2. ASSUME NEW u \in Task \ {t}
        PROVE  task'[u].c \in {task[u].c, None}
    <3>1. u \in Task /\ u # t
      OBVIOUS
    <3>2. ASSUME Births(t)
          PROVE  task'[u].c \in {task[u].c, None}
      BY <3>1, <3>2, RestingFields DEF Births
    <3>3. ASSUME t \in Op, OpDoes(t)
          PROVE  task'[u].c \in {task[u].c, None}
      <4>1. task'[u] = task[u] \/ Started(u)
        BY <3>1, <3>3, OpMoves
      <4>2. Started(u) => task'[u].c = None
        BY DEF Started, StartsOpening
      <4> QED
        BY <4>1, <4>2
    <3> QED
      BY <1>2, <3>1, <3>2, <3>3, OtherMoves DEF Acts
  <2> QED
    BY <2>1, <2>2
<1> QED
  BY <1>1, <1>2, StepIs

\* What a step does to the tunnel of a session.
LEMMA TunnelTurns ==
  ASSUME CalmStep, NEW s \in Sid
  PROVE  \/ tunnels'[s] = tunnels[s]
         \/ \E u \in Task : /\ Works(u, s)
                            /\ \/ Empties(u, s) \/ Retains(u, s) \/ Publishes(u, s)
                               \/ Installs(u, s) \/ Drops(u, s) \/ TakesDown(u, s)
<1>1. CASE Same(s)
  BY <1>1 DEF Same
<1>2. ASSUME NEW u \in Task, Event(u, s)
      PROVE  \/ tunnels'[s] = tunnels[s]
             \/ /\ Works(u, s)
                /\ \/ Empties(u, s) \/ Retains(u, s) \/ Publishes(u, s)
                   \/ Installs(u, s) \/ Drops(u, s) \/ TakesDown(u, s)
  <2>1. Inserts(u, s) \/ Asks(u, s) => tunnels' = tunnels
    BY DEF Inserts, InsertsRow, Asks, AsksStop
  <2>2. Deletes(u, s) \/ Fails(u, s) \/ Readies(u, s) \/ Completes(u, s) \/ Shuts(u, s)
          => tunnels' = tunnels
    BY DEF Deletes, Fails, Readies, Completes, Shuts, OnlyRow
  <2> QED
    BY <1>2, <2>1, <2>2 DEF Event
<1> QED
  BY <1>1, <1>2, StepEvents

LEMMA TaskClaims ==
  ASSUME CalmStep, NEW t \in Task
  PROVE  ClaimIs(t)
<1>1. PICK m \in Task : ClaimIs(m) /\ \A u \in Task \ {m} : task'[u].c \in {task[u].c, None}
  BY ClaimMoves
<1> QED
  BY <1>1 DEF ClaimIs

\* A tunnel that comes takes over the connection of the task that installs it.
TunnelIs(u, s) ==
  /\ Works(u, s) /\ tunnels'[s].c = task[u].c
  /\ \A v \in Sid \ {s} : tunnels'[v] = tunnels[v]
  /\ \A w \in Task \ {u} : task'[w].c \in {task[w].c, None}
  /\ task'[u].c = None \/ (u = s /\ task'[s].pc = "verify")
  /\ tunnels'[s].watched =>
       LET c == task[u].c IN
       \/ task'[c] = Watcher(s)
       \/ u \in Conn /\ At(u, "close_lost") /\ c = u /\ task[u].sid = s

LEMMA TunnelClaims ==
  ASSUME CalmStep, NEW s \in Sid
  PROVE  tunnels'[s] = tunnels[s] \/ tunnels'[s] = NoTunnel \/ \E u \in Task : TunnelIs(u, s)
<1>1. ASSUME NEW u \in Task, Empties(u, s) \/ Drops(u, s) \/ TakesDown(u, s)
      PROVE  tunnels'[s] = NoTunnel
  BY <1>1, CalmTypes DEF Empties, Drops, TakesDown, Keep
<1>2. ASSUME NEW u \in Task, Works(u, s), Retains(u, s)
      PROVE  TunnelIs(u, s)
  <2>1. PICK x : /\ Keep(s, x) /\ x.c = task[u].c
                 /\ x.watched => u \in Conn /\ At(u, "close_lost") /\ x.c = u
    BY <1>2 DEF Retains
  <2>2. tunnels'[s] = x /\ \A v \in Sid \ {s} : tunnels'[v] = tunnels[v]
    BY <2>1, CalmTypes DEF Keep
  <2>3. u \in Conn => u \notin Sid
    BY CalmTypes
  <2> QED
    BY <1>2, <2>1, <2>2, <2>3 DEF Retains, TunnelIs, Works, Others
<1>3. ASSUME NEW u \in Task, Works(u, s), Publishes(u, s) \/ Installs(u, s)
      PROVE  TunnelIs(u, s)
  <2>1. /\ Births(u) /\ Keep(s, LiveTunnel(task[u].c))
        /\ task'[u].c = None \/ (u = s /\ task'[s].pc = "verify")
    BY <1>3 DEF Publishes, Installs, From
  <2>2. tunnels'[s] = LiveTunnel(task[u].c) /\ \A v \in Sid \ {s} : tunnels'[v] = tunnels[v]
    BY <2>1, CalmTypes DEF Keep
  <2>3. task[u].sid = s
    BY <1>3, PcKinds, CalmFacts, CalmTypes DEF Publishes, Installs, Works, OpeningIsAlone, Opening, Closers
  <2>4. \A w \in Task \ {u} : task'[w].c \in {task[w].c, None}
    BY <2>1, RestingFields DEF Births
  <2> QED
    BY <1>3, <2>1, <2>2, <2>3, <2>4 DEF TunnelIs, Births, LiveTunnel
<1> QED
  BY <1>1, <1>2, <1>3, TunnelTurns

LEMMA ClaimsOld ==
  ASSUME CalmStep
  PROVE  /\ \A t, u \in Task : task[t].c # None /\ task[t].c = task[u].c => t = u
         /\ \A t \in Task, s \in Sid : task[t].c # None /\ tunnels[s].c = task[t].c =>
              t = s /\ task[s].pc \in OpenedPcs
         /\ \A s, u \in Sid : tunnels[s].c # None /\ tunnels[s].c = tunnels[u].c => s = u
BY CalmFacts DEF ClaimsDiffer

\* Whoever takes a tunnel down finds its connection with no other task.
LEMMA TakenIsUnclaimed ==
  ASSUME CalmStep, NEW m \in Task, NEW s \in Sid, Works(m, s), Empties(m, s) \/ TakesDown(m, s),
         tunnels[s].c # None
  PROVE  \A u \in Task : task[u].c # tunnels[s].c
<1> SUFFICES ASSUME NEW u \in Task, task[u].c = tunnels[s].c
             PROVE  FALSE
  OBVIOUS
<1>1. u = s /\ task[s].pc \in OpenedPcs
  BY ClaimsOld
<1>2. Active(s)
  BY <1>1 DEF Active, OpenedPcs
<1>3. ASSUME Empties(m, s)
      PROVE  FALSE
  <2>1. m \in Closers /\ At(m, "fresh")
    BY <1>3 DEF Empties
  <2>2. task[m].sid = s
    BY <2>1, CalmTypes DEF Works
  <2>3. m \notin Op
    BY <2>1, <2>2, <1>2, CalmFacts DEF Settled, SettledPcs, DoClosePcs, At
  <2>4. m = Boot /\ Active(Boot)
    BY <2>1, <2>3 DEF Closers, Active, At
  <2> QED
    BY <2>4, <1>2, CalmFacts DEF Settled
<1>4. ASSUME TakesDown(m, s)
      PROVE  FALSE
  <2>1. m \in Conn /\ At(m, "exit_checks")
    BY <1>4 DEF TakesDown
  <2>2. task[m].sid = s
    BY <2>1, CalmTypes DEF Works
  <2>3. At(m, "watching")
    BY <1>2, <2>1, <2>2, CalmFacts DEF OpeningIsAlone, Opening
  <2> QED
    BY <2>1, <2>3 DEF At
<1> QED
  BY <1>3, <1>4

LEMMA TaskClaimsStep ==
  ASSUME CalmStep, NEW t \in Task, NEW u \in Task, task'[t].c # None, task'[t].c = task'[u].c
  PROVE  t = u
<1> SUFFICES ASSUME t # u
             PROVE  FALSE
  OBVIOUS
<1>1. PICK m \in Task : ClaimIs(m) /\ \A v \in Task \ {m} : task'[v].c \in {task[v].c, None}
  BY ClaimMoves
<1>2. ASSUME NEW v \in Task, v # m, task'[v].c # None, task'[v].c = task'[m].c
      PROVE  FALSE
  <2>1. task'[v].c = task[v].c
    BY <1>1, <1>2
  <2>2. CASE task'[m].c = task[m].c
    BY <1>2, <2>1, <2>2, ClaimsOld
  <2>3. CASE NewClaim(task'[m].c)
    BY <1>2, <2>1, <2>3 DEF NewClaim
  <2>4. ASSUME NEW s \in Sid, Works(m, s), Empties(m, s) \/ TakesDown(m, s),
               task'[m].c = tunnels[s].c
        PROVE  FALSE
    BY <1>2, <2>1, <2>4, TakenIsUnclaimed
  <2> QED
    BY <1>1, <1>2, <2>2, <2>3, <2>4 DEF ClaimIs
<1>3. t # m /\ u # m
  BY <1>2
<1> QED
  BY <1>1, <1>3, ClaimsOld

LEMMA OpenedStays ==
  ASSUME CalmStep, NEW s \in Sid, task[s].pc \in OpenedPcs, task'[s].c # None,
         tunnels'[s].c # None
  PROVE  task'[s].pc \in OpenedPcs
<1>1. Active(s)
  BY DEF Active, OpenedPcs
<1>2. ~Started(s)
  BY <1>1, StartedAlone
<1>3. ~HasDropped(s)
  BY CalmTypes DEF HasDropped, Keep, NoTunnel
<1>4. ASSUME StartDoes(s)
      PROVE  task'[s].pc \in OpenedPcs
  <2>1. OpeningDoes(s) => task'[s].pc \in OpenedPcs
    BY DEF OpeningDoes, OpensOn, From, OpenedPcs, At
  <2>2. OpeningEnds(s) => task'[s].pc \in OpenedPcs
    BY <1>3, RestingFields DEF OpeningEnds, From, OpenedPcs, At
  <2>3. CleanupDoes(s) => task'[s].pc \in OpenedPcs
    BY <1>3, RestingFields DEF CleanupDoes, OpenedPcs, At
  <2> QED
    BY <1>4, <2>1, <2>2, <2>3 DEF StartDoes
<1> QED
  BY <1>2, <1>4, StartMoves

LEMMA MixedClaimsStep ==
  ASSUME CalmStep, NEW t \in Task, NEW s \in Sid, task'[t].c # None, tunnels'[s].c = task'[t].c
  PROVE  t = s /\ task'[s].pc \in OpenedPcs
<1>1. CASE tunnels'[s] = tunnels[s]
  <2>1. task'[t].c = task[t].c
    <3>1. ~NewClaim(task'[t].c)
      BY <1>1 DEF NewClaim
    <3>2. ASSUME NEW v \in Sid, Works(t, v), Empties(t, v) \/ TakesDown(t, v),
                 task'[t].c = tunnels[v].c
          PROVE  FALSE
      <4>1. v = s
        BY <1>1, <3>2, ClaimsOld
      <4>2. tunnels'[v] = NoTunnel
        BY <3>2, CalmTypes DEF Empties, TakesDown, Keep
      <4> QED
        BY <4>1, <4>2 DEF NoTunnel
    <3> QED
      BY <3>1, <3>2, TaskClaims DEF ClaimIs
  <2>2. t = s /\ task[s].pc \in OpenedPcs
    BY <1>1, <2>1, ClaimsOld
  <2> QED
    BY <2>2, OpenedStays
<1>2. ASSUME NEW u \in Task, TunnelIs(u, s)
      PROVE  t = s /\ task'[s].pc \in OpenedPcs
  <2>1. CASE t = u
    BY <1>2, <2>1 DEF TunnelIs, OpenedPcs
  <2>2. t = u
    <3>1. t # u => task'[t].c = task[t].c
      BY <1>2 DEF TunnelIs
    <3>2. task'[t].c = task[u].c
      BY <1>2 DEF TunnelIs
    <3> QED
      BY <3>1, <3>2, ClaimsOld
  <2> QED
    BY <2>1, <2>2
<1> QED
  BY <1>1, <1>2, TunnelClaims DEF NoTunnel

LEMMA TunnelsDifferStep ==
  ASSUME CalmStep, NEW s \in Sid, NEW v \in Sid, tunnels'[s].c # None, tunnels'[s].c = tunnels'[v].c
  PROVE  s = v
<1> SUFFICES ASSUME s # v
             PROVE  FALSE
  OBVIOUS
<1>1. ASSUME NEW x \in Sid, NEW y \in Sid, x # y, tunnels'[x].c # None,
             tunnels'[x].c = tunnels'[y].c, NEW u \in Task, TunnelIs(u, x)
      PROVE  FALSE
  <2>1. tunnels[y].c = task[u].c /\ task[u].c # None /\ Works(u, x)
    BY <1>1 DEF TunnelIs
  <2>2. u = y
    BY <2>1, ClaimsOld
  <2> QED
    BY <1>1, <2>1, <2>2, StartWorks
<1>2. tunnels'[s] = tunnels[s]
  BY <1>1, TunnelClaims DEF NoTunnel
<1>3. tunnels'[v] = tunnels[v]
  BY <1>1, TunnelClaims DEF NoTunnel
<1> QED
  BY <1>2, <1>3, ClaimsOld

LEMMA WatcherMoves ==
  ASSUME CalmStep, NEW c \in Conn
  PROVE  \/ task'[c] = task[c] \/ task'[c].sid = task[c].sid \/ task'[c] = IdleTask
         \/ Born(c)
<1>1. c \notin Sid /\ c \notin Op /\ c \notin Closers /\ c # Boot
  BY CalmTypes DEF Closers
<1>2. ~Started(c)
  BY <1>1 DEF Started
<1>3. Acts(c) => WatchDoes(c) \/ AttemptDoes(c)
  BY <1>1 DEF Acts
<1>4. WatchDoes(c) => task'[c].sid = task[c].sid \/ task'[c] = IdleTask
  BY WatcherPosts DEF TakesDown, WatcherLeaves, From
<1>5. AttemptDoes(c) => task'[c].sid = task[c].sid \/ task'[c] = IdleTask
  BY WatcherRepairs
<1> QED
  BY <1>2, <1>3, <1>4, <1>5, CalmTypes, TaskMoves

LEMMA WatchedStep ==
  ASSUME CalmStep, NEW s \in Sid, tunnels'[s].watched, tunnels'[s].c \in Conn,
         task'[tunnels'[s].c].pc # "idle"
  PROVE  task'[tunnels'[s].c].sid = s
<1> DEFINE c == tunnels'[s].c
<1>0. c \in Conn /\ c \in Task /\ task'[c].pc # "idle" /\ c = tunnels'[s].c
  BY CalmTypes
<1> HIDE DEF c
<1>1. task'[c] # IdleTask
  BY <1>0, RestingFields
<1>2. CASE tunnels'[s] = tunnels[s]
  <2>1. Active(c) => task[c].sid = s
    BY <1>0, <1>2, CalmFacts DEF ClaimsDiffer
  <2>2. ~Born(c)
    <3> SUFFICES ASSUME Born(c)
                 PROVE  FALSE
      OBVIOUS
    <3>1. PICK u \in Task \ {c} : task[u].c = c
                  /\ (Publishes(u, task[u].sid) \/ Installs(u, task[u].sid))
      BY DEF Born
    <3>2. u = s /\ task[s].pc \in OpenedPcs
      BY <1>0, <1>2, <3>1, ClaimsOld, CalmTypes
    <3>3. At(s, "tunnel") \/ At(s, "commit")
      BY <3>1, <3>2 DEF Publishes, Installs
    <3> QED
      BY <3>2, <3>3 DEF At, OpenedPcs
  <2>3. ~Active(c) => task'[c].pc = "idle"
    <3>1. c \notin Sid /\ c \notin Closers
      BY <1>0, CalmTypes
    <3>2. ~Started(c)
      BY <3>1 DEF Started
    <3>3. ~Active(c) => ~WatchDoes(c)
      <4>1. WatchDoes(c) => task[c].pc # "idle"
        <5>1. WatcherDies(c) => task[c].pc # "idle"
          BY <1>0, CalmFacts DEF WatcherDies, CancelledInTime, Active
        <5>2. WatcherGoesOn(c) \/ WatcherLeaves(c) \/ WatcherMends(c) => task[c].pc # "idle"
          BY DEF WatcherGoesOn, WatcherLeaves, WatcherMends, At
        <5> QED
          BY <5>1, <5>2 DEF WatchDoes
      <4> QED
        BY <4>1 DEF Active
    <3>4. ~Active(c) => ~AttemptDoes(c)
      BY DEF AttemptDoes, AttemptOn, At, Active
    <3>5. ~Acts(c) \/ Active(c)
      BY <3>1, <3>3, <3>4, CalmTypes DEF Acts, Closers
    <3> QED
      BY <1>0, <2>2, <3>2, <3>5, TaskMoves DEF Active
  <2> QED
    BY <1>0, <1>1, <2>1, <2>2, <2>3, WatcherMoves DEF c
<1>3. ASSUME NEW u \in Task, TunnelIs(u, s)
      PROVE  task'[c].sid = s
  <2>1. c = task[u].c
    BY <1>3 DEF TunnelIs, c
  <2>2. CASE task'[c] = Watcher(s)
    BY <2>2, RestingFields
  <2>3. CASE u \in Conn /\ At(u, "close_lost") /\ c = u /\ task[u].sid = s
    <3>1. ~Born(c)
      BY <2>3 DEF Born, At
    <3> QED
      BY <1>1, <2>3, <3>1, WatcherMoves
  <2> QED
    BY <1>3, <2>1, <2>2, <2>3 DEF TunnelIs
<1> QED
  BY <1>2, <1>3, TunnelClaims DEF c, NoTunnel

LEMMA LostTunnelStep ==
  ASSUME CalmStep, NEW c \in Conn, task'[c].pc = "close_lost"
  PROVE  task'[c].c = c /\ task'[c].old.c = c /\ registry'[task'[c].sid] = None
<1>1. c \in Task /\ c \notin Sid /\ c \notin Closers /\ c # Boot /\ c \notin Op
  BY CalmTypes DEF Closers
<1>2. ~Started(c) /\ ~Born(c)
  BY <1>1, RestingFields DEF Started, Born
<1>3. CASE task'[c] = task[c]
  <2>1. At(c, "close_lost")
    BY <1>3 DEF At
  <2>2. PICK s \in Sid : s = task[c].sid
    BY <1>1, <2>1, CalmFacts, PcKinds DEF Active, At
  <2>3. task[c].c = c /\ task[c].old.c = c /\ registry[s] = None
    BY <2>1, <2>2, CalmFacts DEF ClaimsDiffer
  <2>4. ASSUME registry'[s] # None
        PROVE  FALSE
    <3>1. PICK u \in Task : Works(u, s) /\ (Publishes(u, s) \/ Installs(u, s))
      BY <2>3, <2>4, PortBegins
    <3>2. CASE Publishes(u, s)
      <4>1. Active(s)
        BY <3>2 DEF Publishes, Active, At
      <4>2. At(c, "watching")
        BY <2>2, <4>1, CalmFacts DEF OpeningIsAlone, Opening
      <4> QED
        BY <2>1, <4>2 DEF At
    <3>3. CASE Installs(u, s)
      <4>1. At(u, "commit") /\ u \notin Sid
        BY <3>3, CalmTypes DEF Installs
      <4>2. task[u].sid = s /\ task[u].pc \in ReattachPcs
        BY <3>1, <4>1 DEF Works, At, ReattachPcs
      <4>3. Works(c, s)
        BY <2>1, <2>2 DEF Works, Holding, At
      <4>4. c = u
        BY <1>1, <4>2, <4>3, AttemptLocks
      <4> QED
        BY <2>1, <4>1, <4>4 DEF At
    <3> QED
      BY <3>1, <3>2, <3>3
  <2> QED
    BY <1>3, <2>2, <2>3, <2>4
<1>4. CASE Acts(c)
  <2>1. ~AttemptDoes(c)
    <3>1. \A r : HasBegun(c, r) \/ HasRaised(c, r) => task'[c].pc # "close_lost"
      BY RestingFields DEF HasBegun, HasRaised, From
    <3> QED
      BY <3>1, RestingFields DEF AttemptDoes, AttemptOn, From
  <2>2. WatchDoes(c)
    BY <1>1, <1>4, <2>1 DEF Acts
  <2>3. WatcherMends(c)
    BY <2>2, RestingFields DEF WatchDoes, WatcherDies, WatcherGoesOn, WatcherLeaves
  <2>4. \A r : HasBegun(c, r) \/ HasRaised(c, r) => task'[c].pc # "close_lost"
    BY RestingFields DEF HasBegun, HasRaised, From
  <2>5. /\ From(c, task[c], "close_lost") /\ tunnels[task[c].sid].c = c /\ At(c, "exit_checks")
        /\ task'[c].c = c /\ task'[c].old = tunnels[task[c].sid] /\ Unpublished(task[c].sid)
    BY <2>3, <2>4 DEF WatcherMends, From
  <2>6. task[c].sid \in Sid
    BY <1>1, <2>5, CalmFacts, PcKinds DEF Active, At
  <2> QED
    BY <2>5, <2>6, CalmTypes DEF From, Unpublished
<1> QED
  BY <1>1, <1>2, <1>3, <1>4, TaskMoves

LEMMA ClaimsStep ==
  ASSUME CalmStep
  PROVE  ClaimsDiffer'
<1>1. \A t, u \in Task : task'[t].c # None /\ task'[t].c = task'[u].c => t = u
  BY TaskClaimsStep
<1>2. \A t \in Task, s \in Sid : task'[t].c # None /\ tunnels'[s].c = task'[t].c =>
        t = s /\ task'[s].pc \in OpenedPcs
  BY MixedClaimsStep
<1>3. \A s, u \in Sid : tunnels'[s].c # None /\ tunnels'[s].c = tunnels'[u].c => s = u
  BY TunnelsDifferStep
<1>4. \A s \in Sid : tunnels'[s].watched /\ tunnels'[s].c \in Conn /\ task'[tunnels'[s].c].pc # "idle" =>
        task'[tunnels'[s].c].sid = s
  BY WatchedStep
<1>5. \A c \in Conn : task'[c].pc = "close_lost" =>
        task'[c].c = c /\ task'[c].old.c = c /\ registry'[task'[c].sid] = None
  BY LostTunnelStep
<1> QED
  BY <1>1, <1>2, <1>3, <1>4, <1>5 DEF ClaimsDiffer, Active, At

\* What is done to a session being opened that its start task does not do: a close is
\* recorded, or cancels the open.
StartActs(s) == Active(s) /\ StartDoes(s)
CloseBegins(o, s) ==
  o \in Op /\ o # s /\ task[o].sid = s /\ ((AsksStop(o) /\ Exists(s)) \/ SettlesStart(o))

LEMMA OpeningTurns ==
  ASSUME CalmStep, NEW s \in Sid, Active(s)
  PROVE  \/ Same(s)
         \/ StartActs(s)
         \/ \E o \in Op : CloseBegins(o, s)
<1>1. Opening(s) /\ ~Active(Boot) /\ \A o \in Op : task[o].pc \in SettledPcs => task[o].sid # s
  BY CalmFacts DEF OpeningIsAlone, Settled
<1>2. CASE Still
  BY <1>2 DEF Still, Same, SameRow
<1>3. ASSUME NEW t \in Task, Event(t, s), t \notin Sid,
             t \in Op => task[t].pc \in SettledPcs, t \in Conn => ~At(t, "watching") \/ ~Holding(task[t])
      PROVE  FALSE
  <2>1. ~Inserts(t, s)
    BY InsertsAreNew
  <2>2. Works(t, s) /\ task[t].sid = s
    BY <1>3, <2>1 DEF Event, Works
  <2>3. t \notin Op
    BY <1>1, <1>3, <2>2
  <2>4. t \notin Conn
    <3>1. t \in Conn => Holding(task[t]) /\ At(t, "watching")
      BY <1>1, <2>2, <2>3, <1>3 DEF Works, Opening
    <3> QED
      BY <1>3, <3>1
  <2>5. t = Boot
    BY <1>3, <2>3, <2>4 DEF Task
  <2>6. Holding(task[Boot])
    BY <2>2, <2>3, <2>5, CalmTypes, ServiceAssumption DEF Works
  <2> QED
    BY <1>1, <2>6 DEF Holding, Active, ReattachPcs, DoClosePcs
<1>4. ASSUME NEW o \in Op, OpDoes(o)
      PROVE  Same(s) \/ CloseBegins(o, s)
  <2>0. o # s
    BY CalmTypes, ServiceAssumption
  <2>1. CASE Arrives(o) \/ LooksUp(o) \/ Answers(o) \/ StartsOpening(o)
    BY <2>1 DEF Arrives, LooksUp, Answers, StartsOpening, Alone, Same, SameRow
  <2>2. CASE InsertsRow(o)
    BY <2>2 DEF InsertsRow, FreeSid, OtherRows, Same
  <2>3. CASE RemovesRow(o)
    <3>1. task[o].sid # s
      BY <2>3, CalmFacts DEF RemovesRow, Unlaunched
    <3> QED
      BY <2>3, <3>1 DEF RemovesRow, OtherRows, Same
  <2>4. CASE AsksStop(o)
    <3>1. CASE s = task[o].sid /\ Exists(s)
      BY <2>0, <2>4, <3>1 DEF CloseBegins
    <3>2. CASE ~(s = task[o].sid /\ Exists(s))
      BY <2>4, <3>2 DEF AsksStop, OtherRows, SameRows, Same
    <3> QED
      BY <3>1, <3>2
  <2>5. CASE SettlesStart(o)
    <3>1. CASE task[o].sid = s
      BY <2>0, <2>5, <3>1 DEF CloseBegins
    <3>2. CASE task[o].sid # s
      BY <2>5, <3>2, CalmTypes DEF SettlesStart, Unpublished, Same, SameRow
    <3> QED
      BY <3>1, <3>2
  <2>6. CASE BeginsClosing(o)
    <3>1. task[o].sid # s
      BY <2>6 DEF BeginsClosing
    <3> QED
      BY <2>6, <3>1, CalmTypes DEF BeginsClosing, Unpublished, Same, SameRow
  <2>7. CASE BeginsRetry(o)
    <3>1. task[o].sid # s
      BY <2>7 DEF BeginsRetry
    <3> QED
      BY <2>7, <3>1, CalmTypes DEF BeginsRetry, Unpublished, SameRows, Same
  <2> QED
    BY <1>4, <2>1, <2>2, <2>3, <2>4, <2>5, <2>6, <2>7 DEF OpDoes
<1>5. ASSUME NEW t \in Closers, CloseDoes(t)
      PROVE  Same(s)
  <2>1. task[t].pc \in SettledPcs /\ t \in Task /\ t \notin Sid /\ t \notin Conn
    BY <1>5, CalmTypes DEF CloseDoes, CloseGoesOn, At, SettledPcs, DoClosePcs
  <2> QED
    BY <1>3, <1>5, <2>1, CloseEvents
<1>6. ASSUME NEW t \in Closers \cup Conn, AttemptDoes(t), cancelled' = cancelled, t \notin cancelled
      PROVE  Same(s)
  <2>1. task[t].pc \in SettledPcs /\ t \in Task /\ t \notin Sid
    BY <1>6, CalmTypes DEF AttemptDoes, AttemptOn, At, SettledPcs, ReattachPcs
  <2>2. ~At(t, "watching")
    BY <2>1 DEF At, SettledPcs, DoClosePcs, ReattachPcs
  <2> QED
    BY <1>3, <1>6, <2>1, <2>2, AttemptEvents
<1>7. ASSUME NEW u \in Sid, Active(u), StartDoes(u)
      PROVE  Same(s) \/ StartActs(s)
  <2>1. CASE u = s
    BY <1>7, <2>1 DEF StartActs
  <2>2. ASSUME Event(u, s), u # s
        PROVE  FALSE
    <3>1. ~Inserts(u, s)
      BY CalmTypes, InsertsAreNew
    <3>2. Works(u, s)
      BY <2>2, <3>1 DEF Event
    <3> QED
      BY <2>2, <3>2, StartWorks
  <2> QED
    BY <1>7, <2>1, <2>2, StartEvents
<1>8. ASSUME NEW c \in Conn, WatchDoes(c)
      PROVE  Same(s)
  <2>1. ~At(c, "watching") \/ ~Holding(task[c])
    BY DEF Holding, At, ReattachPcs, DoClosePcs
  <2>2. c \in Task /\ c \notin Sid /\ c \notin Op
    BY CalmTypes, ServiceAssumption
  <2> QED
    BY <1>3, <1>8, <2>1, <2>2, WatchEvents
<1>9. ~RecoveryDoes
  <2>1. ~RecoveryTurns /\ ~RecoveryWorks /\ ~RecoveryLeaves
    BY <1>1 DEF RecoveryTurns, RecoveryWorks, RecoveryLeaves, Active, At
  <2> QED
    BY <1>1, <2>1 DEF RecoveryDoes, Active, At
<1> QED
  BY <1>2, <1>4, <1>5, <1>6, <1>7, <1>8, <1>9, StepIs DEF Acts

-----------------------------------------------------------------------------
(***************************************************************************)
(* The connection of a session being opened stays open.                    *)
(***************************************************************************)
ClosingPcs == {"undo_conn", "close_conn", "drop_conn", "check_done"}
ConnKept(c) == conn'[c] \/ \E t \in Task : task[t].c = c /\ task[t].pc \in ClosingPcs

LEMMA ConnStays ==
  ASSUME CalmStep, NEW c \in Conn, conn[c]
  PROVE  ConnKept(c) \/ ConnectionLost(c)
<1>1. conn \in [Conn -> BOOLEAN] /\ Op \subseteq Task /\ Sid \subseteq Task /\ Conn \subseteq Task
      /\ Boot \in Task
  BY CalmFacts, CalmTypes DEF MoveInv, TypeOK
<1>2. UNCHANGED conn => ConnKept(c)
  BY DEF ConnKept
<1>3. \A x : Opened(x) => ConnKept(c)
  BY <1>1 DEF Opened, ConnKept
<1>4. \A t \in Task : Closed(task[t].c) /\ task[t].pc \in ClosingPcs => ConnKept(c)
  BY <1>1 DEF Closed, ConnKept
<1>5. ASSUME NEW o \in Op, OpenStep(o) \/ CloseStep(o) \/ RetryStep(o)
                           \/ \E kind \in Requests, a \in Alias : Request(o, kind, a)
      PROVE  ConnKept(c)
  BY <1>2, <1>5 DEF OpenStep, CloseStep, RetryStep, Request, Enter, OpenChecks, OpenStarts,
     CloseRecordsIntent, CloseCancelsStart, CloseStarts, RetryBegins, RetryProceeds, RetryReopens, world
<1>6. ASSUME NEW t \in Closers, DoCloseStep(t)
      PROVE  ConnKept(c)
  <2>1. t \in Task
    BY <1>6, CalmTypes
  <2>2. CASE DoCloseDials(t)
    BY <1>2, <1>3, <2>2 DEF DoCloseDials
  <2>3. CASE DoCloseClosesConn(t)
    BY <1>2, <1>4, <2>1, <2>3 DEF DoCloseClosesConn, At, ClosingPcs
  <2> QED
    BY <1>2, <1>6, <2>2, <2>3 DEF DoCloseStep, DoCloseReads, DoCloseTakesTunnel, DoCloseStopsListener,
       DoCloseStopsRemote, DoCloseForgets, DoCloseFinishes, DoCloseReleases, world
<1>7. ASSUME NEW t \in Task, ReattachStep(t)
      PROVE  ConnKept(c)
  <2>1. CASE Reconnects(t)
    BY <1>2, <1>3, <2>1 DEF Reconnects
  <2>2. CASE DropsConn(t)
    BY <1>2, <1>4, <2>2 DEF DropsConn, At, ClosingPcs
  <2> QED
    BY <1>2, <1>7, <2>1, <2>2 DEF ReattachStep, Interrupted, Inspects, RemovesAbsent, ReattachVerifies,
       ReattachInstalls, ReattachReads, BackoffEnds, world
<1>8. ASSUME NEW s \in Sid, StartStep(s)
      PROVE  ConnKept(c)
  <2>1. CASE StartConnects(s)
    BY <1>2, <1>3, <2>1 DEF StartConnects
  <2>2. CASE CleanupCancelled(s)
    BY <1>1, <1>2, <1>4, <2>2 DEF CleanupCancelled, At, ClosingPcs
  <2>3. CASE CleanupConn(s)
    BY <1>1, <1>2, <1>4, <2>3 DEF CleanupConn, Resumes, At, ClosingPcs
  <2>4. CASE StartCancelled(s) \/ StartFails(s) \/ StartInstalls(s) \/ StartLaunches(s)
             \/ StartForwards(s) \/ StartForwarded(s) \/ StartPublishes(s)
    BY <1>2, <2>4 DEF StartCancelled, StartFails, StartInstalls, StartLaunches, StartForwards,
       StartForwarded, StartPublishes, world
  <2>5. CASE StartVerifies(s) \/ StartDone(s) \/ StartUnhandled(s) \/ CleanupDecides(s)
             \/ CleanupWatcherEnded(s) \/ CleanupListener(s) \/ CleanupRemote(s) \/ CleanupMarks(s)
    BY <1>2, <2>5 DEF StartVerifies, StartDone, StartUnhandled, CleanupDecides, CleanupWatcherEnded,
       CleanupListener, CleanupRemote, CleanupMarks, world
  <2> QED
    BY <1>8, <2>1, <2>2, <2>3, <2>4, <2>5 DEF StartStep
<1>9. ASSUME NEW d \in Conn, WatchStep(d)
      PROVE  ConnKept(c)
  BY <1>2, <1>9 DEF WatchStep, WatcherWakes, WatcherQueues, WatcherReads, WatcherExits, WatcherDrops,
     WatcherAttempts, WatcherLate, WatcherMarksLoss, WatcherCancelled, world
<1>10. ASSUME RecoveryStep(Boot)
       PROVE  ConnKept(c)
  <2>1. CASE RecoveryDials(Boot)
    BY <1>2, <1>3, <2>1 DEF RecoveryDials
  <2>2. CASE RecoveryChecked(Boot)
    BY <1>1, <1>2, <1>4, <2>2 DEF RecoveryChecked, At, ClosingPcs
  <2> QED
    BY <1>2, <1>10, <2>1, <2>2 DEF RecoveryStep, RecoverRow, RecoveryReattaches, RecoveryEnds,
       RecoveryInspects, RecoveryDrops, RecoveryReleases, RecoveryClearsLost, RecoveryMarks, world
<1>11. ASSUME NEW s \in Sid, HelperStep(s) \/ ProcessDies(s) \/ PidReused(s)
       PROVE  ConnKept(c)
  BY <1>2, <1>11 DEF HelperStep, HelperRecords, HelperFails, ProcessDies, PidReused, OnlyRemote
<1>12. ASSUME NEW d \in Conn, ConnectionLost(d)
       PROVE  ConnKept(c) \/ ConnectionLost(c)
  BY <1>1, <1>12 DEF ConnectionLost, Closed, ConnKept
<1>13. Quiescent \/ UNCHANGED vars => ConnKept(c)
  BY <1>2 DEF Quiescent, vars, world
<1> QED
  BY <1>1, <1>5, <1>6, <1>7, <1>8, <1>9, <1>10, <1>11, <1>12, <1>13, CalmFacts, CalmTypes
     DEF Next, OpStep, WatcherStep, BootStep, Environment

\* The connection of an open that waits is not closed by another task, and without
\* "early_loss" not lost.
LEMMA OpeningKeepsConn ==
  ASSUME CalmStep, NEW s \in Sid, task[s].pc \in (OpeningPcs \ {"connect"}) \cup OpenedPcs
  PROVE  task[s].c \in Conn /\ conn'[task[s].c]
<1> DEFINE c == task[s].c
<1>1. Active(s) /\ task[s].pc \notin ClosingPcs
  BY DEF Active, OpeningPcs, OpenedPcs, ClosingPcs
<1>2. c \in Conn /\ conn[c] /\ Opening(s)
  BY <1>1, CalmFacts DEF OpeningIsAlone, Opening
<1>3. c # None
  BY <1>2, CalmTypes
<1>4. ~ConnectionLost(c)
  <2> SUFFICES ASSUME ConnectionLost(c)
               PROVE  FALSE
    OBVIOUS
  <2>1. At(c, "watching") /\ ~Active(task[c].sid)
    BY CalmFacts DEF ConnectionLost, Fault
  <2>2. CASE task[s].pc \in OpenedPcs
    <3>1. tunnels[s].c = c /\ tunnels[s].watched
      BY <1>2, <2>2 DEF Opening, LiveTunnel
    <3>2. task[c].sid = s
      BY <1>2, <2>1, <3>1, CalmFacts DEF ClaimsDiffer, Active, At
    <3> QED
      BY <1>1, <2>1, <3>2
  <2>3. CASE task[s].pc \notin OpenedPcs
    <3>1. Fresh(task[s])
      BY <2>3 DEF Fresh, OpeningPcs, OpenedPcs
    <3>2. task[c].pc = "idle"
      BY <3>1, CalmFacts, CalmTypes DEF LifecycleInv, FreshConnections, FreshOK
    <3> QED
      BY <2>1, <3>2 DEF At
  <2> QED
    BY <2>2, <2>3
<1>5. \A t \in Task : task[t].c = c => t = s
  BY <1>3, ClaimsOld, CalmTypes
<1>6. ConnKept(c)
  BY <1>2, <1>4, ConnStays
<1> QED
  BY <1>1, <1>2, <1>5, <1>6 DEF ConnKept

\* Nobody else installs or publishes anything for a session being opened.
LEMMA OpeningIsLeft ==
  ASSUME CalmStep, NEW s \in Sid, Active(s), ~StartActs(s)
  PROVE  /\ task'[s] = task[s] /\ tunnels'[s] = tunnels[s]
         /\ registry'[s] = registry[s] \/ (registry'[s] = None /\ s \in cancelled')
         /\ s \in cancelled' /\ s \notin cancelled => registry'[s] = None
         /\ SameRow(s) \/ \E o \in Op : /\ AsksStop(o) /\ task[o].sid = s
                                        /\ row'[s].state = "stopping" /\ row'[s].close_reason
<1>1. task'[s] = task[s]
  <2>1. ~Started(s)
    BY StartedAlone
  <2> QED
    BY <2>1, StartMoves DEF StartActs
<1>2. s \in cancelled' /\ s \notin cancelled => registry'[s] = None
  <2>1. \A o \in Op : SettlesStart(o) /\ task[o].sid = s => registry'[s] = None
    BY CalmTypes DEF SettlesStart, Unpublished
  <2> QED
    BY <2>1, StartCancels
<1>3. CASE Same(s)
  BY <1>1, <1>2, <1>3 DEF Same
<1>4. ASSUME NEW o \in Op, CloseBegins(o, s), SettlesStart(o)
      PROVE  tunnels'[s] = tunnels[s] /\ registry'[s] = None /\ s \in cancelled' /\ SameRow(s)
  BY <1>4, CalmTypes DEF CloseBegins, SettlesStart, Unpublished, SameRow
<1>5. ASSUME NEW o \in Op, CloseBegins(o, s), AsksStop(o), Exists(s)
      PROVE  /\ tunnels'[s] = tunnels[s] /\ registry'[s] = registry[s]
             /\ row'[s].state = "stopping" /\ row'[s].close_reason /\ task[o].sid = s
  BY <1>5, CalmTypes DEF CloseBegins, AsksStop
<1> QED
  BY <1>1, <1>2, <1>3, <1>4, <1>5, OpeningTurns DEF CloseBegins

\* The watchers of a session being opened stay at their first post.
LEMMA OpeningWatchers ==
  ASSUME CalmStep, NEW s \in Sid, Active(s), ~StartActs(s), NEW c \in Conn, task'[c].sid = s
  PROVE  task'[c] = task[c] /\ (c \in cancelled => c \in cancelled')
<1>1. Opening(s) /\ c \in Task /\ s # None
  BY CalmFacts, CalmTypes DEF OpeningIsAlone
<1>2. task'[c] # IdleTask
  BY <1>1, RestingFields
<1>3. ~Born(c)
  <2> SUFFICES ASSUME Born(c)
               PROVE  FALSE
    OBVIOUS
  <2>1. PICK u \in Task \ {c} : /\ task'[c] = Watcher(task[u].sid) /\ task[u].sid \in Sid
                                /\ Publishes(u, task[u].sid) \/ Installs(u, task[u].sid)
    BY DEF Born
  <2>2. task[u].sid = s
    BY <2>1, RestingFields
  <2>3. ~Publishes(u, s)
    BY OpeningIsLeft DEF Publishes, From, At
  <2>4. ~Installs(u, s)
    <3>1. Installs(u, s) => registry'[s] = task[u].c /\ task[u].c \in Conn /\ task[u].pc = "commit"
      BY CalmTypes DEF Installs, Published, Births, At
    <3>2. task[u].pc = "commit" => registry[s] = None
      BY <2>1, <2>2, CalmFacts DEF AttemptIsAlone, ReattachPcs, At
    <3> QED
      BY <3>1, <3>2, OpeningIsLeft, CalmTypes
  <2> QED
    BY <2>1, <2>2, <2>3, <2>4
<1>4. task[c].sid = s /\ At(c, "watching")
  BY <1>1, <1>2, <1>3, WatcherMoves DEF Opening
<1>5. c \in cancelled \/ conn[c]
  <2>1. c \in cancelled \/ (c = task[s].c /\ task[s].pc \in OpenedPcs)
    BY <1>1, <1>4 DEF Opening
  <2> QED
    BY <1>1, <2>1 DEF Opening
<1>6. ~WatchDoes(c)
  <2>1. ~WatcherDies(c)
    BY <1>2 DEF WatcherDies
  <2>2. ~WatcherGoesOn(c)
    BY <1>4, <1>5 DEF WatcherGoesOn, At
  <2>3. ~WatcherLeaves(c) /\ ~WatcherMends(c)
    BY <1>4 DEF WatcherLeaves, WatcherMends, At
  <2> QED
    BY <2>1, <2>2, <2>3 DEF WatchDoes
<1>7. ~AttemptDoes(c)
  BY <1>4 DEF AttemptDoes, AttemptOn, At
<1>8. ~Acts(c)
  <2>1. c \notin Sid /\ c \notin Op /\ c \notin Closers /\ c # Boot
    BY CalmTypes DEF Closers
  <2> QED
    BY <1>6, <1>7, <2>1 DEF Acts
<1>9. task'[c] = task[c]
  BY <1>1, <1>3, <1>8, CalmTypes, TaskMoves DEF Started
<1> QED
  BY <1>2, <1>9, Cancels

-----------------------------------------------------------------------------
(***************************************************************************)
(* OpeningIsAlone.                                                         *)
(***************************************************************************)
\* The stop a close has recorded is followed by the cancellation.
LEMMA StopAskedStays ==
  ASSUME CalmStep, NEW s \in Sid, Active(s), ~StartActs(s), StopAsked(s), s \notin cancelled'
  PROVE  StopAsked(s)'
<1>1. PICK o \in Op : At(o, "stopping") /\ task[o].sid = s
  BY DEF StopAsked
<1>2. task'[o] = task[o]
  <2>1. ~CloseDoes(o) /\ ~AttemptDoes(o)
    BY <1>1, OpStays DEF At, SettledPcs, DoClosePcs, ReattachPcs, CloseDoes, CloseGoesOn, AttemptDoes, AttemptOn
  <2>2. OpDoes(o) => SettlesStart(o)
    BY <1>1 DEF OpDoes, Arrives, LooksUp, Answers, InsertsRow, RemovesRow, StartsOpening, AsksStop,
       BeginsClosing, BeginsRetry, At
  <2>3. ~SettlesStart(o)
    BY <1>1 DEF SettlesStart
  <2> QED
    BY <2>1, <2>2, <2>3, OpTurns
<1>3. row'[s].state = "stopping"
  BY OpeningIsLeft DEF StopAsked, SameRow
<1> QED
  BY <1>1, <1>2, <1>3 DEF StopAsked, At

LEMMA OpeningWaits ==
  ASSUME CalmStep, NEW s \in Sid, Active(s), ~StartActs(s)
  PROVE  Opening(s)'
<1>1. Opening(s)
  BY CalmFacts DEF OpeningIsAlone
<1>2. /\ task'[s] = task[s] /\ tunnels'[s] = tunnels[s]
      /\ registry'[s] = registry[s] \/ (registry'[s] = None /\ s \in cancelled')
      /\ s \in cancelled' /\ s \notin cancelled => registry'[s] = None
      /\ SameRow(s) \/ \E o \in Op : /\ AsksStop(o) /\ task[o].sid = s
                                     /\ row'[s].state = "stopping" /\ row'[s].close_reason
  BY OpeningIsLeft
<1>3. \A c \in Conn : task'[c].sid = s => task'[c] = task[c] /\ (c \in cancelled => c \in cancelled')
  BY OpeningWatchers
<1>4. (task[s].sid = s)' /\ (task[s].pc \in OpeningPcs \ {"verify", "ready"} => NothingYet(s))'
  BY <1>1, <1>2, <1>3 DEF Opening, NothingYet
<1>5. (task[s].pc \in OpenedPcs => tunnels[s] = LiveTunnel(task[s].c))'
  BY <1>1, <1>2 DEF Opening, LiveTunnel
<1>6. (task[s].pc \in (OpeningPcs \ {"connect"}) \cup OpenedPcs =>
         task[s].c \in Conn /\ conn[task[s].c])'
  BY <1>2, OpeningKeepsConn
<1>7. /\ (task[s].pc \in OpeningPcs \ {"ready"} => "ready" \notin task[s].ledger)'
      /\ (At(s, "verify") => "registry" \in task[s].ledger)'
  BY <1>1, <1>2 DEF Opening, At
<1>8. (At(s, "ready_read") => ~Standing(s))'
  BY <1>1, <1>2 DEF Opening, At, Standing, Exists, SameRow
<1>9. s \in cancelled => s \in cancelled' \/ task'[s].pc \notin OpeningPcs
  BY StartCancels
<1>10. (registry[s] = IF task[s].pc \in {"verify", "ready"} /\ s \notin cancelled
                      THEN task[s].c ELSE None)'
  BY <1>1, <1>2, <1>9 DEF Opening, OpeningPcs
<1>11. (row[s].state # "error" /\ (row[s].state = "ready" => At(s, "ready")))'
  BY <1>1, <1>2 DEF Opening, At, SameRow
<1>12. (task[s].pc \in OpeningPcs /\ s \notin cancelled =>
          row[s].state = (IF At(s, "ready") THEN "ready" ELSE "starting") \/ StopAsked(s))'
  <2> SUFFICES ASSUME task'[s].pc \in OpeningPcs, s \notin cancelled'
               PROVE  \/ row'[s].state = (IF task'[s].pc = "ready" THEN "ready" ELSE "starting")
                      \/ StopAsked(s)'
    BY DEF At
  <2>1. row[s].state = (IF At(s, "ready") THEN "ready" ELSE "starting") \/ StopAsked(s)
    BY <1>1, <1>2, <1>9 DEF Opening
  <2>2. CASE StopAsked(s)
    BY <2>2, StopAskedStays
  <2>3. ASSUME NEW o \in Op, AsksStop(o), task[o].sid = s, row'[s].state = "stopping"
        PROVE  StopAsked(s)'
    BY <2>3 DEF AsksStop, From, StopAsked, At
  <2> QED
    BY <1>2, <2>1, <2>2, <2>3 DEF SameRow, At
<1>13. (\A c \in Conn : task[c].sid = s =>
          At(c, "watching") /\ (c \in cancelled \/ (c = task[s].c /\ task[s].pc \in OpenedPcs)))'
  BY <1>1, <1>2, <1>3 DEF Opening, At
<1> QED
  BY <1>4, <1>5, <1>6, <1>7, <1>8, <1>10, <1>11, <1>12, <1>13 DEF Opening

LEMMA OpeningBegins ==
  ASSUME CalmStep, NEW s \in Sid, Started(s)
  PROVE  Opening(s)'
<1>1. PICK o \in Op : /\ StartsOpening(o) /\ task[o].sid = s /\ ~Active(s)
                      /\ \A c \in Conn : task[c].sid # s
                      /\ registry[s] = None /\ tunnels[s] = NoTunnel /\ row[s].state = "starting"
  BY StartedAlone
<1>2. /\ task'[s].pc = "connect" /\ task'[s].sid = s /\ task'[s].ledger = {}
      /\ UNCHANGED <<row, tunnels, registry, cancelled, unrecovered>>
      /\ \A u \in Task \ {o, s} : task'[u] = task[u]
  BY <1>1 DEF StartsOpening
<1>3. \A c \in Conn : task'[c].sid # s
  BY <1>1, <1>2, CalmTypes, ServiceAssumption
<1> QED
  BY <1>1, <1>2, <1>3 DEF Opening, NothingYet, At, OpeningPcs, OpenedPcs

\* The steps of the start task before anything is installed.
LEMMA OpeningGoesOn ==
  ASSUME CalmStep, NEW s \in Sid, Active(s), OpeningDoes(s), s \notin cancelled,
         cancelled' = cancelled, ~At(s, "tunnel"), ~At(s, "verify")
  PROVE  Opening(s)'
<1>1. Opening(s)
  BY CalmFacts DEF OpeningIsAlone
<1>2. /\ task[s].pc \in OpeningPcs \ {"verify", "ready"}
      /\ task'[s].pc \in {"install", "start", "identity", "forward", "tunnel"}
      /\ task'[s].sid = task[s].sid /\ Others(s) /\ UNCHANGED <<tunnels, registry>> /\ SameRow(s)
      /\ "ready" \notin task[s].ledger => "ready" \notin task'[s].ledger
      /\ task'[s].c \in Conn /\ conn'[task'[s].c]
  <2>1. CASE OpensOn(s) /\ conn' = conn
    <3>1. task[s].c \in Conn /\ conn'[task[s].c]
      BY <2>1, OpeningKeepsConn DEF OpensOn, At, OpeningPcs
    <3> QED
      BY <2>1, <3>1 DEF OpensOn, StartGoesOn, From, At, OpeningPcs, SameRows
  <2>2. CASE /\ At(s, "connect") /\ From(s, task[s], "install") /\ Others(s)
             /\ task'[s].c \in Conn /\ Opened(task'[s].c)
             /\ task'[s].ledger = task[s].ledger /\ UNCHANGED <<row, tunnels, registry>>
    <3>1. conn \in [Conn -> BOOLEAN]
      BY CalmFacts DEF MoveInv, TypeOK
    <3>2. conn'[task'[s].c]
      BY <2>2, <3>1 DEF Opened
    <3> QED
      BY <2>2, <3>2 DEF From, At, OpeningPcs, SameRow
  <2> QED
    BY <2>1, <2>2 DEF OpeningDoes
<1>3. NothingYet(s)' /\ \A c \in Conn : task'[c].sid # s
  BY <1>1, <1>2, CalmTypes DEF Opening, NothingYet, Others
<1>4. row[s].state = "starting" \/ StopAsked(s)
  BY <1>1, <1>2 DEF Opening, At
<1>5. row'[s].state = "starting" \/ StopAsked(s)'
  BY <1>2, <1>4, CalmTypes, ServiceAssumption DEF StopAsked, SameRow, Others, At
<1>6. row'[s].state # "error" /\ row'[s].state # "ready"
  BY <1>1, <1>2 DEF Opening, SameRow, At
<1> QED
  BY <1>1, <1>2, <1>3, <1>5, <1>6 DEF Opening, At, OpeningPcs, OpenedPcs, NothingYet

\* The port is published.
LEMMA OpeningPublishes ==
  ASSUME CalmStep, NEW s \in Sid, Active(s), OpeningDoes(s), s \notin cancelled,
         cancelled' = cancelled, At(s, "tunnel")
  PROVE  Opening(s)'
<1>1. Opening(s)
  BY CalmFacts DEF OpeningIsAlone
<1> DEFINE c == task[s].c
<1>2. /\ From(s, task[s], "verify") /\ task'[s].c = c /\ Births(s)
      /\ task'[s].ledger = task[s].ledger \cup {"registry"} /\ UNCHANGED row
      /\ Keep(s, LiveTunnel(c)) /\ Published(s, c)
  BY DEF OpeningDoes, OpensOn, At
<1>3. tunnels'[s] = LiveTunnel(c) /\ registry'[s] = c
  BY <1>2, CalmTypes DEF Keep, Published
<1>4. c \in Conn /\ conn'[c]
  BY OpeningKeepsConn DEF At, OpeningPcs
<1>5. NothingYet(s) /\ "ready" \notin task[s].ledger /\ row[s].state \notin {"error", "ready"}
      /\ (row[s].state = "starting" \/ StopAsked(s))
  BY <1>1 DEF Opening, At, OpeningPcs
<1>6. \A d \in Conn : task'[d].sid = s => d = c /\ task'[d].pc = "watching"
  <2>1. ASSUME NEW d \in Conn, d # c
        PROVE  task'[d].sid # s
    <3>1. d \in Task /\ d # s
      BY CalmTypes
    <3>2. task'[d] = task[d]
      BY <1>2, <2>1, <3>1 DEF Births
    <3> QED
      BY <1>5, <3>2 DEF NothingYet
  <2>2. task'[c].pc = "watching"
    BY <1>2, RestingFields DEF Births
  <2> QED
    BY <2>1, <2>2
<1>7. StopAsked(s) => StopAsked(s)'
  <2>1. ASSUME NEW o \in Op, At(o, "stopping")
        PROVE  task'[o] = task[o]
    <3>1. o \in Task /\ o # s /\ o # c
      BY <1>4, CalmTypes, ServiceAssumption
    <3> QED
      BY <1>2, <3>1 DEF Births
  <2> QED
    BY <1>2, <2>1 DEF StopAsked, At
<1> HIDE DEF c
<1> QED
  BY <1>1, <1>2, <1>3, <1>4, <1>5, <1>6, <1>7 DEF Opening, From, At, OpeningPcs, OpenedPcs

\* The editor answers, and the row is marked ready unless a close came before.
LEMMA OpeningVerifies ==
  ASSUME CalmStep, NEW s \in Sid, Active(s), OpeningDoes(s), s \notin cancelled,
         cancelled' = cancelled, At(s, "verify")
  PROVE  Opening(s)'
<1>1. Opening(s)
  BY CalmFacts DEF OpeningIsAlone
<1>2. /\ From(s, task[s], "ready") /\ StartGoesOn(s)
      /\ IF row[s].state = "starting" THEN RowTo(s, "ready") ELSE SameRows
  BY DEF OpeningDoes, OpensOn, At
<1>3. task'[s].c = task[s].c /\ task[s].c \in Conn /\ conn'[task[s].c]
  BY <1>2, OpeningKeepsConn DEF StartGoesOn, At, OpeningPcs
<1>4. row'[s].state = "ready" \/ StopAsked(s)'
  <2>1. row[s].state = "starting" \/ StopAsked(s)
    BY <1>1 DEF Opening, At, OpeningPcs
  <2>2. CASE row[s].state = "starting"
    BY <1>2, <2>2 DEF RowTo
  <2>3. CASE row[s].state # "starting"
    BY <1>2, <2>1, <2>3, CalmTypes, ServiceAssumption DEF StopAsked, SameRows, SameRow, StartGoesOn, Others, At
  <2> QED
    BY <2>2, <2>3
<1>5. row'[s].state # "error"
  BY <1>1, <1>2 DEF Opening, RowTo, SameRows, SameRow
<1>6. \A c \in Conn : task'[c] = task[c]
  BY <1>2, CalmTypes DEF StartGoesOn, Others
<1> QED
  BY <1>1, <1>2, <1>3, <1>4, <1>5, <1>6 DEF Opening, From, At, StartGoesOn, OpeningPcs, OpenedPcs

\* A close that cancels the open has recorded its intent.
LEMMA CancelledIsClosing ==
  ASSUME CalmStep, NEW s \in Sid, s \in cancelled
  PROVE  ~Standing(s)
<1>1. PICK o \in Op : At(o, "start_settles") /\ task[o].sid = s
  BY CalmFacts DEF CancelledInTime
<1>2. task[o].kind \in {"close", "force"} /\ task[o].pc \in ClosePcs
  BY <1>1, CalmFacts DEF CloseIsKnown, At, ClosePcs
<1> QED
  BY <1>1, <1>2, CalmFacts DEF CloseIsKnown

\* Once the open has come to its end, what is left of it is neither published nor
\* opened, and its watchers are cancelled.
EndedPcs == StartPcs \ (OpeningPcs \cup OpenedPcs)
LEMMA OpeningIsOver ==
  ASSUME CalmStep, NEW s \in Sid, task'[s].sid = s, task'[s].pc \in EndedPcs,
         registry'[s] = None, SameRow(s), row[s].state \notin {"error", "ready"},
         \A c \in Conn : task'[c].sid = s => task'[c].pc = "watching" /\ c \in cancelled'
  PROVE  Opening(s)'
BY DEF Opening, EndedPcs, At, OpeningPcs, OpenedPcs, SameRow

\* The tunnel is dropped.
LEMMA OpeningDrops ==
  ASSUME CalmStep, NEW s \in Sid, Active(s), HasDropped(s),
         task[s].pc \in OpeningPcs \cup {"ready_read"}, At(s, "ready") => s \in cancelled
  PROVE  Opening(s)'
<1>1. Opening(s)
  BY CalmFacts DEF OpeningIsAlone
<1>2. task'[s].sid = s /\ task'[s].pc \in EndedPcs
  BY <1>1 DEF HasDropped, From, EndedPcs, StartPcs, OpeningPcs, OpenedPcs, Opening
<1>3. registry'[s] = None
  <2>1. CASE "registry" \in task[s].ledger
    BY <2>1, CalmTypes DEF HasDropped, Unpublished
  <2>2. CASE "registry" \notin task[s].ledger
    <3>1. registry[s] = None
      BY <1>1, <2>2 DEF Opening, At
    <3> QED
      BY <2>2, <3>1 DEF HasDropped
  <2> QED
    BY <2>1, <2>2
<1>4. row[s].state \notin {"error", "ready"}
  <2>1. row[s].state = "ready" => At(s, "ready") /\ ~Standing(s)
    BY <1>1, CancelledIsClosing DEF Opening
  <2> QED
    BY <1>1, <2>1, CalmFacts, StandingRows DEF Opening
<1>5. ASSUME NEW c \in Conn, task'[c].sid = s
      PROVE  task'[c].pc = "watching" /\ c \in cancelled'
  <2>1. task'[c] = task[c] /\ c # s
    BY CalmTypes DEF HasDropped, Others
  <2>2. At(c, "watching") /\ (c \in cancelled \/ (c = task[s].c /\ tunnels[s] = LiveTunnel(c)))
    BY <1>1, <1>5, <2>1 DEF Opening
  <2>3. tunnels[s] = LiveTunnel(c) => c \in WatcherOf(tunnels[s])
    BY <2>2 DEF WatcherOf, LiveTunnel, Active, At
  <2> QED
    BY <2>1, <2>2, <2>3 DEF HasDropped, At
<1> QED
  BY <1>2, <1>3, <1>4, <1>5, OpeningIsOver DEF HasDropped, SameRow

LEMMA OpeningFails ==
  ASSUME CalmStep, NEW s \in Sid, Active(s), OpeningEnds(s), conn' = conn, task'[s].pc # "idle"
  PROVE  Opening(s)'
<1>1. Opening(s)
  BY CalmFacts DEF OpeningIsAlone
<1>2. task'[s] # IdleTask
  BY RestingFields
<1>3. CASE /\ At(s, "connect") /\ From(s, task[s], "unhandled") /\ StartGoesOn(s)
           /\ cancelled' = cancelled /\ UNCHANGED row
  <2>1. /\ registry[s] = None /\ (\A c \in Conn : task[c].sid # s)
        /\ row[s].state \notin {"error", "ready"} /\ task[s].sid = s
    BY <1>1, <1>3 DEF Opening, NothingYet, At, OpeningPcs
  <2>2. \A c \in Conn : task'[c].sid # s
    BY <1>3, <2>1, CalmTypes DEF StartGoesOn, Others
  <2> QED
    BY <1>3, <2>1, <2>2, OpeningIsOver
       DEF StartGoesOn, From, EndedPcs, StartPcs, OpeningPcs, OpenedPcs, SameRow
<1>4. CASE /\ task[s].pc \in OpeningPcs /\ "ready" \in task[s].ledger
           /\ From(s, task[s], "ready_read") /\ StartGoesOn(s)
           /\ (At(s, "ready") => s \in cancelled) /\ UNCHANGED row
  <2>1. At(s, "ready") /\ s \in cancelled
    BY <1>1, <1>4 DEF Opening, At
  <2>2. ~Standing(s) /\ row[s].state \notin {"ready", "error"}
    BY <1>1, <2>1, CancelledIsClosing, CalmFacts, StandingRows DEF Opening
  <2>3. registry[s] = None /\ tunnels[s] = LiveTunnel(task[s].c)
    BY <1>1, <2>1 DEF Opening, At, OpenedPcs
  <2>4. task'[s].c = task[s].c /\ task[s].c \in Conn /\ conn'[task[s].c]
    BY <1>1, <1>4, <2>1 DEF StartGoesOn, Opening, At, OpeningPcs
  <2>5. ASSUME NEW c \in Conn, task'[c].sid = s
        PROVE  task'[c].pc = "watching" /\ (c \in cancelled' \/ c = task[s].c)
    <3>1. task'[c] = task[c]
      BY <1>4, CalmTypes DEF StartGoesOn, Others
    <3>2. c \in cancelled => c \in cancelled'
      BY <1>2, <2>5, <3>1, Cancels, RestingFields, CalmTypes
    <3> QED
      BY <1>1, <2>5, <3>1, <3>2 DEF Opening, At
  <2> QED
    BY <1>1, <1>4, <2>2, <2>3, <2>4, <2>5
       DEF Opening, StartGoesOn, From, At, OpeningPcs, OpenedPcs, Standing, Exists, LiveTunnel
<1>5. CASE /\ task[s].pc \in OpeningPcs /\ HasDropped(s) /\ (At(s, "ready") => s \in cancelled)
  BY <1>5, OpeningDrops
<1> QED
  BY <1>2, <1>3, <1>4, <1>5 DEF OpeningEnds

LEMMA OpeningCleansUp ==
  ASSUME CalmStep, NEW s \in Sid, Active(s), CleanupDoes(s), task'[s].pc # "idle"
  PROVE  Opening(s)'
<1>1. Opening(s)
  BY CalmFacts DEF OpeningIsAlone
<1>2. task'[s] # IdleTask
  BY RestingFields
<1>3. CASE At(s, "ready_read") /\ HasDropped(s)
  BY <1>3, OpeningDrops DEF At
<1>4. CASE /\ Others(s) /\ SameRow(s) /\ registry' = registry /\ task'[s].sid = task[s].sid
           /\ task[s].pc \in EndedPcs /\ task'[s].pc \in EndedPcs
           /\ cancelled' \in {cancelled, cancelled \ {s}}
  <2>1. /\ registry[s] = None /\ task[s].sid = s /\ row[s].state \notin {"error", "ready"}
        /\ \A c \in Conn : task[c].sid = s => At(c, "watching") /\ c \in cancelled
    BY <1>1, <1>4 DEF Opening, EndedPcs, At, OpeningPcs, OpenedPcs
  <2>2. \A c \in Conn : task'[c] = task[c] /\ c # s
    BY <1>4, CalmTypes DEF Others
  <2> QED
    BY <1>4, <2>1, <2>2, OpeningIsOver DEF At
<1>5. CASE /\ StartGoesOn(s) /\ SameRows
           /\ \/ /\ At(s, "watcher") /\ From(s, task[s], "listener") /\ cancelled' = cancelled \ {s}
              \/ /\ At(s, "listener") /\ cancelled' = cancelled
                 /\ \E p \in {"mark", "undo_remote", "undo_conn"} : From(s, task[s], p)
              \/ At(s, "undo_remote") /\ From(s, task[s], "undo_conn") /\ cancelled' = cancelled
  <2>1. Others(s) /\ SameRow(s) /\ registry' = registry
    BY <1>5 DEF StartGoesOn, SameRows
  <2>2. /\ task'[s].sid = task[s].sid /\ cancelled' \in {cancelled, cancelled \ {s}}
        /\ task[s].pc \in {"watcher", "listener", "undo_remote"}
        /\ task'[s].pc \in {"listener", "mark", "undo_remote", "undo_conn"}
    BY <1>5 DEF From, At
  <2> QED
    BY <1>4, <2>1, <2>2 DEF EndedPcs, StartPcs, OpeningPcs, OpenedPcs
<1>6. CASE /\ At(s, "undo_conn") /\ From(s, task[s], "mark") /\ Others(s)
           /\ UNCHANGED <<row, registry, cancelled>>
  BY <1>4, <1>6 DEF From, At, EndedPcs, StartPcs, OpeningPcs, OpenedPcs, SameRow
<1> QED
  BY <1>2, <1>3, <1>5, <1>6 DEF CleanupDoes

LEMMA OpeningStep ==
  ASSUME CalmStep, NEW s \in Sid, task'[s].pc # "idle"
  PROVE  Opening(s)'
<1>1. CASE Active(s) /\ ~StartActs(s)
  BY <1>1, OpeningWaits
<1>2. CASE StartActs(s)
  BY <1>2, OpeningGoesOn, OpeningPublishes, OpeningVerifies, OpeningFails, OpeningCleansUp DEF StartActs, StartDoes
<1>3. CASE ~Active(s)
  <2>1. Started(s)
    BY <1>3, StartMoves DEF Active
  <2> QED
    BY <2>1, OpeningBegins
<1> QED
  BY <1>1, <1>2, <1>3

\* Nothing is there yet of a session whose row was just inserted.
LEMMA InsertedStaysAlone ==
  ASSUME CalmStep, NEW o \in Op, At(o, "inserted"), task'[o] = task[o]
  PROVE  row'[task[o].sid].state = "starting" /\ NothingYet(task[o].sid)'
<1>1. PICK s \in Sid : s = task[o].sid
  BY CalmFacts, CalmTypes, TaskFacts DEF At
<1>2. /\ row[s].state = "starting" /\ NothingYet(s) /\ ~Active(s) /\ ~Active(Boot)
      /\ \A p \in Op \ {o} : task[p].sid # s
  BY <1>1, CalmFacts DEF OpeningIsAlone, Unlaunched, InsertsAlone, RecoveryIsAlone, Active, At
<1>3. ASSUME NEW u \in Task, Works(u, s)
      PROVE  u = o
  <2>1. task[u].sid = s /\ u # Boot
    BY <1>2, <1>3, CalmTypes DEF Works, Holding, Active, ReattachPcs, DoClosePcs
  <2>2. u \notin Sid
    <3>1. u \in Sid => u = s
      BY <1>3, StartWorks
    <3>2. ~Works(s, s)
      BY <1>2, CalmTypes, ServiceAssumption DEF Works, Holding, Active, ReattachPcs, DoClosePcs
    <3> QED
      BY <1>3, <3>1, <3>2
  <2> QED
    BY <1>2, <2>1, <2>2 DEF NothingYet, Task
<1>4. ~Event(o, s)
  <2>1. row'[s].state # "closed"
    BY <1>1, CalmFacts DEF InsertedExists, Exists, At
  <2>2. o \notin Sid /\ o \notin Conn /\ o \in Task
    BY CalmTypes, ServiceAssumption
  <2>3. ~Deletes(o, s) /\ ~Inserts(o, s)
    BY <1>2, <2>1, <2>2, RowValues, InsertsAreNew DEF At
  <2>4. ~Asks(o, s)
    BY DEF Asks, AsksStop, At
  <2>5. ~Fails(o, s) /\ ~Readies(o, s) /\ ~Completes(o, s)
    BY <2>2 DEF Fails, Readies, Completes, At
  <2>6. ~Retains(o, s) /\ ~Installs(o, s) /\ ~Publishes(o, s) /\ ~Drops(o, s) /\ ~TakesDown(o, s)
        /\ ~Empties(o, s)
    BY <2>2 DEF Retains, Installs, Publishes, Drops, TakesDown, Empties, At
  <2>7. Shuts(o, s) => ~Standing(s)
    BY DEF Shuts
  <2>8. Standing(s)
    BY <1>2, CalmFacts, StandingRows
  <2> QED
    BY <2>3, <2>4, <2>5, <2>6, <2>7, <2>8 DEF Event
<1>5. Same(s)
  <2>1. \A u \in Task : ~Inserts(u, s)
    BY <1>1, InsertsAreNew, CalmTypes
  <2> QED
    BY <1>3, <1>4, <2>1, StepEvents DEF Event
<1>6. ASSUME NEW c \in Conn
      PROVE  task'[c].sid # s
  <2>1. task[c].sid # s /\ c \in Task /\ s # None
    BY <1>2, CalmTypes DEF NothingYet
  <2>2. ~Born(c) \/ task'[c].sid # s
    <3> SUFFICES ASSUME Born(c), task'[c].sid = s
                 PROVE  FALSE
      OBVIOUS
    <3>1. PICK u \in Task \ {c} : /\ task'[c] = Watcher(task[u].sid) /\ task[u].sid \in Sid
                                  /\ Publishes(u, task[u].sid) \/ Installs(u, task[u].sid)
      BY DEF Born
    <3>2. task[u].sid = s
      BY <3>1, RestingFields
    <3>3. registry'[s] # None
      BY <3>1, <3>2, CalmTypes DEF Publishes, Installs, Published, Births
    <3> QED
      BY <1>2, <1>5, <3>3 DEF NothingYet, Same
  <2> QED
    BY <2>1, <2>2, WatcherMoves, RestingFields
<1> QED
  BY <1>1, <1>2, <1>5, <1>6 DEF NothingYet, Same, SameRow

LEMMA InsertedBegins ==
  ASSUME CalmStep, NEW o \in Op, task'[o].pc = "inserted"
  PROVE  (row[task[o].sid].state = "starting" /\ NothingYet(task[o].sid))'
<1>1. CASE task'[o] = task[o]
  BY <1>1, InsertedStaysAlone DEF At, NothingYet
<1>2. CASE task'[o] # task[o]
  <2>1. ~CloseDoes(o) /\ ~AttemptDoes(o)
    BY OpStays, RestingFields DEF SettledPcs, DoClosePcs, ReattachPcs
  <2>2. OpDoes(o)
    BY <1>2, <2>1, OpTurns
  <2>3. InsertsRow(o)
    <3>1. ~BeginsRetry(o)
      BY RestingFields DEF BeginsRetry, HasBegun, HasRaised, From
    <3> QED
      BY <2>2, <3>1, RestingFields DEF OpDoes, Arrives, LooksUp, Answers, RemovesRow,
         StartsOpening, AsksStop, SettlesStart, BeginsClosing, From
  <2>4. PICK s \in Sid : s = task'[o].sid
    BY <2>3 DEF InsertsRow, FreeSid
  <2>5. Inserts(o, s)
    BY <2>3, <2>4 DEF Inserts
  <2>6. /\ registry[s] = None /\ tunnels[s] = NoTunnel /\ \A t \in Task : task[t].sid # s
        /\ Others(o) /\ UNCHANGED <<tunnels, registry>> /\ row'[s].state = "starting"
    BY <2>5, CalmTypes, InsertsAreNew
  <2>7. \A c \in Conn : task'[c].sid # s
    BY <2>6, CalmTypes, ServiceAssumption DEF Others
  <2> QED
    BY <2>4, <2>6, <2>7 DEF NothingYet
<1> QED
  BY <1>1, <1>2

LEMMA OpeningAloneStep ==
  ASSUME CalmStep
  PROVE  OpeningIsAlone'
BY InsertedBegins, OpeningStep DEF OpeningIsAlone, Active, At

-----------------------------------------------------------------------------
(***************************************************************************)
(* ServedInv.                                                              *)
(***************************************************************************)
LEMMA ServedStep ==
  ASSUME LifecycleInv, SafetyInv, SlotInv, DrivenInv, ServedInv, [Next]_vars, ~GatewayCrashes,
         LifecycleInv', SafetyInv', SlotInv', DrivenInv',
         "late" \notin Faults, "early_loss" \notin Faults
  PROVE  ServedInv'
<1>1. CalmStep
  BY DEF CalmStep, AllInv
<1>2. AliasesAgree' /\ CancelledInTime' /\ CloseIsKnown' /\ RetryIsDue'
  BY <1>1, AliasStep, CancelStep, CloseKnownStep, RetryDueStep
<1>3. AttemptIsAlone' /\ OpeningIsAlone' /\ PortIsWatched' /\ WatchersAgree'
  BY <1>1, AttemptStep, OpeningAloneStep, PortStep, WatchersStep
<1>4. WatcherReadsRight' /\ ReadyIsMended' /\ RecoveryStartsClean' /\ ClaimsDiffer'
  BY <1>1, ReadsStep, MendStep, CleanStep, ClaimsStep
<1> QED
  BY <1>2, <1>3, <1>4 DEF ServedInv

\* Memory is empty: at first, and when the gateway starts again after a crash.
Empty ==
  /\ \A t \in Task : task[t].sid = None /\ task[t].c = None /\ task[t].kind \in {"none", "boot"}
                     /\ task[t].pc \in {"idle", "next_row"}
  /\ \A t \in Sid \cup Conn : task[t].pc = "idle"
  /\ cancelled = {} /\ tunnels = [s \in Sid |-> NoTunnel] /\ registry = [s \in Sid |-> None]
  /\ \A s \in Sid : row[s].state = "stopping" => row[s].close_reason
  /\ \A s \in Sid : Exists(s) => s \in unrecovered

LEMMA EmptyServed == LifecycleInv /\ Empty => ServedInv
<1> SUFFICES ASSUME LifecycleInv, Empty
             PROVE  ServedInv
  OBVIOUS
<1>1. /\ Op \subseteq Task /\ Closers \subseteq Task /\ Sid \subseteq Task /\ Conn \subseteq Task
      /\ Boot \in Task
  BY DEF Task, Closers
<1>2. \A t \in Task : task[t].pc \in {"idle", "next_row"} /\ task[t].sid = None /\ task[t].c = None
                      /\ task[t].kind \in {"none", "boot"}
  BY DEF Empty
<1>3. \A s \in Sid : tunnels[s] = NoTunnel /\ registry[s] = None /\ task[s].pc = "idle"
  BY DEF Empty
<1>4. \A c \in Conn : task[c].pc = "idle" /\ task[c].sid \notin Sid
  BY <1>1, <1>2, NoneAssumption DEF Empty
<1>5. cancelled = {}
  BY DEF Empty
<1>6. AliasesAgree /\ CancelledInTime
  BY <1>2, <1>5 DEF AliasesAgree, CancelledInTime, AtWork
<1>7. CloseIsKnown /\ RetryIsDue
  <2>1. \A o \in Op : task[o].pc \in {"idle", "next_row"} /\ task[o].kind \in {"none", "boot"}
    BY <1>1, <1>2
  <2> QED
    BY <2>1 DEF CloseIsKnown, RetryIsDue, SettledPcs, DoClosePcs, ReattachPcs, At, Empty
<1>8. AttemptIsAlone
  BY <1>2 DEF AttemptIsAlone, ReattachPcs
<1>9. OpeningIsAlone
  BY <1>1, <1>2, <1>3 DEF OpeningIsAlone, Active, At
<1>10. PortIsWatched
  BY <1>3 DEF PortIsWatched
<1>11. WatchersAgree
  BY <1>4 DEF WatchersAgree, Guards, Repairs
<1>12. WatcherReadsRight
  BY <1>4 DEF WatcherReadsRight, At
<1>13. ReadyIsMended
  BY DEF ReadyIsMended, Empty, Exists
<1>14. RecoveryStartsClean
  <2>1. unrecovered \subseteq Sid
    BY DEF LifecycleInv, TypeOK
  <2>2. task[Boot].sid = None /\ task[Boot].pc \in {"idle", "next_row"}
    BY <1>1, <1>2
  <2> QED
    BY <1>3, <1>4, <2>1, <2>2 DEF RecoveryStartsClean, ReattachPcs
<1>15. ClaimsDiffer
  BY <1>2, <1>3, <1>4 DEF ClaimsDiffer, At, NoTunnel
<1> QED
  BY <1>6, <1>7, <1>8, <1>9, <1>10, <1>11, <1>12, <1>13, <1>14, <1>15 DEF ServedInv

LEMMA EmptyInit ==
  ASSUME Init
  PROVE  Empty
<1>1. \A t \in Task : task[t] = IdleTask
  BY DEF Init
<1>2. Sid \subseteq Task /\ Conn \subseteq Task
  BY DEF Task
<1>3. \A s \in Sid : row[s].state = "closed"
  BY DEF Init, StoreInit, NoRow
<1> QED
  BY <1>1, <1>2, <1>3, RestingFields DEF Init, Empty, Exists

LEMMA EmptyCrash ==
  ASSUME LifecycleInv, CloseIsKnown, GatewayCrashes
  PROVE  Empty'
<1>1. \A t \in Task : task'[t] = IF t = Boot THEN [IdleTask EXCEPT !.pc = "next_row", !.kind = "boot"]
                                             ELSE IdleTask
  BY DEF GatewayCrashes
<1>2. \A t \in Task : /\ task'[t].sid = None /\ task'[t].c = None
                      /\ task'[t].kind \in {"none", "boot"} /\ task'[t].pc \in {"idle", "next_row"}
                      /\ t # Boot => task'[t].pc = "idle"
  BY <1>1, RestingFields DEF NextRowTask
<1>3. \A t \in Sid \cup Conn : t \in Task /\ t # Boot
  BY ServiceAssumption DEF Task
<1>4. row' = row /\ unrecovered' = {s \in Sid : Exists(s)}
  BY DEF GatewayCrashes
<1>5. cancelled' = {} /\ tunnels' = [s \in Sid |-> NoTunnel] /\ registry' = [s \in Sid |-> None]
  BY DEF GatewayCrashes
<1> QED
  BY <1>2, <1>3, <1>4, <1>5 DEF Empty, Exists, CloseIsKnown

\* Ports, tunnels, watchers and rows agree, unless a path is lost while an open verifies
\* or an attempt to reattach is timed out after its last step.
THEOREM ServedInvariant ==
  ASSUME "late" \notin Faults, "early_loss" \notin Faults
  PROVE  Spec => []ServedInv
<1>1. Init => Empty
  BY EmptyInit
<1>2. LifecycleInv /\ Empty => ServedInv
  BY EmptyServed
<1>3. LifecycleInv /\ ServedInv /\ GatewayCrashes => Empty'
  BY EmptyCrash DEF ServedInv
<1>4. LifecycleInv /\ LifecycleInv' /\ SafetyInv /\ SafetyInv' /\ SlotInv /\ SlotInv'
        /\ DrivenInv /\ DrivenInv' /\ ServedInv /\ [Next]_vars /\ ~GatewayCrashes => ServedInv'
  BY ServedStep
<1> QED
  BY <1>1, <1>2, <1>3, <1>4, LifecycleInvariant, SafetyInvariant, SlotInvariant, DrivenInvariant,
     PTL DEF Spec

\* The proxy knows no port whose forward was taken down, or is not watched.
THEOREM PublishedPortsAreOwned ==
  ASSUME "late" \notin Faults, "early_loss" \notin Faults
  PROVE  Spec => []PublishedIsOwned
<1>1. ServedInv => PublishedIsOwned
  BY DEF ServedInv, PortIsWatched, PublishedIsOwned, Guards, EarlyPcs, Active
<1> QED
  BY <1>1, ServedInvariant, PTL

\* An open, a retry or a watcher that is about to publish a port finds none published.
THEOREM PortsAreFree ==
  ASSUME "late" \notin Faults, "early_loss" \notin Faults
  PROVE  Spec => []PortIsFree
<1>1. LifecycleInv /\ ServedInv => PortIsFree
  <2> SUFFICES ASSUME LifecycleInv, ServedInv, NEW t \in Task, task[t].pc \in {"tunnel", "commit"}
               PROVE  registry[task[t].sid] = None
    BY DEF PortIsFree
  <2>1. CASE task[t].pc = "tunnel"
    <3>1. Suspended(task[t]) /\ KindOK(t, task[t].kind) /\ task[t].pc = "tunnel"
      BY <2>1 DEF LifecycleInv, TypeOK, TaskShape, ShapeOK
    <3>2. task[t].kind = "start"
      BY <3>1 DEF Suspended, ClosePcs, RetryPcs, WatchPcs, BootPcs, DoClosePcs, ReattachPcs
    <3>3. t \in Sid
      BY <3>1, <3>2 DEF KindOK
    <3> QED
      BY <2>1, <3>3 DEF ServedInv, OpeningIsAlone, Opening, NothingYet, Active, OpeningPcs
  <2>2. CASE task[t].pc = "commit"
    BY <2>2 DEF ServedInv, AttemptIsAlone, ReattachPcs, At
  <2> QED
    BY <2>1, <2>2
<1> QED
  BY <1>1, LifecycleInvariant, ServedInvariant, PTL

\* A session at rest is ready exactly when its forward is up, published and watched.
THEOREM ReadySessionsAreServed ==
  ASSUME "late" \notin Faults, "early_loss" \notin Faults
  PROVE  Spec => []ReadyIffServed
<1>1. LifecycleInv /\ ServedInv => ReadyIffServed
  <2> SUFFICES ASSUME LifecycleInv, ServedInv, NEW s \in Sid, Quiet(s)
               PROVE  row[s].state = "ready" <=> Served(s)
    BY DEF ReadyIffServed
  <2>1. \A t \in Task : t # s /\ Active(t) /\ task[t].sid = s => At(t, "watching")
    BY DEF Quiet, Working
  <2>2. Op \subseteq Task /\ Conn \subseteq Task /\ Closers \subseteq Task
        /\ s \notin Op /\ s \notin Conn /\ s \notin Closers
    BY ServiceAssumption DEF Task, Closers
  <2>3. ASSUME row[s].state = "ready", registry[s] = None
        PROVE  FALSE
    <3>1. ~\E c \in Conn : Repairs(c, s)
      BY <2>1, <2>2 DEF Repairs, LostPcs, ReattachPcs, Active, At
    <3>2. ~\E t \in Closers : At(t, "commit") /\ task[t].sid = s
      BY <2>1, <2>2 DEF Active, At
    <3> QED
      BY <2>3, <3>1, <3>2 DEF ServedInv, ReadyIsMended, Quiet
  <2>4. registry[s] # None => Served(s)
    BY DEF ServedInv, PortIsWatched, Served, Guards, EarlyPcs, Active
  <2>5. ASSUME registry[s] # None
        PROVE  row[s].state = "ready"
    <3>1. Active(s) \/ row[s].state = "ready" \/ StopAsked(s)
      BY <2>5 DEF ServedInv, PortIsWatched
    <3>2. ~StopAsked(s)
      BY <2>1, <2>2 DEF StopAsked, Active, At
    <3> QED
      BY <3>1, <3>2 DEF Quiet
  <2> QED
    BY <2>3, <2>4, <2>5 DEF Served
<1> QED
  BY <1>1, LifecycleInvariant, ServedInvariant, PTL

-----------------------------------------------------------------------------
(***************************************************************************)
(* Connections: OwnInv, and ConnectionsStayOwned.                          *)
(***************************************************************************)
\* A connection is opened by a task that keeps it, and has no watcher.
OpenedBy(c) == ~Active(c) /\ \E t \in Task : task'[t].c = c

LEMMA OpensConn ==
  ASSUME CalmStep, NEW c \in Conn, ~conn[c], conn'[c]
  PROVE  OpenedBy(c)
<1>1. conn \in [Conn -> BOOLEAN] /\ Op \subseteq Task /\ Sid \subseteq Task /\ Conn \subseteq Task
      /\ Boot \in Task /\ task \in [Task -> TaskRecord] /\ Closers \subseteq Task
  BY CalmFacts, CalmTypes DEF MoveInv, TypeOK
<1>2. conn' # conn /\ \A x : ~Closed(x)
  BY <1>1 DEF Closed
<1>3. ASSUME NEW t \in Task, NEW x \in Conn, NEW p, Connects(x), Opened(x),
             Become(t, [task[t] EXCEPT !.pc = p, !.c = x])
      PROVE  OpenedBy(c)
  <2>1. task'[t].c = x
    BY <1>1, <1>3 DEF Become, TaskRecord
  <2>2. x = c
    BY <1>1, <1>3 DEF Opened
  <2> QED
    BY <1>3, <2>1, <2>2, ConnectsNew DEF OpenedBy
<1>4. ASSUME NEW o \in Op, OpenStep(o) \/ CloseStep(o) \/ RetryStep(o)
                           \/ \E kind \in Requests, a \in Alias : Request(o, kind, a)
      PROVE  FALSE
  BY <1>2, <1>4 DEF OpenStep, CloseStep, RetryStep, Request, Enter, OpenChecks, OpenStarts,
     CloseRecordsIntent, CloseCancelsStart, CloseStarts, RetryBegins, RetryProceeds, RetryReopens, world
<1>5. ASSUME NEW t \in Closers, DoCloseStep(t)
      PROVE  OpenedBy(c)
  <2>1. CASE DoCloseDials(t)
    BY <1>1, <1>2, <1>3, <2>1 DEF DoCloseDials
  <2> QED
    BY <1>2, <1>5, <2>1 DEF DoCloseStep, DoCloseReads, DoCloseTakesTunnel, DoCloseStopsListener,
       DoCloseStopsRemote, DoCloseClosesConn, DoCloseForgets, DoCloseFinishes, DoCloseReleases, world
<1>6. ASSUME NEW t \in Task, ReattachStep(t)
      PROVE  OpenedBy(c)
  <2>1. CASE Reconnects(t)
    BY <1>1, <1>2, <1>3, <2>1 DEF Reconnects
  <2> QED
    BY <1>2, <1>6, <2>1 DEF ReattachStep, DropsConn, Interrupted, Inspects, RemovesAbsent,
       ReattachVerifies, ReattachInstalls, ReattachReads, BackoffEnds, world
<1>7. ASSUME NEW s \in Sid, StartStep(s)
      PROVE  OpenedBy(c)
  <2>1. CASE StartConnects(s)
    BY <1>1, <1>2, <1>3, <2>1 DEF StartConnects
  <2>2. CASE StartCancelled(s) \/ StartFails(s) \/ StartInstalls(s) \/ StartLaunches(s)
             \/ StartForwards(s) \/ StartForwarded(s) \/ StartPublishes(s) \/ CleanupCancelled(s)
             \/ CleanupConn(s)
    BY <1>2, <2>2 DEF StartCancelled, StartFails, StartInstalls, StartLaunches, StartForwards,
       StartForwarded, StartPublishes, CleanupCancelled, CleanupConn, world
  <2>3. CASE StartVerifies(s) \/ StartDone(s) \/ StartUnhandled(s) \/ CleanupDecides(s)
             \/ CleanupWatcherEnded(s) \/ CleanupListener(s) \/ CleanupRemote(s) \/ CleanupMarks(s)
    BY <1>2, <2>3 DEF StartVerifies, StartDone, StartUnhandled, CleanupDecides, CleanupWatcherEnded,
       CleanupListener, CleanupRemote, CleanupMarks, world
  <2> QED
    BY <1>7, <2>1, <2>2, <2>3 DEF StartStep
<1>8. ASSUME NEW d \in Conn, WatchStep(d)
      PROVE  FALSE
  BY <1>2, <1>8 DEF WatchStep, WatcherWakes, WatcherQueues, WatcherReads, WatcherExits, WatcherDrops,
     WatcherAttempts, WatcherLate, WatcherMarksLoss, WatcherCancelled, world
<1>9. ASSUME RecoveryStep(Boot)
       PROVE  OpenedBy(c)
  <2>1. CASE RecoveryDials(Boot)
    BY <1>1, <1>2, <1>3, <2>1 DEF RecoveryDials
  <2> QED
    BY <1>2, <1>9, <2>1 DEF RecoveryStep, RecoverRow, RecoveryReattaches, RecoveryEnds, RecoveryChecked,
       RecoveryInspects, RecoveryDrops, RecoveryReleases, RecoveryClearsLost, RecoveryMarks, world
<1>10. ASSUME NEW s \in Sid, HelperStep(s) \/ ProcessDies(s) \/ PidReused(s)
       PROVE  FALSE
  BY <1>2, <1>10 DEF HelperStep, HelperRecords, HelperFails, ProcessDies, PidReused, OnlyRemote
<1>11. ASSUME NEW d \in Conn, ConnectionLost(d)
       PROVE  FALSE
  BY <1>2, <1>11 DEF ConnectionLost
<1>12. ~Quiescent /\ ~UNCHANGED vars
  BY <1>2 DEF Quiescent, vars, world
<1> QED
  BY <1>1, <1>2, <1>4, <1>5, <1>6, <1>7, <1>8, <1>9, <1>10, <1>11, <1>12, CalmFacts, CalmTypes
     DEF Next, OpStep, WatcherStep, BootStep, Environment

\* A request that is not in _do_close or an attempt has no connection.
LEMMA OpHasNone ==
  ASSUME CalmStep, ClaimsAreUsed, NEW o \in Op, OpDoes(o)
  PROVE  task[o].c = None /\ task'[o].c = None
<1>1. o \in Task /\ task'[o].c \in {task[o].c, None}
  BY CalmTypes, OpClaims
<1>2. task[o].pc \notin UsePcs
  <2>1. CASE \E r : HasBegun(o, r) /\ At(o, "looked_up")
    BY <2>1 DEF At, UsePcs, OpeningPcs, ReattachPcs
  <2> QED
    BY <2>1 DEF OpDoes, Arrives, LooksUp, Answers, InsertsRow, RemovesRow, AsksStop, StartsOpening,
       SettlesStart, BeginsClosing, BeginsRetry, At, UsePcs, OpeningPcs, ReattachPcs
<1> QED
  BY <1>1, <1>2 DEF ClaimsAreUsed

\* _do_close has a connection from the tunnel it takes, or dials, to its close.
LEMMA CloserUses ==
  ASSUME CalmStep, ClaimsAreUsed, NEW t \in Closers, CloseDoes(t), task'[t].c # None
  PROVE  task'[t].pc \in UsePcs
<1>1. t \in Task /\ (task[t].c # None => task[t].pc \in UsePcs)
  BY CalmTypes DEF ClaimsAreUsed
<1>2. HasReturned(t) => ~(At(t, "fresh") \/ At(t, "finish") \/ At(t, "deleted"))
  <2>1. CASE HasReturned(t) /\ (At(t, "fresh") \/ At(t, "finish") \/ At(t, "deleted"))
    <3>1. task[t].c = None
      BY <1>1, <2>1 DEF At, UsePcs, OpeningPcs, ReattachPcs
    <3> QED
      BY <2>1, <3>1, RestingFields DEF HasReturned, From
  <2> QED
    BY <2>1
<1>3. CASE CloseGoesOn(t)
  <2>1. task[t].c # None /\ task[t].pc \in {"take_over", "stop"}
    BY <1>1, <1>3 DEF CloseGoesOn, At, UsePcs, OpeningPcs, ReattachPcs
  <2> QED
    BY <1>3, <2>1 DEF CloseGoesOn, From, At, UsePcs
<1>4. CASE At(t, "finish") /\ From(t, task[t], "deleted") /\ task'[t].c = task[t].c
  BY <1>1, <1>4 DEF At, UsePcs, OpeningPcs, ReattachPcs
<1> QED
  BY <1>2, <1>3, <1>4 DEF CloseDoes, From, UsePcs

\* A new attempt has no connection yet.
LEMMA BegunHasNone ==
  ASSUME NEW t, NEW r, HasBegun(t, r), r.c = None
  PROVE  task'[t].c = None
BY DEF HasBegun, HasRaised

\* An attempt to reattach has the connection it opens until it is installed or dropped.
LEMMA AttemptUses ==
  ASSUME CalmStep, ClaimsAreUsed, NEW t \in Closers \cup Conn, AttemptDoes(t), task'[t].c # None
  PROVE  task'[t].pc \in UsePcs
<1>1. t \in Task /\ (task[t].c # None => task[t].pc \in UsePcs)
  BY CalmTypes DEF ClaimsAreUsed
<1>2. CASE AttemptOn(t)
  BY <1>2 DEF AttemptOn, From, UsePcs, ReattachPcs
<1>3. CASE At(t, "backoff")
  <2>1. task[t].c = None
    BY <1>1, <1>3 DEF At, UsePcs, OpeningPcs, ReattachPcs
  <2>2. task[t].pc \notin ReattachPcs /\ task[t].pc = "backoff"
    BY <1>3 DEF At, ReattachPcs
  <2>3. ~AttemptOn(t)
    BY <2>2 DEF AttemptOn, At
  <2> QED
    BY <1>3, <2>1, <2>2, <2>3, BegunHasNone DEF AttemptDoes, At
<1>4. CASE ~At(t, "backoff") /\ ~AttemptOn(t)
  BY <1>4, RestingFields DEF AttemptDoes, HasRaised, From, UsePcs, ReattachPcs
<1> QED
  BY <1>2, <1>3, <1>4

\* A start task has its connection until it ends, or has closed it.
LEMMA StartUses ==
  ASSUME CalmStep, ClaimsAreUsed, NEW s \in Sid, StartDoes(s), task'[s].c # None
  PROVE  task'[s].pc \in UsePcs
<1>1. s \in Task /\ (task[s].c # None => task[s].pc \in UsePcs)
  BY CalmTypes DEF ClaimsAreUsed
<1>2. CASE HasDropped(s)
  BY <1>2 DEF HasDropped, From, UsePcs
<1>3. CASE OpeningDoes(s)
  BY <1>3 DEF OpeningDoes, OpensOn, StartGoesOn, From, UsePcs, OpeningPcs
<1>4. CASE OpeningEnds(s)
  <2>1. CASE At(s, "connect") /\ From(s, task[s], "unhandled") /\ StartGoesOn(s)
    BY <1>1, <2>1 DEF StartGoesOn, At, UsePcs, OpeningPcs, ReattachPcs
  <2> QED
    BY <1>2, <1>4, <2>1, RestingFields DEF OpeningEnds, From, UsePcs
<1>5. CASE CleanupDoes(s)
  BY <1>2, <1>5, RestingFields DEF CleanupDoes, StartGoesOn, From, UsePcs
<1> QED
  BY <1>3, <1>4, <1>5 DEF StartDoes

\* A watcher has its own connection while it closes it.
LEMMA WatcherUses ==
  ASSUME CalmStep, ClaimsAreUsed, NEW c \in Conn, WatchDoes(c), task'[c].c # None
  PROVE  task'[c].pc \in UsePcs
<1>1. c \in Task /\ (task[c].c # None => task[c].pc \in UsePcs)
  BY CalmTypes DEF ClaimsAreUsed
<1>2. CASE WatcherGoesOn(c)
  BY <1>1, <1>2 DEF WatcherGoesOn, At, UsePcs, OpeningPcs, ReattachPcs
<1>3. CASE WatcherMends(c)
  <2>1. At(c, "attempt_checks") => task[c].c = None
    BY <1>1 DEF At, UsePcs, OpeningPcs, ReattachPcs
  <2>2. HasRaised(c, task[c]) => task'[c].c = None
    BY DEF HasRaised
  <2> QED
    BY <1>3, <2>1, <2>2, BegunHasNone DEF WatcherMends, From, UsePcs
<1> QED
  BY <1>2, <1>3, RestingFields DEF WatchDoes, WatcherDies, WatcherLeaves

\* Recovery has one while it inspects a host, in _do_close and in an attempt.
LEMMA RecoveryUses ==
  ASSUME CalmStep, ClaimsAreUsed, RecoveryDoes, task'[Boot].c # None
  PROVE  task'[Boot].pc \in UsePcs
<1>1. Boot \in Task /\ (task[Boot].c # None => task[Boot].pc \in UsePcs)
  BY CalmTypes DEF ClaimsAreUsed
<1>2. ~RecoveryTurns
  BY <1>1 DEF RecoveryTurns, At, UsePcs, OpeningPcs, ReattachPcs
<1>3. ~HasBegun(Boot, task[Boot]) \/ ~At(Boot, "reattach")
  <2>1. At(Boot, "reattach") => task[Boot].c = None
    BY <1>1 DEF At, UsePcs, OpeningPcs, ReattachPcs
  <2> QED
    BY <2>1, BegunHasNone
<1>4. ~RecoveryLeaves
  BY RestingFields DEF RecoveryLeaves
<1>5. CASE RecoveryWorks
  <2>1. task[Boot].pc \in {"drop", "clear_lost"} => task[Boot].c = None
    BY <1>1 DEF UsePcs, OpeningPcs, ReattachPcs
  <2> QED
    BY <1>5, <2>1 DEF RecoveryWorks, From, At, UsePcs
<1> QED
  BY <1>2, <1>3, <1>4, <1>5, RestingFields DEF RecoveryDoes

LEMMA ClaimsUsedStep ==
  ASSUME CalmStep, ClaimsAreUsed
  PROVE  ClaimsAreUsed'
<1>1. ASSUME NEW t \in Task, task'[t].c # None
      PROVE  task'[t].pc \in UsePcs
  <2>1. CASE task'[t] = task[t]
    BY <1>1, <2>1 DEF ClaimsAreUsed
  <2>2. ~Born(t)
    BY <1>1, RestingFields DEF Born
  <2>3. ~Started(t)
    BY <1>1 DEF Started, StartsOpening
  <2>4. CASE Acts(t)
    BY <1>1, <2>4, OpHasNone, CloserUses, AttemptUses, StartUses, WatcherUses, RecoveryUses DEF Acts
  <2> QED
    BY <2>1, <2>2, <2>3, <2>4, TaskMoves
<1> QED
  BY <1>1 DEF ClaimsAreUsed, UsePcs, OpeningPcs, ReattachPcs

LEMMA LostPathStep ==
  ASSUME CalmStep, LostPathIsDown
  PROVE  LostPathIsDown'
<1> DEFINE LostPathPcs == {"initial", "exit", "exit_checks", "close_lost"}
<1>1. ASSUME NEW c \in Conn, task'[c].pc \in LostPathPcs
      PROVE  ~conn'[c]
  <2>1. c \in Task /\ c \notin Op /\ c \notin Closers /\ c \notin Sid /\ c # Boot
        /\ conn' \in [Conn -> BOOLEAN]
    BY CalmFacts, CalmTypes DEF MoveInv, TypeOK
  <2>2. ASSUME ~conn[c], Active(c)
        PROVE  ~conn'[c]
    BY <2>2, OpensConn DEF OpenedBy
  <2>3. CASE task'[c] = task[c]
    BY <1>1, <2>2, <2>3 DEF LostPathIsDown, Active
  <2>4. ~Born(c) /\ ~Started(c)
    BY <1>1, <2>1, RestingFields DEF Born, Started
  <2>5. ~AttemptDoes(c)
    BY <1>1, RestingFields
       DEF AttemptDoes, AttemptOn, HasRaised, HasBegun, From
  <2>6. CASE WatchDoes(c)
    <3>1. WatcherGoesOn(c) \/ WatcherMends(c)
      BY <1>1, <2>6, RestingFields DEF WatchDoes, WatcherDies, WatcherLeaves
    <3>2. Active(c)
      BY <3>1 DEF WatcherGoesOn, WatcherMends, At, Active
    <3>3. ~conn[c]
      <4>1. CASE WatcherGoesOn(c)
        BY <1>1, <4>1 DEF WatcherGoesOn, At, LostPathIsDown
      <4>2. CASE WatcherMends(c)
        BY <1>1, <4>2, RestingFields DEF WatcherMends, HasRaised, HasBegun, From, At, LostPathIsDown
      <4> QED
        BY <3>1, <4>1, <4>2
    <3> QED
      BY <2>2, <3>2, <3>3
  <2> QED
    BY <2>1, <2>3, <2>4, <2>5, <2>6, TaskMoves DEF Acts
<1> QED
  BY <1>1 DEF LostPathIsDown

\* A start task that cleans up has taken the tunnel down, and no one installs another.
LEMMA CleanupTunnelStep ==
  ASSUME CalmStep, TunnelIsDown, NEW s \in Sid,
         task'[s].pc \in {"watcher", "listener", "undo_remote", "undo_conn"}
  PROVE  tunnels'[s].c = None
<1>1. s \in Task /\ tunnels \in [Sid -> Tunnel]
  BY CalmTypes
<1>2. CASE StartDoes(s)
  <2>1. Keep(s, NoTunnel) => tunnels'[s].c = None
    BY <1>1 DEF Keep, NoTunnel
  <2>2. HasDropped(s) => tunnels'[s].c = None
    BY <2>1 DEF HasDropped
  <2>3. ~OpeningDoes(s)
    BY DEF OpeningDoes, OpensOn, From
  <2>4. OpeningEnds(s) => HasDropped(s)
    BY RestingFields DEF OpeningEnds, From
  <2>5. CASE CleanupDoes(s)
    BY <2>2, <2>5, RestingFields DEF CleanupDoes, StartGoesOn, From, At, TunnelIsDown
  <2> QED
    BY <1>2, <2>2, <2>3, <2>4, <2>5 DEF StartDoes
<1>3. CASE task'[s] = task[s] /\ ~StartDoes(s)
  <2>1. Active(s) /\ tunnels[s].c = None
    BY <1>3 DEF Active, TunnelIsDown
  <2>2. Same(s) \/ \E o \in Op : CloseBegins(o, s)
    BY <1>3, <2>1, OpeningTurns DEF StartActs
  <2> QED
    BY <2>1, <2>2 DEF Same, CloseBegins, AsksStop, SettlesStart
<1>4. ~Started(s)
  BY DEF Started, StartsOpening
<1> QED
  BY <1>2, <1>3, <1>4, StartMoves

\* Recovery stays with a row it has not handled, and inspects a host before it acts.
LEMMA BootStays ==
  ASSUME CalmStep, NEW s \in unrecovered, s \in unrecovered', task[Boot].sid = s
  PROVE  /\ task'[Boot].sid = s
         /\ task'[Boot].pc \in InspectPcs =>
              task[Boot].pc \in InspectPcs /\ (task'[Boot] = task[Boot] \/ tunnels' = tunnels)
<1>1. s \in Sid /\ s # None
  BY CalmFacts, CalmTypes DEF MoveInv, TypeOK
<1>2. Active(Boot)
  BY <1>1, RecoveryWorksAlone
<1>3. task[Boot].pc # "next_row" /\ task[Boot].kind = "boot"
  BY <1>1, <1>2, CalmFacts, BootFacts DEF Active
<1>4. s \notin unrecovered \ {s}
  OBVIOUS
<1>5. CASE CloseDoes(Boot)
  BY <1>3, <1>4, <1>5 DEF CloseDoes, HasReturned, CloseGoesOn, From, InspectPcs
<1>6. CASE AttemptDoes(Boot)
  BY <1>3, <1>4, <1>6 DEF AttemptDoes, AttemptOn, HasRaised, From, InspectPcs
<1>7. CASE RecoveryDoes
  BY <1>3, <1>4, <1>7 DEF RecoveryDoes, RecoveryTurns, RecoveryWorks, RecoveryLeaves, HasRaised, HasBegun,
     From, At, InspectPcs
<1> QED
  BY <1>5, <1>6, <1>7, BootTurns

\* No other task touches a row recovery has still to handle.
LEMMA ListedTunnelStep ==
  ASSUME CalmStep, TunnelIsDown, NEW s \in unrecovered',
         task'[Boot].sid # s \/ task'[Boot].pc \in InspectPcs
  PROVE  tunnels'[s].c = None
<1>1. s \in unrecovered /\ s \in Sid /\ Boot \notin Sid /\ Boot \notin Conn /\ Boot \notin Op
  BY RecoveryLists, CalmFacts, CalmTypes DEF MoveInv, TypeOK
<1>2. task[Boot].sid # s \/ (task[Boot].pc \in InspectPcs
                             /\ (task'[Boot] = task[Boot] \/ tunnels' = tunnels))
  BY <1>1, BootStays
<1>3. tunnels[s].c = None
  BY <1>1, <1>2 DEF TunnelIsDown
<1>4. ASSUME NEW u \in Task, Works(u, s), tunnels'[s] # tunnels[s]
      PROVE  u = Boot /\ task[Boot].pc \in InspectPcs /\ task'[Boot] = task[Boot]
  <2>1. u = Boot
    BY <1>1, <1>2, <1>4, RecoveryWorksAlone DEF At, InspectPcs
  <2>2. task[Boot].sid = s
    BY <1>1, <1>4, <2>1 DEF Works
  <2> QED
    BY <1>2, <1>4, <2>1, <2>2
<1>5. ASSUME NEW u \in Task, Works(u, s), tunnels'[s] # tunnels[s],
             \/ Empties(u, s) \/ Retains(u, s) \/ Publishes(u, s)
             \/ Installs(u, s) \/ Drops(u, s) \/ TakesDown(u, s)
      PROVE  FALSE
  <2>1. u = Boot /\ task[u].pc \in InspectPcs /\ task'[u] = task[u] /\ u # s /\ u \notin Conn
    BY <1>1, <1>4, <1>5
  <2> QED
    BY <1>5, <2>1 DEF Empties, Retains, Publishes, Installs, Drops, TakesDown, At, InspectPcs
<1> QED
  BY <1>1, <1>3, <1>5, TunnelTurns

LEMMA TunnelDownStep ==
  ASSUME CalmStep, TunnelIsDown
  PROVE  TunnelIsDown'
BY CleanupTunnelStep, ListedTunnelStep DEF TunnelIsDown, InspectPcs

LEMMA OwnStep ==
  ASSUME CalmStep, OwnInv
  PROVE  OwnInv'
BY ClaimsUsedStep, LostPathStep, TunnelDownStep DEF OwnInv

\* Whoever lets go of an open connection hands it to a tunnel, is cancelled in its
\* cleanup or gives it up in a force close, when it does not close.
Passes(c) == Held(c)' \/ CutShort(c) \/ ("close" \in Faults /\ Forsaken(c))

LEMMA PassedOn ==
  ASSUME CalmStep, NEW t \in Task, NEW s \in Sid, NEW x
  PROVE  /\ task'[t].c = task[t].c => Passes(task[t].c)
         /\ Keep(s, x) => Passes(x.c)
         /\ tunnels' = tunnels => Passes(tunnels[s].c)
BY CalmTypes DEF Passes, Held, Keep

LEMMA CloserPasses ==
  ASSUME CalmStep, OwnInv, NEW t \in Closers, CloseDoes(t), NEW c \in Conn, task[t].c = c, conn'[c]
  PROVE  Passes(c)
<1>1. t \in Task /\ c # None /\ task[t].pc \in UsePcs /\ task[t].sid \in Sid
  <2>1. t \in Task /\ c # None /\ task[t].pc \in UsePcs
    BY CalmTypes DEF OwnInv, ClaimsAreUsed
  <2> QED
    BY <2>1, CalmFacts, TaskFacts DEF UsePcs, OpeningPcs, ReattachPcs
<1>2. ~Closed(c)
  BY CalmFacts DEF Closed, MoveInv, TypeOK
<1>3. CASE CloseGoesOn(t)
  BY <1>1, <1>3, PassedOn DEF CloseGoesOn
<1>4. CASE At(t, "close_conn") /\ task[t].kind = "force" /\ "close" \in Faults
  <2>1. t \in Op
    BY <1>1, <1>4, CalmFacts, PcKinds DEF Closers, Active, At
  <2> QED
    BY <1>4, <2>1 DEF Passes, Forsaken
<1>5. CASE Keep(task[t].sid, [NoTunnel EXCEPT !.c = task[t].c])
  <2>1. [NoTunnel EXCEPT !.c = task[t].c].c = c
    BY DEF NoTunnel
  <2> HIDE DEF NoTunnel
  <2> QED
    BY <1>1, <1>5, <2>1, PassedOn
<1> QED
  BY <1>1, <1>2, <1>3, <1>4, <1>5 DEF CloseDoes, At, UsePcs, OpeningPcs, ReattachPcs

LEMMA AttemptPasses ==
  ASSUME CalmStep, OwnInv, NEW t \in Closers \cup Conn, AttemptDoes(t), NEW c \in Conn,
         task[t].c = c, conn'[c]
  PROVE  Passes(c)
<1>1. t \in Task /\ c # None /\ task[t].pc \in UsePcs /\ task[t].sid \in Sid
      /\ task[t].old \in Tunnel
  <2>1. t \in Task /\ c # None /\ task[t].pc \in UsePcs
    BY CalmTypes DEF OwnInv, ClaimsAreUsed
  <2> QED
    BY <2>1, CalmFacts, TaskFacts DEF UsePcs, OpeningPcs, ReattachPcs
<1>2. ~Closed(c)
  BY CalmFacts DEF Closed, MoveInv, TypeOK
<1>3. CASE AttemptOn(t)
  BY <1>1, <1>3, PassedOn DEF AttemptOn
<1>4. CASE Keep(task[t].sid, LiveTunnel(task[t].c))
  <2>1. LiveTunnel(c).c = c
    BY DEF LiveTunnel
  <2> QED
    BY <1>1, <1>4, <2>1, PassedOn
<1>5. CASE Keep(task[t].sid, [task[t].old EXCEPT !.c = task[t].c])
  <2>1. [task[t].old EXCEPT !.c = task[t].c].c = c
    BY <1>1 DEF Tunnel
  <2> QED
    BY <1>1, <1>5, <2>1, PassedOn
<1> QED
  BY <1>1, <1>2, <1>3, <1>4, <1>5
     DEF AttemptDoes, At, UsePcs, OpeningPcs, ReattachPcs

LEMMA StartPasses ==
  ASSUME CalmStep, OwnInv, NEW s \in Sid, Active(s), StartDoes(s), NEW c \in Conn, task[s].c = c,
         conn'[c]
  PROVE  Passes(c)
<1>1. s \in Task /\ c # None /\ task[s].pc \in UsePcs /\ task[s].old \in Tunnel
  BY CalmFacts, CalmTypes, TaskFacts DEF OwnInv, ClaimsAreUsed
<1>2. ~Closed(c)
  BY CalmFacts DEF Closed, MoveInv, TypeOK
<1>3. task'[s].c = task[s].c => Passes(c)
  BY <1>1, PassedOn
<1>4. ASSUME task[s].pc \in OpenedPcs, tunnels' = tunnels
      PROVE  Passes(c)
  <2>1. Opening(s)
    BY CalmFacts DEF OpeningIsAlone
  <2>2. tunnels[s].c = c
    BY <1>4, <2>1 DEF Opening, LiveTunnel
  <2> QED
    BY <1>1, <1>4, <2>2, PassedOn
<1>5. CASE OpeningDoes(s)
  BY <1>1, <1>3, <1>5
     DEF OpeningDoes, OpensOn, StartGoesOn, At, UsePcs, OpeningPcs, ReattachPcs
<1>6. CASE OpeningEnds(s)
  BY <1>3, <1>4, <1>6 DEF OpeningEnds, StartGoesOn, HasDropped, At, OpenedPcs
<1>7. CASE CleanupDoes(s)
  <2>1. CASE HasDropped(s) \/ StartGoesOn(s)
    BY <1>3, <2>1 DEF HasDropped, StartGoesOn
  <2>2. CASE task[s].pc = "ready_read" /\ tunnels' = tunnels
    BY <1>4, <2>2 DEF OpenedPcs
  <2>3. CASE task[s].pc \in {"listener", "undo_remote", "undo_conn"} /\ s \in cancelled
    BY <2>3 DEF Passes, CutShort
  <2>4. CASE Keep(s, [task[s].old EXCEPT !.c = task[s].c, !.watched = FALSE])
    <3>1. [task[s].old EXCEPT !.c = task[s].c, !.watched = FALSE].c = c
      BY <1>1 DEF Tunnel
    <3> QED
      BY <1>1, <2>4, <3>1, PassedOn
  <2>5. task[s].pc \notin {"unhandled", "mark"}
    BY <1>1 DEF UsePcs, OpeningPcs, ReattachPcs
  <2> QED
    BY <1>2, <1>7, <2>1, <2>2, <2>3, <2>4, <2>5 DEF CleanupDoes, At
<1> QED
  BY <1>5, <1>6, <1>7 DEF StartDoes

\* A watcher that acts and has a connection has one that is down.
LEMMA WatcherPasses ==
  ASSUME CalmStep, OwnInv, NEW d \in Conn, WatchDoes(d), NEW c \in Conn, task[d].c = c, conn[c]
  PROVE  FALSE
<1>1. d \in Task /\ c # None /\ task[d].pc \in UsePcs
  BY CalmTypes DEF OwnInv, ClaimsAreUsed
<1>2. task[d].pc \in WatchPcs
  BY <1>1, CalmFacts, PcKinds DEF Active, UsePcs, OpeningPcs, ReattachPcs
<1>3. ~At(d, "close_lost")
  BY <1>1, CalmFacts DEF ClaimsDiffer, OwnInv, LostPathIsDown, At
<1>4. task[d].pc \in ReattachPcs
  BY <1>1, <1>2, <1>3 DEF UsePcs, WatchPcs, OpeningPcs, At
<1> QED
  BY <1>3, <1>4 DEF WatchDoes, WatcherDies, WatcherGoesOn, WatcherLeaves, WatcherMends, At, ReattachPcs

LEMMA RecoveryPasses ==
  ASSUME CalmStep, OwnInv, RecoveryDoes, NEW c \in Conn, task[Boot].c = c, conn'[c]
  PROVE  Passes(c)
<1>1. Boot \in Task /\ c # None /\ task[Boot].pc \in UsePcs /\ task[Boot].sid \in Sid
  <2>1. Boot \in Task /\ c # None /\ task[Boot].pc \in UsePcs
    BY CalmTypes DEF OwnInv, ClaimsAreUsed
  <2> QED
    BY <2>1, CalmFacts, TaskFacts DEF UsePcs, OpeningPcs, ReattachPcs
<1>2. ~Closed(c)
  BY CalmFacts DEF Closed, MoveInv, TypeOK
<1>3. CASE task'[Boot].c = task[Boot].c
  BY <1>1, <1>3, PassedOn
<1>4. CASE Keep(task[Boot].sid, [NoTunnel EXCEPT !.c = task[Boot].c])
  <2>1. [NoTunnel EXCEPT !.c = task[Boot].c].c = c
    BY DEF NoTunnel
  <2> QED
    BY <1>1, <1>4, <2>1, PassedOn
<1> QED
  BY <1>1, <1>2, <1>3, <1>4
     DEF RecoveryDoes, RecoveryTurns, RecoveryWorks, RecoveryLeaves, At, UsePcs, OpeningPcs, ReattachPcs

LEMMA TaskPasses ==
  ASSUME CalmStep, OwnInv, NEW t \in Task, NEW c \in Conn, task[t].c = c, conn[c], conn'[c]
  PROVE  Passes(c)
<1>1. c # None /\ task[t].pc \in UsePcs
  BY CalmTypes DEF OwnInv, ClaimsAreUsed
<1>2. task[t].pc # "idle"
  BY <1>1 DEF UsePcs, OpeningPcs, ReattachPcs
<1>3. CASE task'[t] = task[t]
  BY <1>3 DEF Passes, Held
<1>4. ~Born(t) /\ ~Started(t)
  BY <1>2, StartedAlone DEF Born, Started, At, Active
<1>5. CASE Acts(t)
  BY <1>1, <1>5, OpHasNone, CloserPasses, AttemptPasses, StartPasses, WatcherPasses, RecoveryPasses
     DEF Acts, OwnInv
<1> QED
  BY <1>3, <1>4, <1>5, TaskMoves

\* A tunnel is left only for its connection to be closed, or to keep another one.
LEMMA RetainedIsSafe ==
  ASSUME CalmStep, OwnInv, NEW s \in Sid, NEW u \in Task, Works(u, s), Retains(u, s),
         NEW c \in Conn, tunnels[s].c = c
  PROVE  "close" \in Faults /\ Displaced(c)
<1>1. c # None /\ task[u].pc \in KeepPcs /\ Suspended(task[u]) /\ KindOK(u, task[u].kind)
  BY CalmFacts, CalmTypes, TaskFacts DEF Retains
<1>2. task[u].sid = s
  <2>1. u = s /\ Active(s) => task[s].sid = s
    BY CalmFacts DEF OpeningIsAlone, Opening
  <2> QED
    BY <2>1 DEF Works
<1>3. task[u].pc # "drop_conn"
  BY <1>1, <1>2, CalmFacts DEF AttemptIsAlone, ReattachPcs, At
<1>4. task[u].pc # "undo_conn"
  <2>1. ASSUME task[u].pc = "undo_conn"
        PROVE  u \in Sid
    <3>1. task[u].kind = "start"
      BY <1>1, <2>1 DEF Suspended, ClosePcs, RetryPcs, WatchPcs, BootPcs, DoClosePcs, ReattachPcs
    <3> QED
      BY <1>1, <3>1 DEF KindOK
  <2> QED
    BY <1>1, <2>1, StartWorks DEF OwnInv, TunnelIsDown
<1>5. task[u].pc # "check_done"
  <2>1. ASSUME task[u].pc = "check_done"
        PROVE  u = Boot
    <3>1. task[u].kind = "boot"
      BY <1>1, <2>1 DEF Suspended, ClosePcs, RetryPcs, WatchPcs, StartPcs, DoClosePcs, ReattachPcs
    <3> QED
      BY <1>1, <3>1 DEF KindOK
  <2>2. task[u].pc = "check_done" => s \in unrecovered
    BY <1>2, <2>1, BootWorks
  <2> QED
    BY <1>1, <2>1, <2>2 DEF OwnInv, TunnelIsDown, InspectPcs
<1>6. task[u].pc \in {"close_conn", "close_lost"}
  BY <1>1, <1>3, <1>4, <1>5 DEF KeepPcs
<1>7. tunnels'[s].c = task[u].c
  BY CalmTypes DEF Retains, Keep
<1> QED
  BY <1>2, <1>6, <1>7 DEF Displaced, Retains

LEMMA TunnelPasses ==
  ASSUME CalmStep, OwnInv, NEW s \in Sid, NEW c \in Conn, tunnels[s].c = c
  PROVE  Held(c)' \/ ("close" \in Faults /\ Displaced(c))
<1>1. c # None /\ s \in Task
  BY CalmTypes
<1>2. CASE tunnels'[s] = tunnels[s]
  BY <1>2 DEF Held
<1>3. ASSUME NEW u \in Task, Empties(u, s) \/ TakesDown(u, s)
      PROVE  Held(c)'
  BY <1>3 DEF Empties, TakesDown, Held
<1>4. ASSUME NEW u \in Task, Works(u, s), Publishes(u, s)
      PROVE  FALSE
  <2>1. u = s /\ At(s, "tunnel") /\ Active(s)
    BY <1>4 DEF Publishes, At, Active
  <2>2. NothingYet(s)
    BY <2>1, CalmFacts DEF OpeningIsAlone, Opening, OpeningPcs, At
  <2> QED
    BY <1>1, <2>2 DEF NothingYet, NoTunnel
<1>5. ASSUME NEW u \in Task, Works(u, s), Installs(u, s)
      PROVE  FALSE
  <2>1. At(u, "commit") /\ task[u].sid = s
    BY <1>5, CalmTypes DEF Installs, Works
  <2> QED
    BY <1>1, <2>1, CalmFacts DEF AttemptIsAlone, ReattachPcs, At
<1>6. ASSUME NEW u \in Task, Works(u, s), Drops(u, s)
      PROVE  Held(c)'
  <2>1. u = s /\ task[s].pc \in OpeningPcs \cup {"ready_read"} /\ task'[s].c = task[s].c
    BY <1>6 DEF Drops
  <2>2. Opening(s)
    BY <2>1, CalmFacts DEF OpeningIsAlone, Active, OpeningPcs
  <2>3. CASE task[s].pc \in OpenedPcs
    <3>1. task[s].c = c
      BY <2>2, <2>3 DEF Opening, LiveTunnel
    <3> QED
      BY <1>1, <2>1, <3>1 DEF Held
  <2>4. CASE task[s].pc \notin OpenedPcs
    <3>1. NothingYet(s)
      BY <2>1, <2>2, <2>4 DEF Opening, OpeningPcs, OpenedPcs
    <3> QED
      BY <1>1, <3>1 DEF NothingYet, NoTunnel
  <2> QED
    BY <2>3, <2>4
<1> QED
  BY <1>2, <1>3, <1>4, <1>5, <1>6, RetainedIsSafe, TunnelTurns

LEMMA OwnedStep ==
  ASSUME LifecycleInv, SafetyInv, SlotInv, DrivenInv, ServedInv, OwnInv, [Next]_vars,
         LifecycleInv', SafetyInv', SlotInv', DrivenInv',
         "late" \notin Faults, "early_loss" \notin Faults, NEW c \in Conn,
         conn'[c], conn[c] => Held(c)
  PROVE  Held(c)' \/ CutShort(c) \/ ("close" \in Faults /\ (Forsaken(c) \/ Displaced(c)))
<1>1. ~GatewayCrashes
  BY DEF GatewayCrashes
<1>2. CalmStep
  BY <1>1 DEF CalmStep, AllInv
<1>3. CASE ~conn[c]
  BY <1>2, <1>3, OpensConn DEF OpenedBy, Held
<1>4. CASE conn[c]
  BY <1>2, <1>4, TaskPasses, TunnelPasses DEF Held, Passes
<1> QED
  BY <1>3, <1>4

LEMMA EmptyOwn == LifecycleInv /\ Empty => OwnInv
<1> SUFFICES ASSUME LifecycleInv, Empty PROVE OwnInv
  OBVIOUS
<1>1. Sid \subseteq Task /\ Conn \subseteq Task /\ Boot \in Task
  BY DEF Task
<1>2. ClaimsAreUsed
  BY DEF Empty, ClaimsAreUsed
<1>3. LostPathIsDown
  BY DEF Empty, LostPathIsDown
<1>4. \A s \in Sid : tunnels[s].c = None
  BY DEF Empty, NoTunnel
<1>5. unrecovered \subseteq Sid
  BY DEF LifecycleInv, TypeOK
<1>6. TunnelIsDown
  BY <1>4, <1>5 DEF TunnelIsDown
<1> QED
  BY <1>2, <1>3, <1>6 DEF OwnInv

-----------------------------------------------------------------------------
(***************************************************************************)
(* The theorems about connections.                                         *)
(***************************************************************************)
\* A task has a connection only where it uses it, a lost path stays down, and a
\* session being cleaned up or recovered has no tunnel.
THEOREM OwnInvariant ==
  ASSUME "late" \notin Faults, "early_loss" \notin Faults
  PROVE  Spec => []OwnInv
<1>1. Init => Empty
  BY EmptyInit
<1>2. LifecycleInv /\ Empty => OwnInv
  BY EmptyOwn
<1>3. LifecycleInv /\ ServedInv /\ GatewayCrashes => Empty'
  BY EmptyCrash DEF ServedInv
<1>4. LifecycleInv /\ LifecycleInv' /\ SafetyInv /\ SafetyInv' /\ SlotInv /\ SlotInv'
        /\ DrivenInv /\ DrivenInv' /\ ServedInv /\ OwnInv /\ [Next]_vars /\ ~GatewayCrashes => OwnInv'
  BY OwnStep DEF CalmStep, AllInv
<1> QED
  BY <1>1, <1>2, <1>3, <1>4, LifecycleInvariant, SafetyInvariant, SlotInvariant, DrivenInvariant,
     ServedInvariant, PTL DEF Spec

\* Every open connection is held, or was let go in one of three ways: an open's cleanup
\* cancelled, a force close whose connection did not close, a kept connection replaced.
THEOREM ConnectionsKeepTheirOwners ==
  ASSUME "late" \notin Faults, "early_loss" \notin Faults
  PROVE  Spec => ConnectionsStayOwned
<1> DEFINE Owned == \A c \in Conn : conn'[c] /\ (conn[c] => Held(c)) =>
                      Held(c)' \/ CutShort(c) \/ Forsaken(c) \/ Displaced(c)
<1>1. LifecycleInv /\ LifecycleInv' /\ SafetyInv /\ SafetyInv' /\ SlotInv /\ SlotInv'
        /\ DrivenInv /\ DrivenInv' /\ ServedInv /\ OwnInv /\ [Next]_vars => Owned
  BY OwnedStep
<1>2. (Spec => [][Owned]_vars) => (Spec => ConnectionsStayOwned)
  BY DEF ConnectionsStayOwned
<1> QED
  BY <1>1, <1>2, LifecycleInvariant, SafetyInvariant, SlotInvariant, DrivenInvariant,
     ServedInvariant, OwnInvariant, PTL DEF Spec


-----------------------------------------------------------------------------
(***************************************************************************)
(* Opens that nothing disturbs: SteadyInv, and ConnectionsAreOwned.        *)
(***************************************************************************)
SteadyStep ==
  CalmStep /\ SteadyInv /\ Faults \subseteq SteadyFaults
EditorPcs == LaunchedPcs \cup {"start"}

\* The faults that do not happen.
LEMMA NoSuchFault ==
  ASSUME Faults \subseteq SteadyFaults
  PROVE  /\ ~Fault("ssh") /\ ~Fault("trust") /\ ~Fault("close") /\ ~Fault("launch")
         /\ ~Fault("death")
         /\ "close" \notin Faults /\ "late" \notin Faults /\ "early_loss" \notin Faults
BY DEF Fault, SteadyFaults

\* Commands of an open reach the host.
LEMMA OpeningDoesNotFail ==
  ASSUME SteadyStep, NEW s \in Sid
  PROVE  ~StartFails(s)
<1>1. SUFFICES ASSUME StartFails(s) PROVE FALSE
  OBVIOUS
<1>2. ~Fault("ssh") /\ ~Fault("trust")
  BY NoSuchFault DEF SteadyStep
<1>3. task[s].pc \in {"install", "start", "forward", "verify"}
  BY <1>1, <1>2 DEF StartFails, At
<1>4. conn[task[s].c]
  BY <1>3, CalmFacts DEF SteadyStep, OpeningIsAlone, Opening, OpeningPcs, Active
<1>5. ~Failed(task[s].c)
  BY <1>2, <1>4 DEF Failed
<1>6. \/ At(s, "start") /\ remote[s] \notin {"starting", "running"}
      \/ At(s, "verify") /\ remote[s] # "running"
  BY <1>1, <1>2, <1>5 DEF StartFails
<1> QED
  BY <1>6 DEF SteadyStep, SteadyInv, EditorIsUp, LaunchedPcs, At

\* The start task of s takes a step of the body, is cancelled, or cleans up.
LEMMA BodySteps ==
  ASSUME SteadyStep, NEW s \in Sid, StartStep(s), task[s].pc \in OpeningPcs, s \notin cancelled
  PROVE  task'[s].pc \in OpeningPcs \cup {"unhandled", "idle"}
<1>1. ~StartCancelled(s) /\ ~StartFails(s) /\ MoveInv /\ s \in Task
  BY OpeningDoesNotFail, CalmFacts, CalmTypes DEF StartCancelled, SteadyStep
<1>2. task[s].sid = s
  BY CalmFacts DEF OpeningIsAlone, Opening, OpeningPcs, Active, SteadyStep
<1>3. CASE StartDone(s)
  BY <1>1, <1>3, EndIs DEF StartDone, IdleTask
<1>4. task[s] \in TaskRecord /\ task \in [Task -> TaskRecord]
  BY <1>1, TaskFacts DEF MoveInv, TypeOK
<1>5. ASSUME NEW q, Become(s, q) PROVE task'[s].pc = q.pc
  BY <1>1, <1>5, BecomeIs
<1>6. ASSUME NEW p, Goto(s, p) PROVE task'[s].pc = p
  BY <1>1, <1>6, GotoIs DEF From
<1>7. CASE StartConnects(s)
  <2> DEFINE q(c) == [task[s] EXCEPT !.pc = "install", !.c = c]
             u == [task[s] EXCEPT !.pc = "unhandled", !.rec = row[s]]
  <2>1. (\E c : Become(s, q(c))) \/ Become(s, u)
    BY <1>7 DEF StartConnects
  <2>2. (\A c : q(c).pc = "install") /\ u.pc = "unhandled"
    BY <1>4 DEF TaskRecord
  <2> HIDE DEF q, u
  <2> QED
    BY <1>5, <2>1, <2>2 DEF OpeningPcs
<1>8. CASE StartInstalls(s) \/ StartForwarded(s)
  BY <1>6, <1>8 DEF StartInstalls, StartForwarded, OpeningPcs
<1>9. CASE StartLaunches(s) \/ StartForwards(s) \/ StartVerifies(s)
  <2> DEFINE q(p, l) == [task[s] EXCEPT !.pc = p, !.ledger = l]
  <2>1. \E p \in OpeningPcs : \E l : Become(s, q(p, l))
    BY <1>9 DEF StartLaunches, StartForwards, StartVerifies, OpeningPcs
  <2>2. \A p, l : q(p, l).pc = p
    BY <1>4 DEF TaskRecord
  <2> HIDE DEF q
  <2> QED
    BY <1>5, <2>1, <2>2
<1>10. CASE StartPublishes(s)
  <2> DEFINE l == task[s].ledger \cup {"registry"}
             r == [task[s] EXCEPT !.pc = "verify", !.ledger = l]
             c == task[s].c
             w == Watcher(s)
  <2>1. task' = [[task EXCEPT ![s] = r] EXCEPT ![c] = w]
    BY <1>10 DEF StartPublishes
  <2>2. r.pc = "verify" /\ c # s
    BY <1>4, CalmTypes DEF TaskRecord, SteadyStep
  <2> HIDE DEF r, c, w
  <2> QED
    BY <1>1, <1>4, <2>1, <2>2 DEF OpeningPcs
<1> QED
  BY <1>1, <1>3, <1>7, <1>8, <1>9, <1>10
     DEF StartStep, StartUnhandled, CleanupCancelled, CleanupDecides, CleanupWatcherEnded,
         CleanupListener, CleanupRemote, CleanupConn, CleanupMarks, Resumes, At, OpeningPcs

\* A close that awaits a start task does so until that has ended.
LEMMA SettlerStays ==
  ASSUME CalmStep, NEW s \in Sid, Active(s), NEW o \in Op, At(o, "start_settles"), task[o].sid = s
  PROVE  task'[o] = task[o]
<1>1. ~CloseDoes(o) /\ ~AttemptDoes(o)
  BY DEF CloseDoes, CloseGoesOn, AttemptDoes, AttemptOn, At
<1>2. ~BeginsClosing(o)
  BY DEF BeginsClosing
<1>3. ~OpDoes(o)
  BY <1>2 DEF OpDoes, Arrives, LooksUp, Answers, InsertsRow, RemovesRow, StartsOpening,
     AsksStop, SettlesStart, BeginsRetry, At
<1> QED
  BY <1>1, <1>3, OpTurns

\* No other close cancels that start task.
LEMMA CancelledOnce ==
  ASSUME CalmStep, NEW s \in Sid, s \notin cancelled, NEW o \in Op, At(o, "start_settles"),
         task[o].sid = s
  PROVE  s \notin cancelled'
<1>1. SUFFICES ASSUME s \in cancelled' PROVE FALSE
  OBVIOUS
<1>2. PICK p \in Op : SettlesStart(p) /\ task[p].sid = s
  BY <1>1, StartCancels
<1>3. At(p, "stopping")
  BY <1>2 DEF SettlesStart
<1>4. Holding(task[p]) /\ Holding(task[o]) /\ s # None /\ p \in Task /\ o \in Task
  BY <1>3, CalmTypes DEF Holding, At
<1>5. p = o
  BY <1>2, <1>4, CalmFacts, OneWorker
<1> QED
  BY <1>3, <1>5 DEF At

LEMMA CleanupAskedStep ==
  ASSUME SteadyStep
  PROVE  CleanupIsAsked'
<1> USE DEF SteadyStep
<1> SUFFICES ASSUME NEW s \in Sid, task'[s].pc \in CleanupPcs
             PROVE  s \notin cancelled' /\ \E o \in Op : task'[o].pc = "start_settles" /\ task'[o].sid = s
  BY DEF CleanupIsAsked, At
<1>1. ASSUME NEW o \in Op, At(o, "start_settles"), task[o].sid = s, Active(s), s \notin cancelled'
      PROVE  s \notin cancelled' /\ \E p \in Op : task'[p].pc = "start_settles" /\ task'[p].sid = s
  BY <1>1, SettlerStays DEF At
<1>2. s \notin Conn /\ s \in Task
  BY CalmTypes
<1>3. CASE task[s].pc \in CleanupPcs
  <2>1. PICK o \in Op : At(o, "start_settles") /\ task[o].sid = s
    BY <1>3 DEF SteadyInv, CleanupIsAsked
  <2>2. s \notin cancelled'
    BY <1>3, <2>1, CancelledOnce DEF SteadyInv, CleanupIsAsked
  <2>3. Active(s)
    BY <1>3 DEF Active, CleanupPcs
  <2> QED
    BY <1>1, <2>1, <2>2, <2>3
<1>4. CASE task[s].pc \notin CleanupPcs
  <2>1. Active(s) /\ StartDoes(s)
    BY <1>4, StartMoves DEF Started, StartsOpening, CleanupPcs
  <2>2. task[s].pc \in OpeningPcs /\ OpeningEnds(s)
    BY <1>4, <2>1 DEF StartDoes, CleanupDoes, StartGoesOn, OpeningDoes, OpensOn, OpeningEnds,
       From, At, CleanupPcs, OpeningPcs, IdleTask
  <2>3. StartStep(s)
    <3>1. task'[s] # task[s]
      BY <1>4
    <3>2. ASSUME NEW o \in Op, At(o, "inserted"), task[o].sid = s PROVE FALSE
      BY <2>1, <3>2, CalmFacts DEF Unlaunched
    <3> QED
      BY <3>1, <3>2, CalmFacts, StartTasksChange DEF LifecycleInv, TypeOK, StoreTypeOK
  <2>4. s \in cancelled
    BY <2>2, <2>3, BodySteps DEF CleanupPcs, OpeningPcs
  <2>5. s \notin cancelled'
    BY <1>2, <2>2, <2>4 DEF OpeningEnds, HasDropped, WatcherOf
  <2>6. PICK o \in Op : At(o, "start_settles") /\ task[o].sid = s
    BY <2>4, CalmFacts DEF CancelledInTime
  <2> QED
    BY <1>1, <2>1, <2>5, <2>6
<1> QED
  BY <1>3, <1>4

\* Nobody else touches the editor of a session that is being opened.
LEMMA OthersLeaveEditor ==
  ASSUME SteadyStep, NEW s \in Sid, task[s].pc \in EditorPcs
  PROVE  /\ \A t \in Closers : task[t].pc \in SettledPcs => task[t].sid # s
         /\ \A c \in Conn : task[c].pc = "remove" => task[c].sid # s
         /\ ~Active(Boot)
<1> USE DEF SteadyStep
<1>1. Active(s) /\ Opening(s)
  BY CalmFacts DEF EditorPcs, LaunchedPcs, Active, OpeningIsAlone
<1>2. ~Active(Boot)
  BY <1>1, CalmFacts DEF Settled
<1>3. ASSUME NEW t \in Closers, task[t].pc \in SettledPcs PROVE task[t].sid # s
  <2>1. t # Boot
    BY <1>2, <1>3 DEF Active, SettledPcs, DoClosePcs, ReattachPcs
  <2> QED
    BY <1>1, <1>3, <2>1, CalmFacts DEF Closers, Settled
<1>4. \A c \in Conn : task[c].pc = "remove" => task[c].sid # s
  BY <1>1 DEF Opening, At
<1> QED
  BY <1>2, <1>3, <1>4

LEMMA EditorStays ==
  ASSUME SteadyStep, NEW s \in Sid, task[s].pc \in EditorPcs
  PROVE  remote'[s] = remote[s] \/ (remote[s] = "starting" /\ remote'[s] = "running")
<1> USE DEF SteadyStep
<1> DEFINE StaysUp == remote'[s] = remote[s] \/ (remote[s] = "starting" /\ remote'[s] = "running")
<1>1. /\ remote \in [Sid -> RemoteState] /\ ~Active(Boot) /\ ~GatewayCrashes
      /\ ~Fault("launch") /\ ~Fault("death")
  BY CalmFacts, OthersLeaveEditor, NoSuchFault DEF MoveInv, TypeOK
<1>2. ASSUME NEW u, u # s, Stopped(u) \/ Removed(u) PROVE remote'[s] = remote[s]
  BY <1>1, <1>2 DEF Stopped, Removed
<1>3. ASSUME NEW t \in Closers, DoCloseStep(t) PROVE StaysUp
  <2>1. \/ remote' = remote
        \/ At(t, "stop") /\ (Stopped(task[t].sid) \/ Removed(task[t].sid))
    BY <1>3 DEF DoCloseStep, DoCloseReads, DoCloseTakesTunnel, DoCloseStopsListener, DoCloseDials,
       DoCloseStopsRemote, DoCloseClosesConn, DoCloseForgets, DoCloseFinishes,
       DoCloseReleases, StopFails, world
  <2>2. At(t, "stop") => task[t].sid # s
    BY OthersLeaveEditor DEF At, SettledPcs, DoClosePcs
  <2> QED
    BY <1>2, <2>1, <2>2
<1>4. ASSUME NEW t \in Closers \cup Conn, ReattachStep(t) PROVE StaysUp
  <2>1. remote' = remote \/ (task[t].pc = "remove" /\ Removed(task[t].sid))
    BY <1>4 DEF ReattachStep, Reconnects, Interrupted, Inspects, RemovesAbsent, ReattachVerifies,
       ReattachInstalls, ReattachReads, DropsConn, BackoffEnds, world, At
  <2>2. task[t].pc = "remove" => task[t].sid # s
    BY OthersLeaveEditor DEF SettledPcs, ReattachPcs
  <2> QED
    BY <1>2, <2>1, <2>2
<1>5. ASSUME RecoveryStep(Boot) PROVE StaysUp
  <2>1. remote' = remote \/ At(Boot, "check_remote")
    BY <1>5 DEF RecoveryStep, RecoverRow, RecoveryReattaches, RecoveryEnds, RecoveryDials,
       RecoveryInspects, RecoveryChecked, RecoveryDrops, RecoveryReleases,
       RecoveryClearsLost, RecoveryMarks, world
  <2> QED
    BY <1>1, <2>1 DEF Active, At
<1>6. ASSUME NEW u \in Sid, StartStep(u) PROVE StaysUp
  <2>1. \/ remote' = remote
        \/ task[u].pc \in {"undo_remote"} /\ Stopped(u)
        \/ StartInstalls(u)
    BY <1>6 DEF StartStep, StartCancelled, StartConnects, StartLaunches, StartForwards,
       StartForwarded, StartPublishes, StartVerifies, StartDone, StartUnhandled, StartFails,
       CleanupCancelled, CleanupDecides, CleanupWatcherEnded, CleanupListener,
       CleanupRemote, CleanupConn, CleanupMarks, StopsRemote, StopFails, world, Resumes, At
  <2>2. u = s => task[u].pc \notin {"undo_remote", "install"}
    BY DEF EditorPcs, LaunchedPcs
  <2>3. CASE StartInstalls(u)
    BY <1>1, <2>2, <2>3 DEF StartInstalls, Resumes, At
  <2> QED
    BY <1>2, <2>1, <2>2, <2>3
<1>7. ASSUME NEW u \in Sid, HelperStep(u) \/ ProcessDies(u) \/ PidReused(u) PROVE StaysUp
  <2>1. HelperRecords(u) \/ PidReused(u)
    BY <1>1, <1>7 DEF HelperStep, HelperFails, ProcessDies
  <2>2. remote[s] # "dead"
    BY DEF SteadyInv, EditorIsUp, EditorPcs, At
  <2> QED
    BY <1>1, <2>1, <2>2 DEF HelperRecords, PidReused, OnlyRemote
<1>8. ASSUME \/ \E o : OpenStep(o) \/ CloseStep(o) \/ RetryStep(o)
             \/ \E c : WatchStep(c) \/ ConnectionLost(c)
             \/ \E o, kind, a : Request(o, kind, a)
             \/ UNCHANGED vars
      PROVE  StaysUp
  <2>1. remote' = remote
    BY <1>8 DEF OpenStep, CloseStep, RetryStep, Enter, OpenChecks, OpenStarts, CloseRecordsIntent,
       CloseCancelsStart, CloseStarts, RetryBegins, RetryProceeds, RetryReopens, WatchStep,
       WatcherWakes, WatcherQueues, WatcherReads, WatcherExits, WatcherDrops,
       WatcherAttempts, WatcherLate, WatcherMarksLoss, WatcherCancelled, ConnectionLost,
       Request, vars, world
  <2> QED
    BY <2>1
<1> HIDE DEF StaysUp
<1>9. [Next]_vars
  BY CalmFacts
<1>10. StaysUp
  BY <1>1, <1>3, <1>4, <1>5, <1>6, <1>7, <1>8, <1>9, CalmTypes
     DEF Next, OpStep, WatcherStep, BootStep, Environment, Quiescent
<1> QED
  BY <1>10 DEF StaysUp

\* An open goes on only with its editor launched, and then running.
LEMMA EditorUpStep ==
  ASSUME SteadyStep
  PROVE  EditorIsUp'
<1> USE DEF SteadyStep
<1> SUFFICES ASSUME NEW s \in Sid, task'[s].pc \in EditorPcs
             PROVE  /\ task'[s].pc = "start" => remote'[s] \in {"starting", "running"}
                    /\ task'[s].pc \in LaunchedPcs => remote'[s] = "running"
  BY DEF EditorIsUp, EditorPcs, At
<1>1. /\ task[s].pc = "start" => remote[s] \in {"starting", "running"}
      /\ task[s].pc \in LaunchedPcs => remote[s] = "running"
  BY DEF SteadyInv, EditorIsUp, At
<1>2. CASE task'[s] = task[s]
  BY <1>1, <1>2, EditorStays
<1>3. CASE task'[s] # task[s]
  <2>1. OpeningDoes(s) /\ s \notin cancelled /\ task[s].pc \in OpeningPcs
    BY <1>3, StartOpens DEF Started, StartsOpening, EditorPcs, LaunchedPcs, OpeningPcs
  <2>2. StartStep(s) /\ ~StartCancelled(s) /\ ~StartFails(s)
    <3>1. ASSUME NEW o \in Op, At(o, "inserted"), task[o].sid = s PROVE FALSE
      BY <2>1, <3>1, CalmFacts DEF Unlaunched, Active, OpeningPcs
    <3> QED
      BY <1>3, <2>1, <3>1, CalmFacts, StartTasksChange, OpeningDoesNotFail
         DEF LifecycleInv, TypeOK, StoreTypeOK, StartCancelled
  <2>3. ASSUME At(s, "install") \/ At(s, "start")
        PROVE  StartInstalls(s) \/ StartLaunches(s)
    BY <2>2, <2>3
       DEF StartStep, StartConnects, StartForwards, StartForwarded, StartPublishes, StartVerifies,
           StartDone, StartUnhandled, CleanupCancelled, CleanupDecides, CleanupWatcherEnded,
           CleanupListener, CleanupRemote, CleanupConn, CleanupMarks, Resumes, At
  <2>4. CASE At(s, "install")
    <3>1. task'[s].pc = "start"
      BY <2>1, <2>4 DEF OpeningDoes, OpensOn, From, At
    <3>2. StartInstalls(s)
      BY <2>3, <2>4 DEF StartLaunches, Resumes, At
    <3>3. remote'[s] = "starting"
      BY <3>2, CalmFacts DEF StartInstalls, MoveInv, TypeOK
    <3> QED
      BY <3>1, <3>3 DEF LaunchedPcs
  <2>5. CASE At(s, "start")
    <3>1. StartLaunches(s)
      BY <2>3, <2>5 DEF StartInstalls, Resumes, At
    <3>2. remote[s] = "running"
      BY <3>1 DEF StartLaunches
    <3> QED
      BY <2>5, <3>2, EditorStays DEF EditorPcs, At
  <2>6. CASE task[s].pc \in LaunchedPcs
    BY <1>1, <2>6, EditorStays DEF EditorPcs
  <2> QED
    BY <2>1, <2>4, <2>5, <2>6
       DEF OpeningDoes, OpensOn, From, At, EditorPcs, LaunchedPcs
<1> QED
  BY <1>2, <1>3

LEMMA SteadyInvStep ==
  ASSUME SteadyStep
  PROVE  SteadyInv'
BY EditorUpStep, CleanupAskedStep DEF SteadyInv

LEMMA EmptySteady == LifecycleInv /\ Empty => SteadyInv
<1> SUFFICES ASSUME LifecycleInv, Empty PROVE SteadyInv
  OBVIOUS
<1>1. \A s \in Sid : task[s].pc = "idle"
  BY DEF Empty
<1> QED
  BY <1>1 DEF SteadyInv, EditorIsUp, CleanupIsAsked, CleanupPcs, LaunchedPcs, At

-----------------------------------------------------------------------------
\* While what is asked of hosts and connections works, an open cleans up only for the
\* close that cancelled it, with its editor up.
THEOREM SteadyInvariant ==
  ASSUME Faults \subseteq SteadyFaults
  PROVE  Spec => []SteadyInv
<1>0. "late" \notin Faults /\ "early_loss" \notin Faults
  BY NoSuchFault
<1>1. Init => Empty
  BY EmptyInit
<1>2. LifecycleInv /\ Empty => SteadyInv
  BY EmptySteady
<1>3. LifecycleInv /\ ServedInv /\ GatewayCrashes => Empty'
  BY EmptyCrash DEF ServedInv
<1>4. LifecycleInv /\ LifecycleInv' /\ SafetyInv /\ SafetyInv' /\ SlotInv /\ SlotInv'
        /\ DrivenInv /\ DrivenInv' /\ ServedInv /\ SteadyInv /\ [Next]_vars /\ ~GatewayCrashes
        => SteadyInv'
  BY <1>0, SteadyInvStep DEF SteadyStep, CalmStep, AllInv
<1>6. Spec => []ServedInv
  BY <1>0, ServedInvariant
<1> QED
  BY <1>1, <1>2, <1>3, <1>4, <1>6, LifecycleInvariant, SafetyInvariant, SlotInvariant,
     DrivenInvariant, PTL DEF Spec

\* While what is asked of hosts and connections works, no open connection is left that
\* nothing holds.
THEOREM ConnectionsHaveOwners ==
  ASSUME Faults \subseteq SteadyFaults
  PROVE  Spec => []ConnectionsAreOwned
<1>0. "late" \notin Faults /\ "early_loss" \notin Faults /\ "close" \notin Faults
  BY NoSuchFault
<1>1. Init => ConnectionsAreOwned
  BY DEF Init, ConnectionsAreOwned
<1>2. LifecycleInv /\ LifecycleInv' /\ SafetyInv /\ SafetyInv' /\ SlotInv /\ SlotInv'
        /\ DrivenInv /\ DrivenInv' /\ ServedInv /\ OwnInv /\ SteadyInv /\ [Next]_vars
        /\ ConnectionsAreOwned => ConnectionsAreOwned'
  <2> SUFFICES ASSUME LifecycleInv, LifecycleInv', SafetyInv, SafetyInv', SlotInv, SlotInv',
                      DrivenInv, DrivenInv', ServedInv, OwnInv, SteadyInv, [Next]_vars,
                      ConnectionsAreOwned, NEW c \in Conn, conn'[c]
               PROVE  Held(c)'
    BY DEF ConnectionsAreOwned
  <2>1. ~CutShort(c)
    BY DEF CutShort, SteadyInv, CleanupIsAsked, CleanupPcs
  <2> QED
    BY <1>0, <2>1, OwnedStep DEF ConnectionsAreOwned
<1>3. Spec => []ServedInv
  BY <1>0, ServedInvariant
<1>4. Spec => []OwnInv
  BY <1>0, OwnInvariant
<1> QED
  BY <1>1, <1>2, <1>3, <1>4, LifecycleInvariant, SafetyInvariant, SlotInvariant,
     DrivenInvariant, SteadyInvariant, PTL DEF Spec
=============================================================================
