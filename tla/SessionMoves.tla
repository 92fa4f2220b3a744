---------------------------- MODULE SessionMoves ----------------------------
(***************************************************************************)
(* The session table under any order of its statements; then what each     *)
(* step of the lifecycle does to tasks and alias locks.  First the locks   *)
(* as queues: joining, releasing, leaving and requeueing each keep a queue *)
(* made of exactly the tasks at work on the alias, its holder at the head. *)
(* Then the steps: nearly every action of SessionService is a "move" of    *)
(* one task, and a move preserves the shape of the tasks, the order of the *)
(* locks and the freshness of connections being set up.  One lemma per     *)
(* action or group of actions, in the order of SessionService.             *)
(***************************************************************************)
EXTENDS SessionInvariant, TLAPS

-----------------------------------------------------------------------------
(***************************************************************************)
(* Proofs about the session table alone: whatever order the gateway's      *)
(* tasks issue their statements in. Every statement is a no-op, an insert, *)
(* a delete or an edit of a live row that respects a recorded close        *)
(* request (StatementKinds); the theorems follow from the kinds.           *)
(***************************************************************************)

\* A recorded close request keeps the row down.
Down(r) == r.close_reason => r.state \in {"stopping", "error"}

StoreInv == StoreTypeOK /\ OneRowPerAlias /\ ClosingRowIsDown

\* A live row of s becomes the live row new, without losing a close request.
Edits(s, new) ==
  /\ row[s] \in LiveRow /\ new \in LiveRow
  /\ row' = [row EXCEPT ![s] = new]
  /\ new.alias = row[s].alias
  /\ row[s].close_reason => new.close_reason
  /\ Down(row[s]) => Down(new)

\* The live rows are the rows whose state is not "closed".
LEMMA NoRowIsRow == NoRow \in Row /\ NoRow.state = "closed" /\ ~NoRow.close_reason
BY DEF NoRow, Row

LEMMA LiveRows == \A r \in Row : r.state # "closed" <=> r \in LiveRow
BY DEF Row, NoRow, LiveRow, LiveState

LEMMA NewRowIsLive ==
  ASSUME NEW a \in Alias
  PROVE  NewRow(a) \in LiveRow /\ NewRow(a).alias = a /\ NewRow(a).state = "starting"
         /\ ~NewRow(a).close_reason
BY DEF NewRow, NoRow, LiveRow, LiveState, ErrorCode

\* An UPDATE whose new row keeps the alias and the close request is an edit,
\* or finds no row.
LEMMA UpdateKinds ==
  ASSUME StoreTypeOK, NEW s \in Sid, NEW new, Update(s, new),
         row[s] \in LiveRow =>
           /\ new \in LiveRow /\ new.alias = row[s].alias
           /\ row[s].close_reason => new.close_reason
           /\ Down(row[s]) => Down(new)
  PROVE  row' = row \/ Edits(s, new)
<1>1. row[s] \in Row
  BY DEF StoreTypeOK
<1> QED
  BY <1>1, LiveRows DEF Update, Exists, Edits

\* The four statements that set or clear an identity.
LEMMA IdentityKinds ==
  ASSUME StoreTypeOK, NEW s \in Sid,
         \/ SetRemoteIdentity(s) \/ ClearRemoteIdentity(s)
         \/ SetTunnelIdentity(s) \/ ClearTunnelIdentity(s)
  PROVE  row' = row \/ \E new \in LiveRow : Edits(s, new)
<1>1. ASSUME NEW b \in BOOLEAN, Update(s, [row[s] EXCEPT !.identity = b])
      PROVE  row' = row \/ \E new \in LiveRow : Edits(s, new)
  <2> DEFINE new == [row[s] EXCEPT !.identity = b]
  <2>1. row[s] \in LiveRow =>
          /\ new \in LiveRow /\ new.alias = row[s].alias
          /\ new.state = row[s].state /\ new.close_reason = row[s].close_reason
    BY DEF LiveRow
  <2>2. Update(s, new)
    BY <1>1
  <2> HIDE DEF new
  <2>3. row' = row \/ Edits(s, new)
    BY <2>1, <2>2, UpdateKinds DEF Down
  <2> QED
    BY <2>3 DEF Edits
<1>2. ASSUME NEW b \in BOOLEAN, Update(s, [row[s] EXCEPT !.local_port = b])
      PROVE  row' = row \/ \E new \in LiveRow : Edits(s, new)
  <2> DEFINE new == [row[s] EXCEPT !.local_port = b]
  <2>1. row[s] \in LiveRow =>
          /\ new \in LiveRow /\ new.alias = row[s].alias
          /\ new.state = row[s].state /\ new.close_reason = row[s].close_reason
    BY DEF LiveRow
  <2>2. Update(s, new)
    BY <1>2
  <2> HIDE DEF new
  <2>3. row' = row \/ Edits(s, new)
    BY <2>1, <2>2, UpdateKinds DEF Down
  <2> QED
    BY <2>3 DEF Edits
<1> QED
  BY <1>1, <1>2 DEF SetRemoteIdentity, ClearRemoteIdentity, SetTunnelIdentity,
     ClearTunnelIdentity

\* The statements of the lifecycle proper.
LEMMA StateKinds ==
  ASSUME StoreTypeOK, NEW s \in Sid,
         \/ MarkReady(s) \/ MarkStopping(s) \/ \E code \in ErrorCode : MarkError(s, code)
  PROVE  row' = row \/ (\E new \in LiveRow : Edits(s, new))
<1>1. row[s] \in Row
  BY DEF StoreTypeOK
<1>2. CASE MarkReady(s)
  <2>1. CASE row[s].state = "starting"
    <3> DEFINE new == [row[s] EXCEPT !.state = "ready"]
    <3>1. row[s] \in LiveRow
      BY <1>1, <2>1, LiveRows
    <3>2. /\ new \in LiveRow /\ new.alias = row[s].alias
          /\ new.state = "ready" /\ new.close_reason = row[s].close_reason
      BY <3>1 DEF LiveRow, LiveState
    <3>3. row' = [row EXCEPT ![s] = new]
      BY <1>2, <2>1 DEF MarkReady, StoreTypeOK
    <3> HIDE DEF new
    <3>4. Edits(s, new)
      BY <2>1, <3>1, <3>2, <3>3 DEF Edits, Down
    <3> QED
      BY <3>2, <3>4
  <2> QED
    BY <1>2, <2>1 DEF MarkReady
<1>3. CASE MarkStopping(s)
  <2> DEFINE new == [row[s] EXCEPT !.state = "stopping", !.close_reason = TRUE]
  <2>1. row[s] \in LiveRow =>
          new \in LiveRow /\ new.alias = row[s].alias /\ new.state = "stopping" /\ new.close_reason
    BY DEF LiveRow, LiveState
  <2>2. Update(s, new)
    BY <1>3 DEF MarkStopping
  <2> HIDE DEF new
  <2>3. row' = row \/ Edits(s, new)
    BY <2>1, <2>2, UpdateKinds DEF Down
  <2> QED
    BY <2>3 DEF Edits
<1>4. ASSUME NEW code \in ErrorCode, MarkError(s, code)
      PROVE  row' = row \/ (\E new \in LiveRow : Edits(s, new))
  <2> DEFINE new == [row[s] EXCEPT !.state = "error", !.error_code = code]
  <2>1. row[s] \in LiveRow =>
          /\ new \in LiveRow /\ new.alias = row[s].alias /\ new.state = "error"
          /\ new.close_reason = row[s].close_reason
    BY DEF LiveRow, LiveState
  <2>2. Update(s, new)
    BY <1>4 DEF MarkError
  <2> HIDE DEF new
  <2>3. row' = row \/ Edits(s, new)
    BY <2>1, <2>2, UpdateKinds DEF Down
  <2> QED
    BY <2>3 DEF Edits
<1> QED
  BY <1>2, <1>3, <1>4

\* The two statements of reattachment look for a close request themselves.
LEMMA RecoveryKinds ==
  ASSUME StoreTypeOK, NEW s \in Sid, BeginRecovery(s) \/ CompleteRecovery(s)
  PROVE  row' = row \/ (\E new \in LiveRow : Edits(s, new))
<1>1. row[s] \in Row
  BY DEF StoreTypeOK
<1>2. CASE ~Recoverable(s)
  BY <1>2 DEF BeginRecovery, CompleteRecovery
<1>3. CASE Recoverable(s) /\ BeginRecovery(s)
  <2> DEFINE new == [row[s] EXCEPT !.local_port = FALSE]
  <2>1. row[s] \in LiveRow
    BY <1>1, <1>3, LiveRows DEF Recoverable
  <2>2. /\ new \in LiveRow /\ new.alias = row[s].alias
        /\ new.state = row[s].state /\ new.close_reason = row[s].close_reason
    BY <2>1 DEF LiveRow
  <2>3. row' = [row EXCEPT ![s] = new]
    BY <1>3 DEF BeginRecovery, StoreTypeOK
  <2> HIDE DEF new
  <2>4. Edits(s, new)
    BY <2>1, <2>2, <2>3 DEF Edits, Down
  <2> QED
    BY <2>2, <2>4
<1>4. CASE Recoverable(s) /\ CompleteRecovery(s)
  <2> DEFINE new == [row[s] EXCEPT !.state = "ready", !.identity = TRUE,
                                   !.local_port = TRUE, !.error_code = "none"]
  <2>1. row[s] \in LiveRow /\ ~row[s].close_reason
    BY <1>1, <1>4, LiveRows DEF Recoverable
  <2>2. /\ new \in LiveRow /\ new.alias = row[s].alias
        /\ new.state = "ready" /\ new.close_reason = row[s].close_reason
    BY <2>1 DEF LiveRow, LiveState, ErrorCode
  <2>3. row' = [row EXCEPT ![s] = new]
    BY <1>4 DEF CompleteRecovery, StoreTypeOK
  <2> HIDE DEF new
  <2>4. Edits(s, new)
    BY <2>1, <2>2, <2>3 DEF Edits, Down
  <2> QED
    BY <2>2, <2>4
<1> QED
  BY <1>2, <1>3, <1>4

LEMMA StatementKinds ==
  ASSUME StoreTypeOK, NEW s \in Sid, Statement(s)
  PROVE  \/ row' = row
         \/ \E a \in Alias : Insert(s, a)
         \/ Delete(s)
         \/ \E new \in LiveRow : Edits(s, new)
BY IdentityKinds, StateKinds, RecoveryKinds DEF Statement

\* Every statement preserves the invariant.
LEMMA StatementPreserves ==
  ASSUME StoreInv, NEW s \in Sid, Statement(s)
  PROVE  StoreInv'
<1> USE DEF StoreInv, StoreTypeOK, OneRowPerAlias, ClosingRowIsDown, Exists
<1>1. CASE row' = row
  BY <1>1
<1>2. ASSUME NEW a \in Alias, Insert(s, a) PROVE StoreInv'
  <2>1. /\ row' = [row EXCEPT ![s] = NewRow(a)]
        /\ \A u \in Sid : row[u].state # "closed" => row[u].alias # a
    BY <1>2 DEF Insert, RowsOf
  <2> QED
    BY <2>1, NewRowIsLive DEF Row
<1>3. CASE Delete(s)
  <2>1. row' = [row EXCEPT ![s] = NoRow]
    BY <1>3 DEF Delete
  <2> QED
    BY <2>1, NoRowIsRow
<1>4. ASSUME NEW new \in LiveRow, Edits(s, new) PROVE StoreInv'
  <2>1. row' = [row EXCEPT ![s] = new] /\ new \in Row /\ row[s] \in Row
    BY <1>4 DEF Edits, Row
  <2>2. row[s].state # "closed" /\ new.alias = row[s].alias /\ Down(new)
    BY <1>4, <2>1, LiveRows DEF Edits, Down
  <2>3. StoreTypeOK' /\ ClosingRowIsDown'
    BY <2>1, <2>2 DEF Down
  <2>4. OneRowPerAlias'
    BY <2>1, <2>2
  <2> QED
    BY <2>3, <2>4
<1> QED
  BY <1>1, <1>2, <1>3, <1>4, StatementKinds

\* No statement withdraws a recorded close request: CloseIntentIsFinal for one step.
LEMMA StatementKeepsIntent ==
  ASSUME StoreInv, NEW u \in Sid, Statement(u), NEW s \in Sid, row[s].close_reason
  PROVE  \/ row'[s] = NoRow
         \/ row'[s].close_reason /\ row'[s].state \in {"stopping", "error"}
<1>1. row \in [Sid -> Row] /\ Down(row[s]) /\ row[s].state \in {"stopping", "error"}
  BY DEF StoreInv, StoreTypeOK, ClosingRowIsDown, Down
<1>2. CASE row' = row
  BY <1>1, <1>2
<1>3. ASSUME NEW a \in Alias, Insert(u, a) PROVE row'[s] = row[s]
  BY <1>1, <1>3 DEF Insert, Exists
<1>4. CASE Delete(u)
  BY <1>1, <1>4 DEF Delete
<1>5. ASSUME NEW new \in LiveRow, Edits(u, new)
      PROVE  row'[s].close_reason /\ row'[s].state \in {"stopping", "error"}
  BY <1>1, <1>5 DEF Edits, Down
<1> QED
  BY <1>1, <1>2, <1>3, <1>4, <1>5, StatementKinds DEF StoreInv

-----------------------------------------------------------------------------
\* The invariant of the table under any order of statements.
THEOREM StoreInvariant == StoreSpec => []StoreInv
<1>1. StoreInit => StoreInv
  BY NoRowIsRow DEF StoreInit, StoreInv, StoreTypeOK, OneRowPerAlias, ClosingRowIsDown, Exists
<1>2. StoreInv /\ [StoreNext]_row => StoreInv'
  <2> SUFFICES ASSUME StoreInv, [StoreNext]_row PROVE StoreInv'
    OBVIOUS
  <2>1. CASE StoreNext
    BY <2>1, StatementPreserves DEF StoreNext
  <2>2. CASE row' = row
    BY <2>2 DEF StoreInv, StoreTypeOK, OneRowPerAlias, ClosingRowIsDown, Exists
  <2> QED
    BY <2>1, <2>2
<1> QED
  BY <1>1, <1>2, PTL DEF StoreSpec

\* Once a close request is recorded, no order of statements (of close, retry,
\* recovery, watchers or the start task) makes the session starting or ready.
THEOREM StoreKeepsCloseIntent == StoreSpec => CloseIntentIsFinal
<1>1. StoreInv /\ [StoreNext]_row =>
        [\A s \in Sid : row[s].close_reason =>
           \/ row'[s] = NoRow
           \/ row'[s].close_reason /\ row'[s].state \in {"stopping", "error"}]_row
  BY StatementKeepsIntent DEF StoreNext
<1> QED
  BY <1>1, StoreInvariant, PTL DEF StoreSpec, CloseIntentIsFinal

-----------------------------------------------------------------------------
(***************************************************************************)
(* The alias locks as queues, and the moves of tasks.                      *)
(***************************************************************************)

\* A task that joins a queue is its last, and its head only if it was empty.
LEMMA QueueJoin ==
  ASSUME NEW q, NEW S, Queue(q, S), NEW t \in Task, t \notin S
  PROVE  /\ Queue(Append(q, t), S \cup {t})
         /\ q # <<>> => Head(Append(q, t)) = Head(q)
         /\ q = <<>> => Head(Append(q, t)) = t
<1>1. q \in Seq(Task) /\ Len(q) \in Nat /\ \A i \in 1..Len(q) : q[i] # t
  BY DEF Queue
<1>2. /\ Append(q, t) \in Seq(Task) /\ Len(Append(q, t)) = Len(q) + 1
      /\ \A i \in 1..Len(q) : Append(q, t)[i] = q[i]
      /\ Append(q, t)[Len(q) + 1] = t
  BY <1>1
<1>3. \A i \in 1..Len(Append(q, t)) : i \in 1..Len(q) \/ i = Len(q) + 1
  BY <1>1, <1>2
<1>4. Queue(Append(q, t), S \cup {t})
  BY <1>1, <1>2, <1>3 DEF Queue
<1>5. q # <<>> => Len(q) > 0
  BY <1>1
<1> QED
  BY <1>1, <1>2, <1>4, <1>5

\* When its head leaves, a queue holds the others.
LEMMA QueueRelease ==
  ASSUME NEW q, NEW S, Queue(q, S), NEW t \in S, t \in Task, Head(q) = t
  PROVE  Queue(Tail(q), S \ {t})
<1>1. q \in Seq(Task) /\ Len(q) \in Nat /\ Len(q) > 0 /\ q[1] = t
  BY DEF Queue
<1>2. /\ Tail(q) \in Seq(Task) /\ Len(Tail(q)) = Len(q) - 1
      /\ \A i \in 1..Len(q) - 1 : Tail(q)[i] = q[i + 1]
  BY <1>1
<1>3. \A i, j \in 1..Len(Tail(q)) : Tail(q)[i] = Tail(q)[j] => i = j
  BY <1>1, <1>2 DEF Queue
<1>4. ASSUME NEW u \in Task
      PROVE  u \in S \ {t} <=> \E i \in 1..Len(Tail(q)) : Tail(q)[i] = u
  <2>1. ASSUME u \in S, u # t PROVE \E i \in 1..Len(Tail(q)) : Tail(q)[i] = u
    <3>1. PICK k \in 1..Len(q) : q[k] = u
      BY <2>1 DEF Queue
    <3>2. k - 1 \in 1..Len(Tail(q)) /\ Tail(q)[k - 1] = u
      BY <1>1, <1>2, <2>1, <3>1
    <3> QED
      BY <3>2
  <2>2. ASSUME NEW i \in 1..Len(Tail(q)), Tail(q)[i] = u PROVE u \in S /\ u # t
    BY <1>1, <1>2, <2>2 DEF Queue
  <2> QED
    BY <2>1, <2>2
<1> QED
  BY <1>2, <1>3, <1>4 DEF Queue

\* The tail of a queue behind position k.
LEMMA SubSeqFacts ==
  ASSUME NEW q \in Seq(Task), NEW k \in 1..Len(q)
  PROVE  /\ SubSeq(q, k + 1, Len(q)) \in Seq(Task)
         /\ Len(SubSeq(q, k + 1, Len(q))) = Len(q) - k
         /\ \A i \in 1..Len(q) - k : SubSeq(q, k + 1, Len(q))[i] = q[k + i]
<1>1. SubSeq(q, k + 1, Len(q)) \in Seq(Task)
  OBVIOUS
<1>2. Len(SubSeq(q, k + 1, Len(q))) = Len(q) - k
  OBVIOUS
<1>3. ASSUME NEW i \in 1..Len(q) - k PROVE SubSeq(q, k + 1, Len(q))[i] = q[k + i]
  OBVIOUS
<1> QED
  BY <1>1, <1>2, <1>3

\* The elements of a concatenation.
LEMMA ConcatFacts ==
  ASSUME NEW l \in Seq(Task), NEW r \in Seq(Task)
  PROVE  /\ l \o r \in Seq(Task) /\ Len(l \o r) = Len(l) + Len(r)
         /\ \A i \in 1..Len(l) : (l \o r)[i] = l[i]
         /\ \A i \in 1..Len(r) : (l \o r)[Len(l) + i] = r[i]
OBVIOUS

\* When any member leaves a queue, the others keep their order and the head its
\* place (Without, the exit of a cancelled waiter).
LEMMA QueueWithout ==
  ASSUME NEW q, NEW S, Queue(q, S), NEW t \in Task
  PROVE  /\ Queue(Without(q, t), S \ {t})
         /\ \A u \in S : u # t /\ Head(q) = u => Head(Without(q, t)) = u
<1>1. q \in Seq(Task) /\ Len(q) \in Nat /\ DOMAIN q = 1..Len(q)
  BY DEF Queue
<1>2. CASE ~\E i \in DOMAIN q : q[i] = t
  <2>1. Without(q, t) = q /\ t \notin S
    BY <1>1, <1>2 DEF Without, Queue
  <2>2. S \ {t} = S
    BY <2>1
  <2> QED
    BY <2>1, <2>2
<1>3. CASE \E i \in DOMAIN q : q[i] = t
  <2> DEFINE k == CHOOSE i \in DOMAIN q : q[i] = t
             w == SubSeq(q, 1, k - 1) \o SubSeq(q, k + 1, Len(q))
  <2>1. k \in 1..Len(q) /\ q[k] = t
    BY <1>1, <1>3
  <2>2. Without(q, t) = w
    BY <1>3 DEF Without
  <2> HIDE DEF k
  <2>3. /\ SubSeq(q, 1, k - 1) \in Seq(Task) /\ Len(SubSeq(q, 1, k - 1)) = k - 1
        /\ \A i \in 1..k - 1 : SubSeq(q, 1, k - 1)[i] = q[i]
    BY <1>1, <2>1
  <2>4. /\ SubSeq(q, k + 1, Len(q)) \in Seq(Task)
        /\ Len(SubSeq(q, k + 1, Len(q))) = Len(q) - k
        /\ \A i \in 1..Len(q) - k : SubSeq(q, k + 1, Len(q))[i] = q[k + i]
    BY <1>1, <2>1, SubSeqFacts
  <2>5. /\ w \in Seq(Task) /\ Len(w) = Len(q) - 1
        /\ \A i \in 1..k - 1 : w[i] = q[i]
        /\ \A i \in k..Len(q) - 1 : w[i] = q[i + 1]
    <3> DEFINE l == SubSeq(q, 1, k - 1)
               r == SubSeq(q, k + 1, Len(q))
    <3>1. /\ l \in Seq(Task) /\ Len(l) = k - 1 /\ \A i \in 1..k - 1 : l[i] = q[i]
          /\ r \in Seq(Task) /\ Len(r) = Len(q) - k
          /\ \A i \in 1..Len(q) - k : r[i] = q[k + i]
      BY <2>3, <2>4
    <3>2. w = l \o r
      OBVIOUS
    <3> HIDE DEF l, r, w
    <3>3. /\ w \in Seq(Task) /\ Len(w) = Len(l) + Len(r)
          /\ \A i \in 1..Len(l) : w[i] = l[i]
          /\ \A i \in 1..Len(r) : w[Len(l) + i] = r[i]
      BY <3>1, <3>2, ConcatFacts
    <3>4. ASSUME NEW i \in k..Len(q) - 1 PROVE w[i] = q[i + 1]
      <4>1. /\ i - (k - 1) \in 1..Len(q) - k
            /\ k + (i - (k - 1)) = i + 1
            /\ (k - 1) + (i - (k - 1)) = i
        BY <1>1, <2>1
      <4> QED
        BY <3>1, <3>3, <4>1
    <3> QED
      BY <1>1, <2>1, <3>1, <3>3, <3>4
  <2> HIDE DEF w
  <2>6. \A i, j \in 1..Len(w) : w[i] = w[j] => i = j
    <3>1. \A i \in 1..Len(w) : i \in 1..k - 1 \/ i \in k..Len(q) - 1
      BY <1>1, <2>1, <2>5
    <3> QED
      BY <1>1, <2>1, <2>5, <3>1 DEF Queue
  <2>7. ASSUME NEW u \in Task
        PROVE  u \in S \ {t} <=> \E i \in 1..Len(w) : w[i] = u
    <3>1. ASSUME u \in S, u # t PROVE \E i \in 1..Len(w) : w[i] = u
      <4>1. PICK j \in 1..Len(q) : q[j] = u
        BY <3>1 DEF Queue
      <4>2. CASE j < k
        BY <1>1, <2>1, <2>5, <4>1, <4>2
      <4>3. CASE j > k
        <5>1. j - 1 \in 1..Len(w) /\ w[j - 1] = u
          BY <1>1, <2>1, <2>5, <4>1, <4>3
        <5> QED
          BY <5>1
      <4> QED
        BY <1>1, <2>1, <3>1, <4>1, <4>2, <4>3
    <3>2. ASSUME NEW i \in 1..Len(w), w[i] = u PROVE u \in S /\ u # t
      BY <1>1, <2>1, <2>5, <3>2 DEF Queue
    <3> QED
      BY <3>1, <3>2
  <2>8. ASSUME NEW u \in S, u # t, Head(q) = u PROVE Head(w) = u
    BY <1>1, <2>1, <2>5, <2>8
  <2> QED
    BY <2>2, <2>5, <2>6, <2>7, <2>8 DEF Queue
<1> QED
  BY <1>2, <1>3

-----------------------------------------------------------------------------
(***************************************************************************)
(* What a step of task t, whose record becomes r, may do to the locks.     *)
(***************************************************************************)
\* Nothing: its place in the queue, if any, is the same.
Stays(T, L, t, r) ==
  /\ Busy(r) <=> Busy(T[t])
  /\ Busy(r) => r.alias = T[t].alias
  /\ Holding(r) => Holding(T[t]) \/ Head(L[r.alias]) = t
\* It joins the queue, and holds the lock at once only if nobody did.
Joins(T, L, t, r) ==
  /\ ~Busy(T[t]) /\ Busy(r) /\ r.alias \in Alias
  /\ Holding(r) => L[r.alias] = <<>>
\* It gives its place up and joins again.
Requeues(T, t, r) ==
  /\ Busy(T[t]) /\ Queued(r) /\ ~Holding(r) /\ r.alias = T[t].alias

\* One of these, with what becomes of the queues.
LockMove(T, L, t, r, M) ==
  \/ Stays(T, L, t, r) /\ M = L
  \/ Joins(T, L, t, r) /\ M = [L EXCEPT ![r.alias] = Append(@, t)]
  \/ Holding(T[t]) /\ ~Busy(r) /\ M = [L EXCEPT ![T[t].alias] = Tail(@)]
  \/ ~Busy(r) /\ T[t].alias \in Alias /\ M = [L EXCEPT ![T[t].alias] = Without(@, t)]
  \/ Holding(T[t]) /\ Requeues(T, t, r) /\ M = [L EXCEPT ![r.alias] = Append(Tail(@), t)]
  \/ Requeues(T, t, r) /\ M = [L EXCEPT ![r.alias] = Append(Without(@, t), t)]

\* What the lemmas below assume of tasks T and locks L.
LockTyped(T, L) ==
  /\ T \in [Task -> TaskRecord] /\ L \in [Alias -> Seq(Task)] /\ LockOK(T, L)
  /\ \A u \in Task : Busy(T[u]) => T[u].alias \in Alias

\* Only the record of t changes.
Changes(T, t, T2) ==
  T2 \in [Task -> TaskRecord] /\ \A u \in Task : u # t => T2[u] = T[u]

\* Whom a lock's queue must hold after one task's record changed.
LEMMA WaitersAfter ==
  ASSUME NEW T, NEW t \in Task, NEW T2, Changes(T, t, T2), NEW a \in Alias
  PROVE  /\ (Busy(T[t]) => T[t].alias # a) /\ (Busy(T2[t]) => T2[t].alias # a) =>
              Waiters(T2, a) = Waiters(T, a)
         /\ Busy(T2[t]) /\ T2[t].alias = a =>
              Waiters(T2, a) = Waiters(T, a) \cup {t}
         /\ ~Busy(T2[t]) => Waiters(T2, a) = Waiters(T, a) \ {t}
<1>1. \A u \in Task : u # t => T2[u] = T[u]
  BY DEF Changes
<1>2. \A u \in Waiters(T2, a) : u = t \/ u \in Waiters(T, a)
  BY <1>1 DEF Waiters
<1>3. \A u \in Waiters(T, a) : u = t \/ u \in Waiters(T2, a)
  BY <1>1 DEF Waiters
<1>4. /\ t \in Waiters(T, a) <=> Busy(T[t]) /\ T[t].alias = a
      /\ t \in Waiters(T2, a) <=> Busy(T2[t]) /\ T2[t].alias = a
  BY <1>1 DEF Waiters
<1>5. (Busy(T[t]) => T[t].alias # a) /\ (Busy(T2[t]) => T2[t].alias # a) => Waiters(T2, a) = Waiters(T, a)
  BY <1>2, <1>3, <1>4
<1>6. Busy(T2[t]) /\ T2[t].alias = a => Waiters(T2, a) = Waiters(T, a) \cup {t}
  BY <1>2, <1>3, <1>4
<1>7. ~Busy(T2[t]) => Waiters(T2, a) = Waiters(T, a) \ {t}
  BY <1>2, <1>3, <1>4
<1> QED
  BY <1>5, <1>6, <1>7

\* The queue of one lock changes.
Requeued(L, a, q, M) ==
  M \in [Alias -> Seq(Task)] /\ M[a] = q /\ \A b \in Alias : b # a => M[b] = L[b]

\* Replacing one lock's queue leaves the other locks alone.
LEMMA ExceptIsRequeued ==
  ASSUME NEW L \in [Alias -> Seq(Task)], NEW a \in Alias, NEW q \in Seq(Task), NEW M,
         M = [L EXCEPT ![a] = q]
  PROVE  Requeued(L, a, q, M)
BY DEF Requeued

\* Lock order survives a change of one task and of the queue of its alias.
LEMMA LockEdit ==
  ASSUME NEW T, NEW L, LockTyped(T, L), NEW t \in Task, NEW T2, Changes(T, t, T2),
         NEW a \in Alias, NEW q, Queue(q, Waiters(T2, a)),
         NEW M, Requeued(L, a, q, M),
         Busy(T[t]) => T[t].alias = a,
         Busy(T2[t]) => T2[t].alias = a,
         Holding(T2[t]) => Head(q) = t,
         \A u \in Waiters(T, a) : u # t /\ Head(L[a]) = u => Head(q) = u
  PROVE  LockOK(T2, M)
<1>1. /\ M[a] = q /\ \A b \in Alias : b # a => M[b] = L[b]
      /\ \A u \in Task : u # t => T2[u] = T[u]
  BY DEF Requeued, Changes
<1>2. ASSUME NEW b \in Alias PROVE Queue(M[b], Waiters(T2, b))
  <2>1. CASE b = a
    BY <1>1, <2>1
  <2>2. CASE b # a
    <3>1. Waiters(T2, b) = Waiters(T, b)
      BY <2>2, WaitersAfter
    <3> QED
      BY <1>1, <2>2, <3>1 DEF LockOK, LockTyped
  <2> QED
    BY <2>1, <2>2
<1>3. ASSUME NEW u \in Task, Holding(T2[u]) PROVE Head(M[T2[u].alias]) = u
  <2>1. CASE u = t
    BY <1>1, <1>3, <2>1 DEF Busy
  <2>2. CASE u # t
    <3>1. T2[u] = T[u] /\ Busy(T[u]) /\ T[u].alias \in Alias /\ Head(L[T[u].alias]) = u
      BY <1>1, <1>3, <2>2 DEF LockOK, LockTyped, Busy
    <3>2. T[u].alias = a => u \in Waiters(T, a)
      BY <3>1 DEF Waiters
    <3> QED
      BY <1>1, <2>2, <3>1, <3>2
  <2> QED
    BY <2>1, <2>2
<1> QED
  BY <1>2, <1>3 DEF LockOK

\* Whatever a task does with its lock (stays, joins, releases, leaves, requeues),
\* each queue holds the tasks at work on the alias and its head the holder.
LEMMA LockMoveKeepsOrder ==
  ASSUME NEW T, NEW L, LockTyped(T, L), NEW t \in Task, NEW T2, Changes(T, t, T2),
         Busy(T2[t]) => T2[t].alias \in Alias, NEW M, LockMove(T, L, t, T2[t], M)
  PROVE  M \in [Alias -> Seq(Task)] /\ LockOK(T2, M)
<1>1. /\ L \in [Alias -> Seq(Task)]
      /\ \A u \in Task : Busy(T[u]) => T[u].alias \in Alias
      /\ \A u \in Task : Holding(T[u]) => Busy(T[u]) /\ Head(L[T[u].alias]) = u
  BY DEF LockTyped, LockOK, Busy
<1>2. \A a \in Alias : Queue(L[a], Waiters(T, a)) /\ L[a] \in Seq(Task)
  BY <1>1 DEF LockTyped, LockOK
<1>3. \A a \in Alias : t \in Waiters(T, a) <=> Busy(T[t]) /\ T[t].alias = a
  BY DEF Waiters
<1>w. ASSUME NEW a \in Alias
      PROVE  /\ Busy(T2[t]) /\ T2[t].alias = a =>
                  Waiters(T2, a) = Waiters(T, a) \cup {t}
             /\ (Busy(T[t]) => T[t].alias # a) /\ (Busy(T2[t]) => T2[t].alias # a) =>
                  Waiters(T2, a) = Waiters(T, a)
             /\ ~Busy(T2[t]) => Waiters(T2, a) = Waiters(T, a) \ {t}
  BY WaitersAfter
<1>4. CASE Stays(T, L, t, T2[t]) /\ M = L
  <2>1. ASSUME NEW a \in Alias PROVE Queue(M[a], Waiters(T2, a))
    <3>1. (Busy(T2[t]) /\ T2[t].alias = a) <=> t \in Waiters(T, a)
      BY <1>3, <1>4 DEF Stays
    <3>2. Waiters(T2, a) = Waiters(T, a)
      <4>1. CASE Busy(T2[t]) /\ T2[t].alias = a
        <5>1. Waiters(T2, a) = Waiters(T, a) \cup {t}
          BY <4>1, <1>w
        <5> QED
          BY <3>1, <4>1, <5>1
      <4>2. CASE ~(Busy(T2[t]) /\ T2[t].alias = a)
        BY <1>3, <3>1, <4>2, <1>w
      <4> QED
        BY <4>1, <4>2
    <3> QED
      BY <1>2, <1>4, <3>2
  <2>2. ASSUME NEW u \in Task, Holding(T2[u]) PROVE Head(M[T2[u].alias]) = u
    <3>1. CASE u = t
      BY <1>1, <1>4, <2>2, <3>1 DEF Stays, Busy
    <3>2. CASE u # t
      BY <1>1, <1>4, <2>2, <3>2 DEF Changes
    <3> QED
      BY <3>1, <3>2
  <2> QED
    BY <1>1, <1>4, <2>1, <2>2 DEF LockOK
<1>5. CASE Joins(T, L, t, T2[t]) /\ M = [L EXCEPT ![T2[t].alias] = Append(@, t)]
  <2> DEFINE a == T2[t].alias
             q == Append(L[a], t)
  <2>1. /\ a \in Alias /\ Busy(T2[t]) /\ T2[t].alias = a /\ ~Busy(T[t])
        /\ Holding(T2[t]) => L[a] = <<>>
    BY <1>5 DEF Joins
  <2>2. M = [L EXCEPT ![a] = q]
    BY <1>5
  <2> HIDE DEF a
  <2>3. Queue(q, Waiters(T, a) \cup {t}) /\ (L[a] # <<>> => Head(q) = Head(L[a]))
        /\ (L[a] = <<>> => Head(q) = t)
    BY <1>2, <1>3, <2>1, QueueJoin
  <2>4. Waiters(T2, a) = Waiters(T, a) \cup {t}
    BY <2>1, <1>w
  <2>5. \A u \in Waiters(T, a) : L[a] # <<>>
    BY <1>2, <2>1 DEF Queue, Waiters
  <2> HIDE DEF q
  <2>6. Requeued(L, a, q, M)
    BY <1>1, <2>1, <2>2, <2>3, ExceptIsRequeued DEF Queue
  <2>7. \A u \in Waiters(T, a) : u # t /\ Head(L[a]) = u => Head(q) = u
    BY <2>3, <2>5
  <2>8. Queue(q, Waiters(T2, a)) /\ (Holding(T2[t]) => Head(q) = t)
    BY <2>1, <2>3, <2>4
  <2>9. LockOK(T2, M)
    BY <2>1, <2>6, <2>7, <2>8, LockEdit
  <2> QED
    BY <2>6, <2>9 DEF Requeued
<1>6. CASE Holding(T[t]) /\ ~Busy(T2[t]) /\ M = [L EXCEPT ![T[t].alias] = Tail(@)]
  <2> DEFINE a == T[t].alias
             q == Tail(L[a])
  <2>1. /\ a \in Alias /\ T[t].alias = a /\ Busy(T[t]) /\ ~Busy(T2[t]) /\ ~Holding(T2[t])
        /\ Head(L[a]) = t /\ t \in Waiters(T, a)
    BY <1>1, <1>3, <1>6 DEF Busy
  <2>2. M = [L EXCEPT ![a] = q]
    BY <1>6
  <2> HIDE DEF a
  <2>3. Queue(q, Waiters(T, a) \ {t})
    BY <1>2, <2>1, QueueRelease
  <2>4. Waiters(T2, a) = Waiters(T, a) \ {t}
    BY <2>1, <1>w
  <2> HIDE DEF q
  <2>6. Requeued(L, a, q, M)
    BY <1>1, <2>1, <2>2, <2>3, ExceptIsRequeued DEF Queue
  <2>7. \A u \in Waiters(T, a) : u # t /\ Head(L[a]) = u => Head(q) = u
    BY <2>1
  <2>8. LockOK(T2, M)
    BY <2>1, <2>3, <2>4, <2>6, <2>7, LockEdit
  <2> QED
    BY <2>6, <2>8 DEF Requeued
<1>7. CASE /\ ~Busy(T2[t]) /\ T[t].alias \in Alias
           /\ M = [L EXCEPT ![T[t].alias] = Without(@, t)]
  <2> DEFINE a == T[t].alias
             q == Without(L[a], t)
  <2>1. a \in Alias /\ T[t].alias = a /\ ~Busy(T2[t]) /\ ~Holding(T2[t])
    BY <1>7 DEF Busy
  <2>2. M = [L EXCEPT ![a] = q]
    BY <1>7
  <2> HIDE DEF a
  <2>3. Queue(q, Waiters(T, a) \ {t})
        /\ \A u \in Waiters(T, a) : u # t /\ Head(L[a]) = u => Head(q) = u
    BY <1>2, <2>1, QueueWithout
  <2>4. Waiters(T2, a) = Waiters(T, a) \ {t}
    BY <2>1, <1>w
  <2> HIDE DEF q
  <2>6. Requeued(L, a, q, M)
    BY <1>1, <2>1, <2>2, <2>3, ExceptIsRequeued DEF Queue
  <2>8. LockOK(T2, M)
    BY <2>1, <2>3, <2>4, <2>6, LockEdit
  <2> QED
    BY <2>6, <2>8 DEF Requeued
<1>8. CASE /\ Holding(T[t]) /\ Requeues(T, t, T2[t])
           /\ M = [L EXCEPT ![T2[t].alias] = Append(Tail(@), t)]
  <2> DEFINE a == T2[t].alias
             w == Tail(L[a])
             q == Append(w, t)
  <2>1. /\ a \in Alias /\ T[t].alias = a /\ T2[t].alias = a
        /\ Busy(T2[t]) /\ ~Holding(T2[t]) /\ Head(L[a]) = t /\ t \in Waiters(T, a)
    BY <1>1, <1>3, <1>8 DEF Busy, Requeues
  <2>2. M = [L EXCEPT ![a] = q]
    BY <1>8
  <2> HIDE DEF a
  <2>3. Queue(w, Waiters(T, a) \ {t})
    BY <1>2, <2>1, QueueRelease
  <2> HIDE DEF w
  <2>4. Queue(q, (Waiters(T, a) \ {t}) \cup {t})
    BY <2>3, QueueJoin
  <2>5. Waiters(T2, a) = (Waiters(T, a) \ {t}) \cup {t}
    <3>1. Waiters(T2, a) = Waiters(T, a) \cup {t}
      BY <2>1, <1>w
    <3> QED
      BY <3>1
  <2> HIDE DEF q
  <2>6. Requeued(L, a, q, M)
    BY <1>1, <2>1, <2>2, <2>4, ExceptIsRequeued DEF Queue
  <2>7. \A u \in Waiters(T, a) : u # t /\ Head(L[a]) = u => Head(q) = u
    BY <2>1
  <2>8. LockOK(T2, M)
    BY <2>1, <2>4, <2>5, <2>6, <2>7, LockEdit
  <2> QED
    BY <2>6, <2>8 DEF Requeued
<1>9. CASE /\ Requeues(T, t, T2[t])
           /\ M = [L EXCEPT ![T2[t].alias] = Append(Without(@, t), t)]
  <2> DEFINE a == T2[t].alias
             w == Without(L[a], t)
             q == Append(w, t)
  <2>1. /\ a \in Alias /\ T[t].alias = a /\ T2[t].alias = a
        /\ Busy(T2[t]) /\ ~Holding(T2[t]) /\ t \in Waiters(T, a)
    BY <1>3, <1>9 DEF Busy, Requeues
  <2>2. M = [L EXCEPT ![a] = q]
    BY <1>9
  <2> HIDE DEF a
  <2>3. Queue(w, Waiters(T, a) \ {t})
        /\ \A u \in Waiters(T, a) : u # t /\ Head(L[a]) = u => Head(w) = u
    BY <1>2, <2>1, QueueWithout
  <2> HIDE DEF w
  <2>4. Queue(q, (Waiters(T, a) \ {t}) \cup {t}) /\ (w # <<>> => Head(q) = Head(w))
    BY <2>3, QueueJoin
  <2>5. Waiters(T2, a) = (Waiters(T, a) \ {t}) \cup {t}
    <3>1. Waiters(T2, a) = Waiters(T, a) \cup {t}
      BY <2>1, <1>w
    <3> QED
      BY <3>1
  <2>6. \A u \in Waiters(T, a) : u # t => w # <<>>
    BY <2>3 DEF Queue, Waiters
  <2> HIDE DEF q
  <2>7. Requeued(L, a, q, M)
    BY <1>1, <2>1, <2>2, <2>4, ExceptIsRequeued DEF Queue
  <2>8. \A u \in Waiters(T, a) : u # t /\ Head(L[a]) = u => Head(q) = u
    BY <2>3, <2>4, <2>6
  <2>9. Queue(q, Waiters(T2, a))
    BY <2>4, <2>5
  <2>10. LockOK(T2, M)
    BY <2>1, <2>7, <2>8, <2>9, LockEdit
  <2> QED
    BY <2>7, <2>10 DEF Requeued
<1> QED
  BY <1>4, <1>5, <1>6, <1>7, <1>8, <1>9 DEF LockMove

-----------------------------------------------------------------------------
(***************************************************************************)
(* The steps as moves.                                                     *)
(***************************************************************************)
\* A task sets up a connection nothing names, and no connection being set up
\* gets a watcher.
FreshMove(T, t, r) ==
  /\ Fresh(r) =>
       \/ Fresh(T[t]) /\ r.c = T[t].c
       \/ r.c \in Conn /\ r.c # t /\ T[r.c].pc = "idle" /\ \A u \in Task : T[u].c # r.c
  /\ t \in Conn /\ T[t].pc = "idle" =>
       r.pc = "idle" \/ \A u \in Task : Fresh(T[u]) => T[u].c # t

\* Connections being set up stay distinct and unwatched.
LEMMA FreshMoveKeeps ==
  ASSUME NEW T, FreshOK(T), NEW t \in Task, NEW T2, Changes(T, t, T2), FreshMove(T, t, T2[t])
  PROVE  FreshOK(T2)
<1>1. \A u \in Task : u # t => T2[u] = T[u]
  BY DEF Changes
<1>2. \A u \in Task : Fresh(T[u]) => T[u].c \in Conn /\ T[T[u].c].pc = "idle" /\ T[u].pc # "idle"
  BY DEF FreshOK, Fresh
<1>3. ASSUME NEW u \in Task, Fresh(T2[u]) PROVE T2[u].c \in Conn /\ T2[T2[u].c].pc = "idle"
  <2>1. Conn \subseteq Task
    BY DEF Task
  <2>2. CASE u = t
    BY <1>1, <1>2, <1>3, <2>1, <2>2 DEF FreshMove
  <2>3. CASE u # t
    BY <1>1, <1>2, <1>3, <2>1, <2>3 DEF FreshMove
  <2> QED
    BY <2>2, <2>3
<1>4. ASSUME NEW u \in Task, NEW v \in Task, Fresh(T2[u]), Fresh(T2[v]), T2[u].c = T2[v].c
      PROVE  u = v
  BY <1>1, <1>4 DEF FreshMove, FreshOK
<1> QED
  BY <1>3, <1>4 DEF FreshOK

\* Task t takes a step and no other record changes.
Moves(t) ==
  /\ Changes(task, t, task')
  /\ ShapeOK(t, task'[t])
  /\ LockMove(task, lock, t, task'[t], lock')
  /\ FreshMove(task, t, task'[t])

\* What the lemmas about single actions assume.
MoveInv == TypeOK /\ TaskShape /\ LockOrder /\ FreshConnections

\* How a new record for one task is shown to be a move.
LEMMA MovesTo ==
  ASSUME MoveInv, NEW t \in Task, NEW r, task' = [task EXCEPT ![t] = r], ShapeOK(t, r),
         LockMove(task, lock, t, r, lock'), FreshMove(task, t, r)
  PROVE  Moves(t)
<1>1. task \in [Task -> TaskRecord] /\ r \in TaskRecord
  BY DEF MoveInv, TypeOK, ShapeOK
<1>2. task'[t] = r /\ Changes(task, t, task')
  BY <1>1 DEF Changes
<1> QED
  BY <1>2 DEF Moves

\* The awaits of the start task are labels.
LEMMA StartLabels ==
  /\ "idle" \in Label /\ "connect" \in Label /\ "install" \in Label /\ "start" \in Label
  /\ "identity" \in Label /\ "forward" \in Label /\ "tunnel" \in Label
  /\ "verify" \in Label /\ "ready" \in Label /\ "unhandled" \in Label
  /\ "ready_read" \in Label /\ "watcher" \in Label /\ "listener" \in Label
  /\ "undo_remote" \in Label /\ "undo_conn" \in Label /\ "mark" \in Label
BY DEF Label, StartPcs

\* The kinds of a task.
LEMMA KindsTyped ==
  /\ "none" \in Kind /\ "open" \in Kind /\ "close" \in Kind /\ "force" \in Kind
  /\ "retry" \in Kind /\ "start" \in Kind /\ "watch" \in Kind /\ "boot" \in Kind
BY DEF Kind

\* Every stored error code can be raised.
LEMMA ExcTyped ==
  ErrorCode \subseteq Raised /\ "none" \in ErrorCode /\ "internal" \in ErrorCode
  /\ "other" \in ErrorCode /\ "pre_remote" \in ErrorCode
BY DEF Raised, ErrorCode

\* What the ledgers of the start task and of an attempt may hold.
LEMMA LedgerTyped ==
  /\ {} \in Ledger /\ {"remote"} \in Ledger /\ {"completed"} \in Ledger
  /\ \A l \in Ledger : l \cup {"identity"} \in Ledger /\ l \cup {"registry"} \in Ledger
       /\ l \cup {"ready"} \in Ledger
BY DEF Ledger

\* The empty tunnel has no connection.
LEMMA NoTunnelTyped == NoTunnel \in Tunnel /\ NoTunnel.c = None
BY DEF NoTunnel, Tunnel

\* The record of a task that does not run.
LEMMA IdleTyped == 
  /\ IdleTask \in TaskRecord /\ IdleTask.pc = "idle" /\ IdleTask.kind = "none"
  /\ IdleTask.alias = None /\ IdleTask.sid = None /\ IdleTask.exc = "none"
<1> USE StartLabels, KindsTyped, ExcTyped, LedgerTyped, NoTunnelTyped, ServiceAssumption, NoRowIsRow
<1>1. None \in Conn \cup {None} /\ 0 \in 0..MaxTries
  OBVIOUS
<1> QED
  BY <1>1 DEF IdleTask, TaskRecord

\* A start task never waits for a lock, and is a start task.
LEMMA StartShape ==
  ASSUME MoveInv, NEW s \in Sid
  PROVE  /\ s \in Task /\ task \in [Task -> TaskRecord] /\ lock \in [Alias -> Seq(Task)]
         /\ task[s] \in TaskRecord /\ ~Busy(task[s]) /\ task[s].kind \in {"none", "start"}
         /\ task[s].pc # "idle" => task[s].kind = "start" /\ task[s].sid \in Sid /\ task[s].exc \in ErrorCode
         /\ row[s] \in Row /\ tunnels[s] \in Tunnel /\ tunnels[s].c \in Conn \cup {None}
<1>1. s \in Task /\ task \in [Task -> TaskRecord] /\ lock \in [Alias -> Seq(Task)] /\ ShapeOK(s, task[s])
      /\ row[s] \in Row /\ tunnels[s] \in Tunnel
  BY DEF MoveInv, TypeOK, TaskShape, Task, StoreTypeOK
<1>2. task[s].kind \in {"none", "start"} /\ Suspended(task[s])
  BY <1>1, ServiceAssumption DEF ShapeOK, KindOK
<1>3. task[s].kind = "none" => task[s].pc = "idle"
  BY <1>2 DEF Suspended
<1>4. task[s].kind = "start" => task[s].pc \in StartPcs
  BY <1>2 DEF Suspended
<1>5. ~Busy(task[s])
  BY <1>2, <1>3, <1>4 DEF Busy, Queued, Holding, StartPcs, DoClosePcs, ReattachPcs
<1>6. task[s].pc # "idle" => task[s].sid \in Sid
  BY <1>1, <1>2, <1>3, <1>4 DEF ShapeOK, StartPcs
<1> QED
  BY <1>1, <1>2, <1>3, <1>5, <1>6 DEF ShapeOK, Tunnel

\* A step of a start task.
LEMMA StartMove ==
  ASSUME MoveInv, NEW s \in Sid, NEW r \in TaskRecord, task' = [task EXCEPT ![s] = r],
         lock' = lock, FreshMove(task, s, r),
         \/ r.kind = "none" /\ r.pc = "idle"
         \/ r.kind = "start" /\ r.pc \in StartPcs /\ r.sid \in Sid /\ r.exc \in ErrorCode
  PROVE  Moves(s)
<1>1. s \in Task /\ ~Busy(task[s])
  BY StartShape
<1>2. ~Busy(r)
  BY DEF Busy, Queued, Holding, StartPcs, DoClosePcs, ReattachPcs
<1>3. Suspended(r) /\ KindOK(s, r.kind) /\ r.pc \notin {"looked_up", "backoff", "next_row"}
  BY DEF Suspended, KindOK, StartPcs
<1>4. ShapeOK(s, r)
  BY <1>2, <1>3 DEF ShapeOK
<1>5. LockMove(task, lock, s, r, lock')
  BY <1>1, <1>2 DEF LockMove, Stays, Busy
<1> QED
  BY <1>1, <1>4, <1>5, MovesTo

\* A start task moves on: what its record is before, and after an edit.
LEMMA StartFacts ==
  ASSUME MoveInv, NEW s \in Sid, task[s].pc # "idle"
  PROVE  /\ task[s] \in TaskRecord /\ task[s].kind = "start" /\ task[s].sid \in Sid
         /\ task[s].exc \in ErrorCode /\ task[s].ledger \in Ledger
         /\ row[s] \in Row /\ tunnels[s] \in Tunnel
<1>1. task[s] \in TaskRecord
  BY StartShape
<1>2. task[s].ledger \in Ledger
  BY <1>1 DEF TaskRecord
<1> QED
  BY <1>2, StartShape

\* The start task goes on to another await with the same locals.
LEMMA StartGoes ==
  ASSUME MoveInv, NEW s \in Sid, task[s].pc # "idle", NEW p \in StartPcs,
         Goto(s, p), lock' = lock, Fresh([pc |-> p]) => Fresh(task[s])
  PROVE  Moves(s)
<1> DEFINE r == [task[s] EXCEPT !.pc = p]
<1>1. p \in Label
  BY DEF Label
<1>2. task[s] \in TaskRecord /\ task[s].kind = "start" /\ task[s].sid \in Sid /\ task[s].exc \in ErrorCode
  BY StartFacts
<1>3. /\ r \in TaskRecord /\ r.kind = "start" /\ r.pc = p /\ r.sid \in Sid
      /\ r.exc \in ErrorCode /\ r.c = task[s].c
  BY <1>1, <1>2 DEF TaskRecord
<1>4. task' = [task EXCEPT ![s] = r]
  BY StartShape DEF Goto
<1> HIDE DEF r
<1>5. FreshMove(task, s, r)
  BY <1>3, ServiceAssumption DEF FreshMove, Fresh
<1> QED
  BY <1>3, <1>4, <1>5, StartMove

\* The start task ends.
LEMMA StartEnds ==
  ASSUME MoveInv, NEW s \in Sid, End(s), lock' = lock
  PROVE  Moves(s)
<1>1. FreshMove(task, s, IdleTask)
  BY IdleTyped DEF FreshMove, Fresh
<1> QED
  BY <1>1, IdleTyped, StartMove DEF End, Become

\* A new connection is named by no task.
LEMMA ConnectsFresh ==
  ASSUME NEW c \in Conn, Connects(c)
  PROVE  task[c].pc = "idle" /\ \A t \in Task : task[t].c # c
<1>1. c \in FreeConn
  BY DEF Connects, NewConn
<1> QED
  BY <1>1 DEF FreeConn, Active

\* connect_for_session of the start task.
LEMMA StartConnectsMoves ==
  ASSUME MoveInv, NEW s \in Sid, StartConnects(s)
  PROVE  Moves(s)
<1>1. /\ task[s] \in TaskRecord /\ task[s].kind = "start" /\ task[s].sid \in Sid
      /\ task[s].exc \in ErrorCode /\ row[s] \in Row /\ task[s].pc = "connect"
  BY StartFacts DEF StartConnects, Resumes, At
<1>2. lock' = lock
  BY DEF StartConnects
<1>3. ASSUME NEW c \in Conn, Connects(c), Become(s, [task[s] EXCEPT !.pc = "install", !.c = c])
      PROVE  Moves(s)
  <2> DEFINE r == [task[s] EXCEPT !.pc = "install", !.c = c]
  <2>1. "install" \in Label
    BY StartLabels
  <2>2. /\ r \in TaskRecord /\ r.kind = "start" /\ r.pc = "install" /\ r.sid \in Sid
        /\ r.exc \in ErrorCode /\ r.c = c
    BY <1>1, <2>1 DEF TaskRecord
  <2>3. task' = [task EXCEPT ![s] = r]
    BY <1>3 DEF Become
  <2> HIDE DEF r
  <2>4. c # s /\ s \notin Conn
    BY ServiceAssumption
  <2>5. FreshMove(task, s, r)
    BY <1>3, <2>2, <2>4, ConnectsFresh DEF FreshMove
  <2> QED
    BY <1>2, <2>2, <2>3, <2>5, StartMove DEF StartPcs
<1>4. CASE Become(s, [task[s] EXCEPT !.pc = "unhandled", !.rec = row[s]])
  <2> DEFINE r == [task[s] EXCEPT !.pc = "unhandled", !.rec = row[s]]
  <2>1. "unhandled" \in Label
    BY StartLabels
  <2>2. /\ r \in TaskRecord /\ r.kind = "start" /\ r.pc = "unhandled" /\ r.sid \in Sid
        /\ r.exc \in ErrorCode
    BY <1>1, <2>1 DEF TaskRecord
  <2>3. task' = [task EXCEPT ![s] = r]
    BY <1>4 DEF Become
  <2> HIDE DEF r
  <2>4. FreshMove(task, s, r)
    BY <2>2, ServiceAssumption DEF FreshMove, Fresh
  <2> QED
    BY <1>2, <2>2, <2>3, <2>4, StartMove DEF StartPcs
<1> QED
  BY <1>3, <1>4 DEF StartConnects

\* The start task's steps that store a ledger.
LEMMA StartNotes ==
  ASSUME MoveInv, NEW s \in Sid, task[s].pc # "idle", NEW p \in StartPcs, NEW l \in Ledger,
         Become(s, [task[s] EXCEPT !.pc = p, !.ledger = l]), lock' = lock,
         Fresh([pc |-> p]) => Fresh(task[s])
  PROVE  Moves(s)
<1> DEFINE r == [task[s] EXCEPT !.pc = p, !.ledger = l]
<1>1. p \in Label
  BY DEF Label
<1>2. task[s] \in TaskRecord /\ task[s].kind = "start" /\ task[s].sid \in Sid /\ task[s].exc \in ErrorCode
  BY StartFacts
<1>3. /\ r \in TaskRecord /\ r.kind = "start" /\ r.pc = p /\ r.sid \in Sid
      /\ r.exc \in ErrorCode /\ r.c = task[s].c
  BY <1>1, <1>2 DEF TaskRecord
<1>4. task' = [task EXCEPT ![s] = r]
  BY DEF Become
<1> HIDE DEF r
<1>5. FreshMove(task, s, r)
  BY <1>3, ServiceAssumption DEF FreshMove, Fresh
<1> QED
  BY <1>3, <1>4, <1>5, StartMove

\* The other awaits of _do_open, up to its end.
LEMMA StartBodyMoves ==
  ASSUME MoveInv, NEW s \in Sid,
         \/ StartInstalls(s) \/ StartLaunches(s) \/ StartForwards(s) \/ StartForwarded(s)
         \/ StartVerifies(s) \/ StartDone(s) \/ StartUnhandled(s)
  PROVE  Moves(s)
<1>1. ASSUME task[s].pc # "idle" PROVE task[s].ledger \in Ledger
  BY <1>1, StartFacts
<1>2. CASE StartInstalls(s)
  BY <1>2, StartGoes DEF StartInstalls, Resumes, At, StartPcs, Fresh
<1>3. CASE StartLaunches(s)
  BY <1>3, StartNotes, LedgerTyped DEF StartLaunches, Resumes, At, StartPcs, Fresh
<1>4. CASE StartForwards(s)
  <2>1. task[s].ledger \cup {"identity"} \in Ledger
    BY <1>1, <1>4, LedgerTyped DEF StartForwards, Resumes, At
  <2> QED
    BY <1>4, <2>1, StartNotes DEF StartForwards, Resumes, At, StartPcs, Fresh
<1>5. CASE StartForwarded(s)
  BY <1>5, StartGoes DEF StartForwarded, Resumes, At, StartPcs, Fresh
<1>6. CASE StartVerifies(s)
  <2>1. task[s].ledger \cup {"ready"} \in Ledger
    BY <1>1, <1>6, LedgerTyped DEF StartVerifies, Resumes, At
  <2> QED
    BY <1>6, <2>1, StartNotes DEF StartVerifies, Resumes, At, StartPcs, Fresh
<1>7. CASE StartDone(s)
  BY <1>7, StartEnds DEF StartDone
<1>8. CASE StartUnhandled(s)
  BY <1>8, StartEnds DEF StartUnhandled
<1> QED
  BY <1>2, <1>3, <1>4, <1>5, <1>6, <1>7, <1>8

\* Where the cleanup goes on once the tunnel is gone.
LEMMA AfterTunnelIsCleanup ==
  ASSUME NEW s
  PROVE  AfterTunnel(s) \in {"mark", "undo_remote", "undo_conn"}
BY DEF AfterTunnel

\* A failure or a cancellation leaves the body, and the cleanup goes on.
LEMMA DropLocalMoves ==
  ASSUME MoveInv, NEW s \in Sid, task[s].pc # "idle", NEW exc \in ErrorCode,
         DropLocal(s, exc), lock' = lock
  PROVE  Moves(s)
<1> DEFINE p == IF tunnels[s].c = None THEN AfterTunnel(s) ELSE "watcher"
           r == [task[s] EXCEPT !.exc = exc, !.old = tunnels[s], !.rec = row[s], !.pc = p]
<1>1. p \in Label /\ p \in StartPcs /\ ~Fresh([pc |-> p])
  BY StartLabels, AfterTunnelIsCleanup DEF StartPcs, Fresh
<1>2. /\ task[s] \in TaskRecord /\ task[s].kind = "start" /\ task[s].sid \in Sid
      /\ row[s] \in Row /\ tunnels[s] \in Tunnel
  BY StartFacts
<1>3. exc \in Raised
  BY ExcTyped
<1>4. task' = [task EXCEPT ![s] = r]
  BY DEF DropLocal, Become
<1> HIDE DEF p
<1>5. /\ r \in TaskRecord /\ r.kind = "start" /\ r.pc = p /\ r.sid \in Sid /\ r.exc = exc
  BY <1>1, <1>2, <1>3 DEF TaskRecord
<1> HIDE DEF r
<1>6. FreshMove(task, s, r)
  BY <1>1, <1>5, ServiceAssumption DEF FreshMove, Fresh
<1> QED
  BY <1>1, <1>4, <1>5, <1>6, StartMove

\* The cleanup begins, after mark_ready or with the tunnel.
LEMMA CleansUpMoves ==
  ASSUME MoveInv, NEW s \in Sid, task[s].pc # "idle", NEW exc \in ErrorCode,
         CleansUp(s, exc), lock' = lock
  PROVE  Moves(s)
<1>1. CASE DropLocal(s, exc)
  BY <1>1, DropLocalMoves
<1>2. CASE Become(s, [task[s] EXCEPT !.pc = "ready_read", !.exc = exc, !.rec = row[s]])
  <2> DEFINE r == [task[s] EXCEPT !.pc = "ready_read", !.exc = exc, !.rec = row[s]]
  <2>1. /\ task[s] \in TaskRecord /\ task[s].kind = "start" /\ task[s].sid \in Sid
        /\ row[s] \in Row
    BY StartFacts
  <2>2. "ready_read" \in Label /\ exc \in Raised
    BY StartLabels, ExcTyped
  <2>3. /\ r \in TaskRecord /\ r.kind = "start" /\ r.pc = "ready_read" /\ r.sid \in Sid
        /\ r.exc = exc
    BY <2>1, <2>2 DEF TaskRecord
  <2>4. task' = [task EXCEPT ![s] = r]
    BY <1>2 DEF Become
  <2> HIDE DEF r
  <2>5. FreshMove(task, s, r)
    BY <2>3, ServiceAssumption DEF FreshMove, Fresh
  <2> QED
    BY <2>3, <2>4, <2>5, StartMove DEF StartPcs
<1> QED
  BY <1>1, <1>2 DEF CleansUp

\* An error or a cancellation ends the body of _do_open.
LEMMA StartEndsBodyMoves ==
  ASSUME MoveInv, NEW s \in Sid, StartCancelled(s) \/ StartFails(s)
  PROVE  Moves(s)
<1>1. FailureCode(s) \in ErrorCode
  BY ExcTyped DEF FailureCode
<1>2. CASE StartCancelled(s)
  <2>1. task[s].pc # "idle" /\ CleansUp(s, "internal") /\ lock' = lock
    BY <1>2 DEF StartCancelled
  <2> QED
    BY <2>1, ExcTyped, CleansUpMoves
<1>3. CASE StartFails(s)
  <2>1. task[s].pc # "idle" /\ lock' = lock
        /\ (CleansUp(s, "other") \/ CleansUp(s, FailureCode(s)))
    BY <1>3 DEF StartFails, At
  <2> QED
    BY <1>1, <2>1, ExcTyped, CleansUpMoves
<1> QED
  BY <1>2, <1>3

\* The awaits of _open_failure_cleanup.
LEMMA CleanupMoves ==
  ASSUME MoveInv, NEW s \in Sid,
         \/ CleanupCancelled(s) \/ CleanupDecides(s) \/ CleanupWatcherEnded(s)
         \/ CleanupListener(s) \/ CleanupRemote(s) \/ CleanupMarks(s)
  PROVE  Moves(s)
<1>1. CASE CleanupCancelled(s)
  BY <1>1, StartEnds DEF CleanupCancelled
<1>2. CASE CleanupDecides(s)
  <2>1. task[s].pc # "idle" /\ lock' = lock /\ (End(s) \/ DropLocal(s, task[s].exc))
    BY <1>2 DEF CleanupDecides, Resumes, At
  <2>2. task[s].exc \in ErrorCode
    BY <2>1, StartFacts
  <2> QED
    BY <2>1, <2>2, DropLocalMoves, StartEnds
<1>3. CASE CleanupWatcherEnded(s)
  BY <1>3, StartGoes DEF CleanupWatcherEnded, At, StartPcs, Fresh
<1>4. CASE CleanupListener(s)
  <2>1. task[s].pc # "idle" /\ lock' = lock /\ Goto(s, AfterTunnel(s))
    BY <1>4 DEF CleanupListener, Resumes, At
  <2>2. AfterTunnel(s) \in StartPcs /\ ~Fresh([pc |-> AfterTunnel(s)])
    BY AfterTunnelIsCleanup DEF StartPcs, Fresh
  <2> QED
    BY <2>1, <2>2, StartGoes
<1>5. CASE CleanupRemote(s)
  BY <1>5, StartGoes DEF CleanupRemote, Resumes, At, StartPcs, Fresh
<1>6. CASE CleanupMarks(s)
  BY <1>6, StartEnds DEF CleanupMarks
<1> QED
  BY <1>1, <1>2, <1>3, <1>4, <1>5, <1>6

\* The cleanup closes its connection.
LEMMA CleanupConnMoves ==
  ASSUME MoveInv, NEW s \in Sid, CleanupConn(s)
  PROVE  Moves(s)
<1> DEFINE r == [task[s] EXCEPT !.pc = "mark", !.c = None, !.old = NoTunnel, !.rec = row[s]]
<1>1. task[s].pc # "idle" /\ lock' = lock /\ task' = [task EXCEPT ![s] = r]
  BY DEF CleanupConn, Resumes, At, Become
<1>2. /\ task[s] \in TaskRecord /\ task[s].kind = "start" /\ task[s].sid \in Sid
      /\ task[s].exc \in ErrorCode /\ row[s] \in Row
  BY <1>1, StartFacts
<1>3. "mark" \in Label /\ NoTunnel \in Tunnel
  BY StartLabels, NoTunnelTyped
<1>4. /\ r \in TaskRecord /\ r.kind = "start" /\ r.pc = "mark" /\ r.sid \in Sid
      /\ r.exc \in ErrorCode
  BY <1>2, <1>3 DEF TaskRecord
<1> HIDE DEF r
<1>5. FreshMove(task, s, r)
  BY <1>4, ServiceAssumption DEF FreshMove, Fresh
<1> QED
  BY <1>1, <1>4, <1>5, StartMove DEF StartPcs

\* Every step of a start task but the publication is a move of its own.
LEMMA StartStepMoves ==
  ASSUME MoveInv, NEW s \in Sid, StartStep(s), ~StartPublishes(s)
  PROVE  Moves(s)
BY StartConnectsMoves, StartBodyMoves, StartEndsBodyMoves, CleanupMoves, CleanupConnMoves
   DEF StartStep

-----------------------------------------------------------------------------
(***************************************************************************)
(* Steps that end a task or, for startup recovery, its row.                *)
(***************************************************************************)
\* A task that does not run has nothing.
LEMMA IdleShape ==
  ASSUME NEW t
  PROVE  ShapeOK(t, IdleTask) /\ ~Busy(IdleTask) /\ FreshMove(task, t, IdleTask)
BY IdleTyped DEF ShapeOK, KindOK, Suspended, Busy, Queued, Holding, FreshMove, Fresh,
   DoClosePcs, ReattachPcs

\* A task ends: it releases its lock, leaves its queue, or had neither.
LEMMA EndMoves ==
  ASSUME MoveInv, NEW t \in Task, End(t),
         \/ Holding(task[t]) /\ Release(task[t].alias)
         \/ ~Busy(task[t]) /\ lock' = lock
         \/ task[t].alias \in Alias /\ Leave(t, task[t].alias)
  PROVE  Moves(t)
<1>1. task' = [task EXCEPT ![t] = IdleTask]
  BY DEF End, Become
<1>2. LockMove(task, lock, t, IdleTask, lock')
  BY IdleShape DEF LockMove, Stays, Release, Leave, Busy
<1> QED
  BY <1>1, <1>2, IdleShape, MovesTo

\* The recovery task between two rows.
NextRowTask == [IdleTask EXCEPT !.pc = "next_row", !.kind = "boot"]

\* Between two rows recovery holds no lock.
LEMMA NextRowShape ==
  ShapeOK(Boot, NextRowTask) /\ ~Busy(NextRowTask) /\ FreshMove(task, Boot, NextRowTask)
<1>1. "next_row" \in Label /\ "boot" \in Kind
  BY DEF Label, Kind, BootPcs
<1>2. /\ NextRowTask \in TaskRecord /\ NextRowTask.pc = "next_row" /\ NextRowTask.kind = "boot"
      /\ NextRowTask.sid = None
  BY <1>1, IdleTyped DEF NextRowTask, TaskRecord
<1>3. Boot \notin Conn
  BY ServiceAssumption
<1> QED
  BY <1>2, <1>3 DEF ShapeOK, KindOK, Suspended, Busy, Queued, Holding, FreshMove, Fresh,
     DoClosePcs, ReattachPcs, BootPcs

\* Recovery releases a row's lock and turns to the next row.
LEMMA NextRowMoves ==
  ASSUME MoveInv, NextRow(task[Boot]), Holding(task[Boot])
  PROVE  Moves(Boot)
<1>1. task' = [task EXCEPT ![Boot] = NextRowTask] /\ Boot \in Task
  BY DEF NextRow, Become, NextRowTask, Task
<1>2. LockMove(task, lock, Boot, NextRowTask, lock')
  BY NextRowShape DEF LockMove, NextRow, Unlocks, Release
<1> QED
  BY <1>1, <1>2, NextRowShape, MovesTo

-----------------------------------------------------------------------------
(***************************************************************************)
(* _do_close: with the lock of its alias, or in the background.            *)
(***************************************************************************)
\* What the invariant says of any task.
LEMMA TaskFacts ==
  ASSUME MoveInv, NEW t \in Task
  PROVE  /\ task[t] \in TaskRecord /\ KindOK(t, task[t].kind) /\ Suspended(task[t])
         /\ Busy(task[t]) => task[t].alias \in Alias
         /\ task[t].pc \notin {"idle", "enter", "looked_up", "next_row"} => task[t].sid \in Sid
         /\ task[t].rec \in Row /\ task[t].old \in Tunnel /\ task[t].c \in Conn \cup {None}
<1>1. ShapeOK(t, task[t])
  BY DEF MoveInv, TaskShape
<1> QED
  BY <1>1 DEF ShapeOK, TaskRecord

\* r could be the record of task t inside _do_close.
DoCloseTask(t, r) ==
  /\ r \in TaskRecord /\ r.pc \in DoClosePcs
  /\ r.kind \in {"close", "force", "retry", "boot"}
  /\ t \notin Conn /\ ((t \in Op /\ r.kind # "boot") \/ (t = Boot /\ r.kind = "boot"))
  /\ r.sid \in Sid /\ (r.kind # "close" => r.alias \in Alias)

\* What is known of a task inside _do_close.
LEMMA AtDoClose ==
  ASSUME MoveInv, NEW t \in Task, task[t].pc \in DoClosePcs
  PROVE  DoCloseTask(t, task[t])
<1>1. /\ task[t] \in TaskRecord /\ KindOK(t, task[t].kind) /\ Suspended(task[t])
      /\ Busy(task[t]) => task[t].alias \in Alias
      /\ task[t].pc \notin {"idle", "enter", "looked_up", "next_row"} => task[t].sid \in Sid
  BY TaskFacts
<1>2. task[t].kind \in {"close", "force", "retry", "boot"}
  BY <1>1 DEF Suspended, StartPcs, WatchPcs, ReattachPcs, DoClosePcs
<1>3. task[t].sid \in Sid
  BY <1>1 DEF DoClosePcs
<1>4. task[t].kind # "close" => task[t].alias \in Alias
  BY <1>1 DEF Busy, Holding
<1>5. t \notin Conn /\ ((t \in Op /\ task[t].kind # "boot") \/ (t = Boot /\ task[t].kind = "boot"))
  <2>1. \/ t \in Op /\ task[t].kind \in {"open", "close", "force", "retry"}
        \/ t = Boot /\ task[t].kind = "boot"
    BY <1>1, <1>2 DEF KindOK
  <2>2. \A u \in Op : u \notin Conn
    BY ServiceAssumption
  <2>3. Boot \notin Conn
    BY ServiceAssumption
  <2> QED
    BY <2>1, <2>2, <2>3
<1> QED
  BY <1>1, <1>2, <1>3, <1>4, <1>5 DEF DoCloseTask

\* A task inside _do_close holds its lock, unless it is a background close.
LEMMA DoCloseShape ==
  ASSUME NEW t, NEW r, DoCloseTask(t, r)
  PROVE  /\ ShapeOK(t, r) /\ FreshMove(task, t, r)
         /\ Busy(r) <=> r.kind # "close"
         /\ Holding(r) <=> r.kind # "close"
<1>0. r.pc \in DoClosePcs /\ r.kind \in {"close", "force", "retry", "boot"}
  BY DEF DoCloseTask
<1>a. ~Fresh(r) /\ ~Queued(r) /\ r.pc \notin {"backoff", "looked_up", "next_row", "idle"}
  BY <1>0 DEF Fresh, Queued, DoClosePcs
<1>b. r.kind # "close" => Holding(r)
  BY <1>0 DEF Holding
<1>c. r.pc \notin {"looked_up", "inserted", "stopping", "start_settles", "closed",
               "exit_checks", "close_lost", "attempt_checks", "lost_checks",
               "reattach", "check_closing", "check_remote", "check_done", "drop",
               "dropped", "clear_lost", "mark_lost"} \cup ReattachPcs
  BY <1>0 DEF DoClosePcs, ReattachPcs
<1>1. ~Fresh(r) /\ ~Queued(r) /\ (Holding(r) <=> r.kind # "close")
      /\ r.pc \notin {"backoff", "looked_up", "next_row", "idle"}
  BY <1>0, <1>a, <1>b, <1>c DEF Holding
<1>2. KindOK(t, r.kind) /\ Suspended(r)
  <2>1. r.pc # "do_close"
    BY <1>0 DEF DoClosePcs
  <2>2. r.pc \in ClosePcs /\ r.pc \in RetryPcs /\ r.pc \in BootPcs
    BY <1>0 DEF ClosePcs, RetryPcs, BootPcs
  <2>3. Suspended(r)
    BY <1>0, <2>1, <2>2 DEF Suspended
  <2>4. KindOK(t, r.kind)
    BY <1>0 DEF DoCloseTask, KindOK
  <2> QED
    BY <2>3, <2>4
<1>3. ShapeOK(t, r)
  BY <1>1, <1>2 DEF DoCloseTask, ShapeOK, Busy
<1> QED
  BY <1>1, <1>3 DEF DoCloseTask, FreshMove, Busy

\* A step within _do_close.
LEMMA DoCloseStays ==
  ASSUME MoveInv, NEW t \in Task, task[t].pc \in DoClosePcs, NEW r \in TaskRecord,
         task' = [task EXCEPT ![t] = r], lock' = lock, r.pc \in DoClosePcs,
         r.kind = task[t].kind, r.alias = task[t].alias, r.sid = task[t].sid
  PROVE  Moves(t)
<1>1. DoCloseTask(t, task[t])
  BY AtDoClose
<1>2. DoCloseTask(t, r)
  BY <1>1 DEF DoCloseTask
<1>3. LockMove(task, lock, t, r, lock')
  BY <1>1, <1>2, DoCloseShape DEF LockMove, Stays
<1> QED
  BY <1>2, <1>3, DoCloseShape, MovesTo

\* _do_close goes on with the same locals.
LEMMA DoCloseGoes ==
  ASSUME MoveInv, NEW t \in Task, task[t].pc \in DoClosePcs, NEW p \in DoClosePcs,
         Goto(t, p), lock' = lock
  PROVE  Moves(t)
<1> DEFINE r == [task[t] EXCEPT !.pc = p]
<1>1. p \in Label /\ task[t] \in TaskRecord
  BY TaskFacts DEF Label, ClosePcs
<1>2. /\ r \in TaskRecord /\ r.pc = p /\ r.kind = task[t].kind /\ r.alias = task[t].alias
      /\ r.sid = task[t].sid
  BY <1>1 DEF TaskRecord
<1>3. task' = [task EXCEPT ![t] = r]
  BY DEF Goto, MoveInv, TypeOK
<1> HIDE DEF r
<1> QED
  BY <1>2, <1>3, DoCloseStays

\* Back in the caller.
LEMMA DoCloseReturnsMoves ==
  ASSUME MoveInv, NEW t \in Task, task[t].pc \in DoClosePcs, row'[task[t].sid] \in Row,
         DoCloseReturns(t)
  PROVE  Moves(t)
<1>1. DoCloseTask(t, task[t])
  BY AtDoClose
<1>2. Holding(task[t]) <=> task[t].kind # "close"
  BY <1>1, DoCloseShape
<1>3. CASE task[t].kind = "close"
  <2>1. End(t) /\ lock' = lock /\ ~Busy(task[t])
    BY <1>1, <1>3, DoCloseShape DEF DoCloseReturns
  <2> QED
    BY <2>1, EndMoves
<1>4. CASE task[t].kind = "force"
  <2>1. End(t) /\ Release(task[t].alias)
    BY <1>4 DEF DoCloseReturns, Unlocks
  <2> QED
    BY <1>2, <1>4, <2>1, EndMoves
<1>5. CASE task[t].kind = "retry"
  <2> DEFINE r == [task[t] EXCEPT !.pc = "closed", !.rec = row'[task[t].sid]]
  <2>1. task' = [task EXCEPT ![t] = r] /\ lock' = lock
    BY <1>5 DEF DoCloseReturns, Become
  <2>2. "closed" \in Label /\ task[t] \in TaskRecord
    BY TaskFacts DEF Label, RetryPcs
  <2>3. /\ r \in TaskRecord /\ r.pc = "closed" /\ r.kind = "retry" /\ r.alias = task[t].alias
        /\ r.sid = task[t].sid
    BY <1>5, <2>2 DEF TaskRecord
  <2> HIDE DEF r
  <2>4. Holding(r) /\ Busy(r) /\ t \in Op /\ t \notin Conn
    BY <1>1, <1>5, <2>3 DEF Holding, Busy, DoCloseTask
  <2>a. r.sid \in Sid /\ r.alias \in Alias
    BY <1>1, <1>5, <2>3 DEF DoCloseTask
  <2>b. KindOK(t, r.kind) /\ Suspended(r)
    BY <2>3, <2>4 DEF KindOK, Suspended, RetryPcs
  <2>5. ShapeOK(t, r)
    BY <2>3, <2>4, <2>a, <2>b DEF ShapeOK
  <2>6. FreshMove(task, t, r)
    BY <2>3, <2>4 DEF FreshMove, Fresh
  <2>7. LockMove(task, lock, t, r, lock')
    BY <1>2, <1>5, <2>1, <2>3, <2>4 DEF LockMove, Stays, Busy
  <2> QED
    BY <2>1, <2>5, <2>6, <2>7, MovesTo
<1>6. CASE task[t].kind = "boot"
  <2>1. t = Boot /\ NextRow(task[Boot])
    BY <1>1, <1>6 DEF DoCloseReturns, DoCloseTask
  <2> QED
    BY <1>2, <1>6, <2>1, NextRowMoves
<1> QED
  BY <1>1, <1>3, <1>4, <1>5, <1>6 DEF DoCloseTask

\* q is a record of the same task, at work on the same session.
Like(q, r) == q \in TaskRecord /\ q.kind = r.kind /\ q.alias = r.alias /\ q.sid = r.sid

\* A call of _do_close by the task whose record is r.
LEMMA DoesCloseRecord ==
  ASSUME MoveInv, NEW t \in Task, NEW r \in TaskRecord, r.sid \in Sid, DoesClose(t, r)
  PROVE  \E q : Like(q, r) /\ q.pc = "fresh" /\ task' = [task EXCEPT ![t] = q]
<1> DEFINE q == [r EXCEPT !.pc = "fresh", !.rec = Read(r.sid), !.c = None,
                          !.old = NoTunnel, !.exc = "none"]
<1>1. "fresh" \in Label
  BY DEF Label, ClosePcs, DoClosePcs
<1>2. "none" \in Raised /\ NoTunnel \in Tunnel
  BY NoTunnelTyped, ExcTyped
<1>3. Read(r.sid) \in Row
  BY NoneAssumption DEF Read, MoveInv, TypeOK, StoreTypeOK
<1> HIDE DEF Read
<1>4. q \in TaskRecord /\ q.kind = r.kind /\ q.alias = r.alias /\ q.sid = r.sid /\ q.pc = "fresh"
  BY <1>1, <1>2, <1>3 DEF TaskRecord
<1>5. task' = [task EXCEPT ![t] = q]
  BY DEF DoesClose, Become
<1> QED
  BY <1>4, <1>5 DEF Like

\* close, force close and retry enter _do_close.
LEMMA DoesCloseMoves ==
  ASSUME MoveInv, NEW t \in Op, NEW r \in TaskRecord, DoesClose(t, r), lock' = lock,
         r.kind \in {"close", "force", "retry"}, r.sid \in Sid, r.alias = task[t].alias,
         r.kind = "close" => ~Busy(task[t]),
         r.kind # "close" => Holding(task[t])
  PROVE  Moves(t)
<1>1. t \in Task
  BY DEF Task
<1>2. PICK q : Like(q, r) /\ q.pc = "fresh" /\ task' = [task EXCEPT ![t] = q]
  BY <1>1, DoesCloseRecord
<1>3. task[t].pc # "idle" /\ Busy(task[t]) => task[t].alias \in Alias
  BY <1>1, TaskFacts
<1>4. Holding(task[t]) => Busy(task[t]) /\ task[t].pc # "idle"
  BY DEF Holding, Busy, DoClosePcs, ReattachPcs
<1>5. t \notin Conn
  BY ServiceAssumption
<1>6. DoCloseTask(t, q)
  BY <1>2, <1>3, <1>4, <1>5 DEF DoCloseTask, Like, DoClosePcs
<1>7. LockMove(task, lock, t, q, lock')
  BY <1>2, <1>4, <1>6, DoCloseShape DEF LockMove, Stays, Like
<1> QED
  BY <1>1, <1>2, <1>6, <1>7, DoCloseShape, MovesTo

\* What _do_close does about the remote process next.
LEMMA RemoteStageIsDoClose ==
  ASSUME NEW rec, NEW c
  PROVE  RemoteStage(rec, c) \in {"forget", "close_conn", "dial", "stop"}
BY DEF RemoteStage

\* _do_close reads the row and takes over the tunnel.
LEMMA DoCloseEntersMoves ==
  ASSUME MoveInv, NEW t \in Task, DoCloseReads(t) \/ DoCloseTakesTunnel(t)
  PROVE  Moves(t)
<1>1. CASE DoCloseReads(t)
  <2>1. /\ task[t] \in TaskRecord /\ KindOK(t, task[t].kind) /\ Suspended(task[t])
        /\ task[t].pc = "do_close" /\ task[t].sid \in Sid
    BY <1>1, TaskFacts DEF DoCloseReads, At
  <2>2. task[t].kind = "close"
    BY <2>1 DEF Suspended, RetryPcs, StartPcs, WatchPcs, BootPcs, DoClosePcs, ReattachPcs
  <2>3. t \in Op
    BY <2>1, <2>2 DEF KindOK
  <2>4. ~Busy(task[t])
    BY <2>1 DEF Busy, Queued, Holding, DoClosePcs, ReattachPcs
  <2> QED
    BY <1>1, <2>1, <2>2, <2>3, <2>4, DoesCloseMoves DEF DoCloseReads
<1>2. CASE DoCloseTakesTunnel(t)
  <2> DEFINE s == task[t].sid
             p == IF tunnels[s].c = None THEN RemoteStage(task[t].rec, None) ELSE "take_over"
             r == [task[t] EXCEPT !.c = tunnels[s].c, !.old = tunnels[s],
                     !.absent = CanCloseWithoutRemote(task[t].rec), !.pc = p]
  <2>1. task[t].pc \in DoClosePcs /\ task[t].sid \in Sid /\ task[t] \in TaskRecord
    BY <1>2, AtDoClose DEF DoCloseTakesTunnel, At, DoClosePcs, DoCloseTask
  <2>2. row \in [Sid -> Row] /\ tunnels \in [Sid -> Tunnel]
    BY DEF MoveInv, TypeOK, StoreTypeOK
  <2>3. CASE task[t].rec.state = "closed"
    <3>1. row' = row /\ DoCloseReturns(t)
      BY <1>2, <2>3 DEF DoCloseTakesTunnel
    <3> QED
      BY <2>1, <2>2, <3>1, DoCloseReturnsMoves
  <2>4. CASE task[t].rec.state # "closed"
    <3>1. task' = [task EXCEPT ![t] = r] /\ lock' = lock
      BY <1>2, <2>4 DEF DoCloseTakesTunnel, Become
    <3>2. p \in DoClosePcs /\ p \in Label
      BY RemoteStageIsDoClose DEF Label, ClosePcs, DoClosePcs
    <3>3. tunnels[s] \in Tunnel /\ tunnels[s].c \in Conn \cup {None}
      BY <2>1, <2>2 DEF Tunnel
    <3>4. CanCloseWithoutRemote(task[t].rec) \in BOOLEAN
      BY DEF CanCloseWithoutRemote
    <3> HIDE DEF p
    <3>5. /\ r \in TaskRecord /\ r.pc = p /\ r.kind = task[t].kind /\ r.alias = task[t].alias
          /\ r.sid = task[t].sid
      BY <2>1, <3>2, <3>3, <3>4 DEF TaskRecord
    <3> HIDE DEF r
    <3> QED
      BY <2>1, <3>1, <3>2, <3>5, DoCloseStays
  <2> QED
    BY <2>3, <2>4
<1> QED
  BY <1>1, <1>2

\* _do_close stops the listener, or dials.
LEMMA DoCloseLocalMoves ==
  ASSUME MoveInv, NEW t \in Task, DoCloseStopsListener(t) \/ DoCloseDials(t)
  PROVE  Moves(t)
<1>1. CASE DoCloseStopsListener(t)
  <2> DEFINE p == RemoteStage(task[t].rec, task[t].c)
             r == [task[t] EXCEPT !.pc = p, !.errors = TRUE, !.old = NoTunnel]
  <2>1. task[t].pc \in DoClosePcs /\ lock' = lock
    BY <1>1 DEF DoCloseStopsListener, At, DoClosePcs
  <2>2. p \in DoClosePcs /\ p \in Label /\ TRUE \in BOOLEAN
    BY RemoteStageIsDoClose DEF Label, ClosePcs, DoClosePcs
  <2>3. task[t] \in TaskRecord /\ NoTunnel \in Tunnel
    BY TaskFacts, NoTunnelTyped
  <2>4. Goto(t, p) \/ task' = [task EXCEPT ![t] = r]
    BY <1>1 DEF DoCloseStopsListener, Become
  <2> HIDE DEF p
  <2>5. /\ r \in TaskRecord /\ r.pc = p /\ r.kind = task[t].kind /\ r.alias = task[t].alias
        /\ r.sid = task[t].sid
    BY <2>2, <2>3 DEF TaskRecord
  <2> HIDE DEF r
  <2> QED
    BY <2>1, <2>2, <2>4, <2>5, DoCloseStays, DoCloseGoes
<1>2. CASE DoCloseDials(t)
  <2>1. task[t].pc \in DoClosePcs /\ lock' = lock
    BY <1>2 DEF DoCloseDials, At, DoClosePcs
  <2>2. task[t] \in TaskRecord
    BY TaskFacts
  <2>3. ASSUME NEW c \in Conn, Become(t, [task[t] EXCEPT !.pc = "stop", !.c = c]) PROVE Moves(t)
    <3> DEFINE r == [task[t] EXCEPT !.pc = "stop", !.c = c]
    <3>1. "stop" \in DoClosePcs /\ "stop" \in Label
      BY DEF Label, ClosePcs, DoClosePcs
    <3>2. /\ r \in TaskRecord /\ r.pc = "stop" /\ r.kind = task[t].kind
          /\ r.alias = task[t].alias /\ r.sid = task[t].sid
      BY <2>2, <3>1 DEF TaskRecord
    <3>3. task' = [task EXCEPT ![t] = r]
      BY <2>3 DEF Become
    <3> HIDE DEF r
    <3> QED
      BY <2>1, <3>1, <3>2, <3>3, DoCloseStays
  <2>4. CASE Become(t, [task[t] EXCEPT !.pc = "finish", !.errors = TRUE])
    <3> DEFINE r == [task[t] EXCEPT !.pc = "finish", !.errors = TRUE]
    <3>1. "finish" \in DoClosePcs /\ "finish" \in Label
      BY DEF Label, ClosePcs, DoClosePcs
    <3>2. /\ r \in TaskRecord /\ r.pc = "finish" /\ r.kind = task[t].kind
          /\ r.alias = task[t].alias /\ r.sid = task[t].sid
      BY <2>2, <3>1 DEF TaskRecord
    <3>3. task' = [task EXCEPT ![t] = r]
      BY <2>4 DEF Become
    <3> HIDE DEF r
    <3> QED
      BY <2>1, <3>1, <3>2, <3>3, DoCloseStays
  <2> QED
    BY <1>2, <2>3, <2>4 DEF DoCloseDials
<1> QED
  BY <1>1, <1>2

\* _do_close stops and removes the remote session.
LEMMA DoCloseRemoteMoves ==
  ASSUME MoveInv, NEW t \in Task, DoCloseStopsRemote(t)
  PROVE  Moves(t)
<1>1. task[t].pc \in DoClosePcs /\ lock' = lock
  BY DEF DoCloseStopsRemote, At, DoClosePcs
<1>2. PICK absent \in BOOLEAN, errors \in BOOLEAN :
        Become(t, [task[t] EXCEPT !.pc = "close_conn", !.absent = absent,
                                  !.errors = @ \/ errors])
  BY DEF DoCloseStopsRemote
<1> DEFINE e == task[t].errors \/ errors
           r == [task[t] EXCEPT !.pc = "close_conn", !.absent = absent, !.errors = e]
<1>3. task' = [task EXCEPT ![t] = r]
  BY <1>2 DEF Become
<1>4. task[t] \in TaskRecord /\ "close_conn" \in DoClosePcs /\ "close_conn" \in Label
      /\ e \in BOOLEAN
  BY TaskFacts DEF Label, ClosePcs, DoClosePcs
<1> HIDE DEF e
<1>5. /\ r \in TaskRecord /\ r.pc = "close_conn" /\ r.kind = task[t].kind
      /\ r.alias = task[t].alias /\ r.sid = task[t].sid
  BY <1>4 DEF TaskRecord
<1> HIDE DEF r
<1> QED
  BY <1>1, <1>3, <1>4, <1>5, DoCloseStays

\* _do_close closes the connection.
LEMMA DoCloseConnMoves ==
  ASSUME MoveInv, NEW t \in Task, DoCloseClosesConn(t)
  PROVE  Moves(t)
<1>1. task[t].pc \in DoClosePcs /\ lock' = lock
  BY DEF DoCloseClosesConn, At, DoClosePcs
<1>2. PICK e \in BOOLEAN :
        task' = [task EXCEPT ![t] = [task[t] EXCEPT !.pc = "forget", !.c = None,
                                       !.old = NoTunnel, !.errors = e]]
  <2>1. task[t].errors \in BOOLEAN /\ task[t] \in TaskRecord
    BY TaskFacts DEF TaskRecord
  <2>2. CASE Become(t, [task[t] EXCEPT !.pc = "forget", !.c = None, !.old = NoTunnel])
    <3>1. [task[t] EXCEPT !.pc = "forget", !.c = None, !.old = NoTunnel]
            = [task[t] EXCEPT !.pc = "forget", !.c = None, !.old = NoTunnel,
                              !.errors = task[t].errors]
      BY <2>1 DEF TaskRecord
    <3> QED
      BY <2>1, <2>2, <3>1 DEF Become
  <2>3. CASE Become(t, [task[t] EXCEPT !.pc = "forget", !.c = None, !.old = NoTunnel,
                                       !.errors = TRUE])
    BY <2>3 DEF Become
  <2> QED
    BY <2>2, <2>3 DEF DoCloseClosesConn
<1> DEFINE r == [task[t] EXCEPT !.pc = "forget", !.c = None, !.old = NoTunnel, !.errors = e]
<1>3. task[t] \in TaskRecord /\ "forget" \in DoClosePcs /\ "forget" \in Label
      /\ NoTunnel \in Tunnel
  BY TaskFacts, NoTunnelTyped DEF Label, ClosePcs, DoClosePcs
<1>4. /\ r \in TaskRecord /\ r.pc = "forget" /\ r.kind = task[t].kind
      /\ r.alias = task[t].alias /\ r.sid = task[t].sid
  BY <1>3 DEF TaskRecord
<1>5. task' = [task EXCEPT ![t] = r]
  BY <1>2
<1> HIDE DEF r
<1> QED
  BY <1>1, <1>3, <1>4, <1>5, DoCloseStays

\* _do_close forgets the identity, deletes or marks the row, and releases.
LEMMA DoCloseEndMoves ==
  ASSUME MoveInv, row' \in [Sid -> Row], NEW t \in Task,
         DoCloseForgets(t) \/ DoCloseFinishes(t) \/ DoCloseReleases(t)
  PROVE  Moves(t)
<1>1. task[t].pc \in DoClosePcs
  BY DEF DoCloseForgets, DoCloseFinishes, DoCloseReleases, At, DoClosePcs
<1>2. task[t].sid \in Sid
  BY <1>1, AtDoClose DEF DoCloseTask
<1>3. row'[task[t].sid] \in Row
  BY <1>2
<1>4. "finish" \in DoClosePcs /\ "deleted" \in DoClosePcs
  BY DEF DoClosePcs
<1>5. \/ lock' = lock /\ (Goto(t, "finish") \/ Goto(t, "deleted"))
      \/ DoCloseReturns(t)
  BY DEF DoCloseForgets, DoCloseFinishes, DoCloseReleases
<1> QED
  BY <1>1, <1>3, <1>4, <1>5, DoCloseGoes, DoCloseReturnsMoves

\* Every step of _do_close is a move.
LEMMA DoCloseStepMoves ==
  ASSUME MoveInv, row' \in [Sid -> Row], NEW t \in Task, DoCloseStep(t)
  PROVE  Moves(t)
BY DoCloseEntersMoves, DoCloseLocalMoves, DoCloseRemoteMoves, DoCloseConnMoves,
   DoCloseEndMoves DEF DoCloseStep

-----------------------------------------------------------------------------
(***************************************************************************)
(* Request handlers: open and close.                                       *)
(***************************************************************************)
\* What the invariant says of a request handler.
LEMMA OpFacts ==
  ASSUME MoveInv, NEW o \in Op
  PROVE  /\ o \in Task /\ o \notin Conn /\ task[o] \in TaskRecord
         /\ task[o].kind \in {"none", "open", "close", "force", "retry"}
         /\ Suspended(task[o])
         /\ task[o].kind = "none" => task[o].pc = "idle"
         /\ Busy(task[o]) => task[o].alias \in Alias
         /\ task[o].pc \notin {"idle", "enter", "looked_up"} => task[o].sid \in Sid
<1>1. o \in Task /\ ShapeOK(o, task[o])
  BY DEF Task, MoveInv, TaskShape
<1>2. o \notin Conn /\ o \notin Sid /\ o # Boot
  BY ServiceAssumption
<1>3. task[o].kind \in {"none", "open", "close", "force", "retry"}
  BY <1>1, <1>2 DEF ShapeOK, KindOK
<1>4. task[o].pc # "next_row"
  BY <1>1, <1>3 DEF ShapeOK, Suspended, ClosePcs, RetryPcs, DoClosePcs, ReattachPcs
<1>5. task[o].kind = "none" => task[o].pc = "idle"
  BY <1>1 DEF ShapeOK, Suspended
<1> QED
  BY <1>1, <1>2, <1>3, <1>4, <1>5 DEF ShapeOK

\* A request handler's record between two awaits under the lock.
LEMMA OpMove ==
  ASSUME MoveInv, NEW o \in Op, NEW q \in TaskRecord, task' = [task EXCEPT ![o] = q],
         q.kind \in {"open", "close", "force", "retry"}, Suspended(q), Busy(q), ~Fresh(q),
         q.alias \in Alias,
         q.pc = "looked_up" /\ q.sid = None => q.rec = NoRow,
         q.pc \notin {"enter", "looked_up"} => q.sid \in Sid,
         q.pc # "backoff",
         LockMove(task, lock, o, q, lock')
  PROVE  Moves(o)
<1>1. o \in Task /\ o \notin Conn
  BY OpFacts
<1>2. q.pc # "next_row" /\ q.pc # "idle"
  BY DEF Suspended, ClosePcs, RetryPcs, DoClosePcs, ReattachPcs
<1>3. KindOK(o, q.kind) /\ q.kind # "start"
  BY DEF KindOK
<1>4. ShapeOK(o, q)
  BY <1>2, <1>3 DEF ShapeOK
<1>5. FreshMove(task, o, q)
  BY <1>1 DEF FreshMove
<1> QED
  BY <1>1, <1>4, <1>5, MovesTo

\* A request queues for its alias lock.
LEMMA RequestMoves ==
  ASSUME MoveInv, NEW o \in Op, NEW kind \in Requests, NEW a \in Alias, Request(o, kind, a)
  PROVE  Moves(o)
<1> DEFINE q == [IdleTask EXCEPT !.pc = "enter", !.kind = kind, !.alias = a]
<1>1. task' = [task EXCEPT ![o] = q] /\ lock' = [lock EXCEPT ![a] = Append(@, o)]
      /\ task[o].pc = "idle"
  BY DEF Request, Become, Enqueue, At
<1>2. "enter" \in Label /\ kind \in Kind /\ kind \in {"open", "close", "force", "retry"}
  BY ServiceAssumption DEF Label, Kind
<1>3. q \in TaskRecord /\ q.pc = "enter" /\ q.kind = kind /\ q.alias = a
  BY <1>2, IdleTyped DEF TaskRecord
<1> HIDE DEF q
<1>4. ~Busy(task[o])
  BY <1>1 DEF Busy, Queued, Holding, DoClosePcs, ReattachPcs
<1>5. Queued(q) /\ ~Holding(q) /\ ~Fresh(q)
  BY <1>3 DEF Queued, Holding, Fresh, DoClosePcs, ReattachPcs
<1>6. LockMove(task, lock, o, q, lock')
  BY <1>1, <1>3, <1>4, <1>5 DEF LockMove, Joins, Busy
<1> QED
  BY <1>1, <1>2, <1>3, <1>5, <1>6, OpMove DEF Suspended, Busy

\* get_session_by_alias returns a session and its row, or nothing.
LEMMA LookupTyped ==
  ASSUME MoveInv, NEW a
  PROVE  /\ Lookup(a) \in Sid \cup {None} /\ Read(Lookup(a)) \in Row
         /\ Lookup(a) = None => Read(Lookup(a)) = NoRow
<1>1. Lookup(a) \in Sid \cup {None}
  BY DEF Lookup, RowsOf
<1> QED
  BY <1>1, NoRowIsRow DEF Read, MoveInv, TypeOK, StoreTypeOK

\* A request that holds the lock reads the row.
LEMMA EnterMoves ==
  ASSUME MoveInv, NEW o \in Op, Enter(o)
  PROVE  Moves(o)
<1> DEFINE s == Lookup(task[o].alias)
           x == Read(s)
           q == [task[o] EXCEPT !.pc = "looked_up", !.sid = s, !.rec = x]
<1>1. /\ task' = [task EXCEPT ![o] = q] /\ lock' = lock /\ task[o].pc = "enter"
      /\ Head(lock[task[o].alias]) = o
  BY DEF Enter, Become, At, Holds
<1>2. /\ task[o] \in TaskRecord /\ Busy(task[o]) /\ task[o].alias \in Alias
      /\ task[o].kind \in {"open", "close", "force", "retry"}
  BY <1>1, OpFacts DEF Busy, Queued
<1>3. s \in Sid \cup {None} /\ x \in Row /\ "looked_up" \in Label /\ (s = None => x = NoRow)
  BY LookupTyped DEF Label
<1> HIDE DEF s, x
<1>4. /\ q \in TaskRecord /\ q.pc = "looked_up" /\ q.kind = task[o].kind
      /\ q.alias = task[o].alias /\ q.sid = s /\ q.rec = x
  BY <1>2, <1>3 DEF TaskRecord
<1> HIDE DEF q
<1>5. Holding(q) /\ Busy(q) /\ ~Fresh(q)
  BY <1>4 DEF Holding, Busy, Fresh
<1>6. LockMove(task, lock, o, q, lock')
  BY <1>1, <1>2, <1>4, <1>5 DEF LockMove, Stays
<1>7. Suspended(q)
  BY <1>2, <1>4 DEF Suspended
<1> QED
  BY <1>1, <1>2, <1>3, <1>4, <1>5, <1>6, <1>7, OpMove

\* A step from one await under the lock to another.
LEMMA OpHolds ==
  ASSUME MoveInv, NEW o \in Op, Holding(task[o]), lock' = lock,
         NEW q \in TaskRecord, task' = [task EXCEPT ![o] = q],
         q.kind \in {"open", "close", "force", "retry"}, q.alias = task[o].alias,
         q.sid \in Sid, Suspended(q), Holding(q), ~Fresh(q),
         q.pc \notin {"enter", "looked_up", "backoff"}
  PROVE  Moves(o)
<1>1. Busy(task[o]) /\ Busy(q) /\ task[o].alias \in Alias
  BY OpFacts DEF Busy
<1>2. LockMove(task, lock, o, q, lock')
  BY <1>1 DEF LockMove, Stays
<1> QED
  BY <1>1, <1>2, OpMove

\* open() answers, refuses, or inserts.
LEMMA OpenChecksMoves ==
  ASSUME MoveInv, NEW o \in Op, OpenChecks(o)
  PROVE  Moves(o)
<1>1. /\ task[o].pc = "looked_up" /\ Holding(task[o]) /\ task[o].kind = "open"
      /\ task[o] \in TaskRecord /\ o \in Task
  BY OpFacts DEF OpenChecks, At, Holding
<1>2. CASE End(o) /\ Release(task[o].alias)
  BY <1>1, <1>2, EndMoves
<1>3. CASE FreeSid # {} /\ lock' = lock
           /\ Become(o, [task[o] EXCEPT !.pc = "inserted", !.sid = NewSid])
  <2> DEFINE q == [task[o] EXCEPT !.pc = "inserted", !.sid = NewSid]
  <2>1. NewSid \in Sid
    BY <1>3 DEF NewSid, FreeSid
  <2>2. "inserted" \in Label
    BY DEF Label
  <2>3. /\ q \in TaskRecord /\ q.pc = "inserted" /\ q.kind = "open" /\ q.sid \in Sid
        /\ q.alias = task[o].alias
    BY <1>1, <2>1, <2>2 DEF TaskRecord
  <2>4. task' = [task EXCEPT ![o] = q]
    BY <1>3 DEF Become
  <2> HIDE DEF q
  <2>5. Holding(q) /\ ~Fresh(q) /\ Suspended(q)
    BY <2>3 DEF Holding, Fresh, Suspended
  <2> QED
    BY <1>1, <1>3, <2>3, <2>4, <2>5, OpHolds
<1> QED
  BY <1>2, <1>3 DEF OpenChecks

\* close() records its intent.
LEMMA OpGoes ==
  ASSUME MoveInv, NEW o \in Op, Holding(task[o]), lock' = lock, Goto(o, "stopping"),
         task[o].kind \in {"close", "force"}, task[o].sid \in Sid
  PROVE  Moves(o)
<1> DEFINE q == [task[o] EXCEPT !.pc = "stopping"]
<1>1. task[o] \in TaskRecord /\ "stopping" \in Label
  BY OpFacts DEF Label, ClosePcs
<1>2. q \in TaskRecord /\ q.pc = "stopping" /\ Like(q, task[o])
  BY <1>1 DEF TaskRecord, Like
<1>3. task' = [task EXCEPT ![o] = q]
  BY DEF Goto, MoveInv, TypeOK
<1> HIDE DEF q
<1>4. Holding(q) /\ ~Fresh(q) /\ Suspended(q)
  BY <1>2 DEF Holding, Fresh, Suspended, ClosePcs, Like
<1> QED
  BY <1>2, <1>3, <1>4, OpHolds DEF Like

\* A request awaits the end of the start task.
LEMMA OpSettles ==
  ASSUME MoveInv, NEW o \in Op, Holding(task[o]), lock' = lock, Goto(o, "start_settles"),
         task[o].kind \in {"close", "force", "retry"}, task[o].sid \in Sid
  PROVE  Moves(o)
<1> DEFINE q == [task[o] EXCEPT !.pc = "start_settles"]
<1>1. task[o] \in TaskRecord /\ "start_settles" \in Label
  BY OpFacts DEF Label, ClosePcs
<1>2. q \in TaskRecord /\ q.pc = "start_settles" /\ Like(q, task[o])
  BY <1>1 DEF TaskRecord, Like
<1>3. task' = [task EXCEPT ![o] = q]
  BY DEF Goto, MoveInv, TypeOK
<1> HIDE DEF q
<1>4. Holding(q) /\ ~Fresh(q) /\ Suspended(q)
  BY <1>2 DEF Holding, Fresh, Suspended, ClosePcs, RetryPcs, Like
<1> QED
  BY <1>2, <1>3, <1>4, OpHolds DEF Like

\* close() leaves the rest to a background task, or goes on under the lock.
LEMMA StartsClosingMoves ==
  ASSUME MoveInv, NEW o \in Op, Holding(task[o]), task[o].kind \in {"close", "force"},
         task[o].sid \in Sid, StartsClosing(o)
  PROVE  Moves(o)
<1>1. o \in Task /\ task[o] \in TaskRecord /\ Busy(task[o]) /\ task[o].alias \in Alias
  BY OpFacts DEF Busy
<1>2. CASE task[o].kind = "force"
  BY <1>1, <1>2, DoesCloseMoves DEF StartsClosing
<1>3. CASE task[o].kind = "close"
  <2> DEFINE q == [task[o] EXCEPT !.pc = "do_close"]
  <2>1. Goto(o, "do_close") /\ Release(task[o].alias)
    BY <1>3 DEF StartsClosing, Unlocks
  <2>2. "do_close" \in Label
    BY DEF Label, ClosePcs
  <2>3. q \in TaskRecord /\ q.pc = "do_close" /\ Like(q, task[o])
    BY <1>1, <2>2 DEF TaskRecord, Like
  <2>4. task' = [task EXCEPT ![o] = q]
    BY <2>1 DEF Goto, MoveInv, TypeOK
  <2> HIDE DEF q
  <2>5. ~Busy(q) /\ ~Fresh(q)
    BY <2>3 DEF Busy, Queued, Holding, Fresh, DoClosePcs, ReattachPcs
  <2>6. KindOK(o, q.kind) /\ Suspended(q)
    BY <1>3, <2>3 DEF KindOK, Suspended, ClosePcs, Like
  <2>7. ShapeOK(o, q)
    BY <1>3, <2>3, <2>5, <2>6 DEF ShapeOK, Like
  <2>8. FreshMove(task, o, q)
    BY <2>5, OpFacts DEF FreshMove
  <2>9. LockMove(task, lock, o, q, lock')
    BY <2>1, <2>5 DEF LockMove, Release
  <2> QED
    BY <1>1, <2>4, <2>7, <2>8, <2>9, MovesTo
<1> QED
  BY <1>2, <1>3

\* Every step of close() is a move.
LEMMA CloseMoves ==
  ASSUME MoveInv, NEW o \in Op, CloseStep(o)
  PROVE  Moves(o)
<1>1. o \in Task
  BY OpFacts
<1>2. CASE CloseRecordsIntent(o)
  <2>1. Holding(task[o]) /\ task[o].kind \in {"close", "force"} /\ task[o] \in TaskRecord
    BY <1>2, OpFacts DEF CloseRecordsIntent, At, Holding
  <2>2. CASE End(o) /\ Release(task[o].alias)
    BY <1>1, <2>1, <2>2, EndMoves
  <2>3. CASE task[o].sid # None /\ Goto(o, "stopping") /\ lock' = lock
    <3>1. task[o].sid \in Sid
      BY <2>1, <2>3 DEF TaskRecord
    <3> QED
      BY <2>1, <2>3, <3>1, OpGoes
  <2> QED
    BY <1>2, <2>2, <2>3 DEF CloseRecordsIntent, Unlocks
<1>3. CASE CloseCancelsStart(o)
  <2>1. Holding(task[o]) /\ task[o].kind \in {"close", "force"} /\ task[o].sid \in Sid
    <3>1. task[o].pc = "stopping"
      BY <1>3 DEF CloseCancelsStart, At
    <3>2. task[o].kind \in {"close", "force"}
      BY <3>1, OpFacts DEF Suspended, RetryPcs, DoClosePcs, ReattachPcs
    <3> QED
      BY <3>1, <3>2, OpFacts DEF Holding
  <2>2. CASE Goto(o, "start_settles") /\ lock' = lock
    BY <2>1, <2>2, OpSettles
  <2>3. CASE StartsClosing(o)
    BY <2>1, <2>3, StartsClosingMoves
  <2> QED
    BY <1>3, <2>2, <2>3 DEF CloseCancelsStart
<1>4. CASE CloseStarts(o)
  <2>1. Holding(task[o]) /\ task[o].kind \in {"close", "force"} /\ task[o].sid \in Sid
        /\ StartsClosing(o)
    BY <1>4, OpFacts DEF CloseStarts, At, Holding
  <2> QED
    BY <2>1, StartsClosingMoves
<1> QED
  BY <1>2, <1>3, <1>4 DEF CloseStep

-----------------------------------------------------------------------------
(***************************************************************************)
(* Reattachment, on behalf of a retry, a watcher or startup recovery.      *)
(***************************************************************************)
\* r could be the record of task t, at work on a session it reattaches.
Reattacher(t, r) ==
  /\ r \in TaskRecord /\ KindOK(t, r.kind) /\ r.kind \in {"retry", "watch", "boot"}
  /\ r.sid \in Sid /\ r.alias \in Alias

\* A task that attempts to reattach takes a new record.
LEMMA ReattacherMoves ==
  ASSUME MoveInv, NEW t \in Task, task[t].pc # "idle", NEW q, Reattacher(t, q),
         task' = [task EXCEPT ![t] = q], Suspended(q),
         q.pc \notin {"looked_up", "next_row"}, q.pc = "backoff" => q.tries < MaxTries,
         LockMove(task, lock, t, q, lock'),
         Fresh(q) => \/ Fresh(task[t]) /\ q.c = task[t].c
                     \/ q.c \in Conn /\ Connects(q.c)
  PROVE  Moves(t)
<1>1. ShapeOK(t, q)
  BY DEF Reattacher, ShapeOK
<1>2. FreshMove(task, t, q)
  <2>1. ASSUME q.c \in Conn, Connects(q.c) PROVE q.c # t
    BY <2>1, ConnectsFresh
  <2> QED
    BY <2>1, ConnectsFresh DEF FreshMove
<1> QED
  BY <1>1, <1>2, MovesTo DEF Reattacher

\* From one await under the lock to another.
LEMMA ReattacherHolds ==
  ASSUME MoveInv, NEW t \in Task, Holding(task[t]), NEW q, Reattacher(t, q),
         task' = [task EXCEPT ![t] = q], Suspended(q), Holding(q),
         q.pc \notin {"looked_up", "next_row"}, q.pc = "backoff" => q.tries < MaxTries,
         q.alias = task[t].alias, lock' = lock,
         Fresh(q) => \/ Fresh(task[t]) /\ q.c = task[t].c
                     \/ q.c \in Conn /\ Connects(q.c)
  PROVE  Moves(t)
<1>1. task[t].pc # "idle"
  BY DEF Holding, DoClosePcs, ReattachPcs
<1>2. LockMove(task, lock, t, q, lock')
  BY DEF LockMove, Stays, Busy
<1> QED
  BY <1>1, <1>2, ReattacherMoves

\* The record of a caller that leaves the attempt for an await of its own.
LEMMA OnRecord ==
  ASSUME MoveInv, NEW t, NEW r \in TaskRecord, NEW label \in Label,
         Become(t, [r EXCEPT !.pc = label, !.c = None, !.old = NoTunnel, !.exc = "none"])
  PROVE  \E q : /\ Like(q, r) /\ q.pc = label /\ q.tries = r.tries
                /\ task' = [task EXCEPT ![t] = q]
<1> DEFINE q == [r EXCEPT !.pc = label, !.c = None, !.old = NoTunnel, !.exc = "none"]
<1>1. "none" \in Raised /\ NoTunnel \in Tunnel
  BY NoTunnelTyped, ExcTyped
<1>2. q \in TaskRecord /\ q.kind = r.kind /\ q.alias = r.alias /\ q.sid = r.sid
      /\ q.pc = label /\ q.tries = r.tries
  BY <1>1 DEF TaskRecord
<1>3. task' = [task EXCEPT ![t] = q]
  BY DEF Become
<1> QED
  BY <1>2, <1>3 DEF Like

\* Recovery gives the row up or has dealt with it.
LEMMA NextRowOf ==
  ASSUME MoveInv, NEW r, r.alias = task[Boot].alias, NextRow(r), Holding(task[Boot])
  PROVE  Moves(Boot)
<1>1. task' = [task EXCEPT ![Boot] = NextRowTask] /\ Boot \in Task
  BY DEF NextRow, Become, NextRowTask, Task
<1>2. LockMove(task, lock, Boot, NextRowTask, lock')
  BY NextRowShape DEF LockMove, NextRow, Unlocks, Release
<1> QED
  BY <1>1, <1>2, NextRowShape, MovesTo

\* An attempt of retry ends with an exception.
LEMMA RetryRaises ==
  ASSUME MoveInv, NEW t \in Task, Holding(task[t]), NEW r, Reattacher(t, r),
         r.kind = "retry", r.alias = task[t].alias, NEW exc, Raises(t, r, exc)
  PROVE  Moves(t)
<1>1. t \in Op
  BY DEF Reattacher, KindOK
<1>2. \/ End(t) /\ Unlocks(r)
      \/ DoesClose(t, r) /\ lock' = lock
      \/ /\ r.tries < MaxTries /\ lock' = lock
         /\ Become(t, [r EXCEPT !.pc = "backoff", !.c = None, !.old = NoTunnel, !.exc = "none"])
  BY DEF Raises
<1>3. CASE End(t) /\ Unlocks(r)
  BY <1>3, EndMoves DEF Unlocks
<1>4. CASE DoesClose(t, r) /\ lock' = lock
  BY <1>1, <1>4, DoesCloseMoves DEF Reattacher
<1>5. CASE /\ r.tries < MaxTries /\ lock' = lock
           /\ Become(t, [r EXCEPT !.pc = "backoff", !.c = None, !.old = NoTunnel, !.exc = "none"])
  <2>1. "backoff" \in Label
    BY DEF Label, RetryPcs
  <2>2. PICK q : /\ Like(q, r) /\ q.pc = "backoff" /\ q.tries = r.tries
                 /\ task' = [task EXCEPT ![t] = q]
    BY <1>5, <2>1, OnRecord DEF Reattacher
  <2>3. Reattacher(t, q) /\ Holding(q) /\ ~Fresh(q) /\ Suspended(q)
    BY <2>2 DEF Like, Reattacher, Holding, Fresh, Suspended, RetryPcs
  <2> QED
    BY <1>5, <2>2, <2>3, ReattacherHolds DEF Like
<1> QED
  BY <1>2, <1>3, <1>4, <1>5

\* An attempt of a watcher ends with an exception.
LEMMA WatchRaises ==
  ASSUME MoveInv, NEW t \in Task, Holding(task[t]), NEW r, Reattacher(t, r),
         r.kind = "watch", r.alias = task[t].alias, NEW exc, Raises(t, r, exc)
  PROVE  Moves(t)
<1>1. task[t].pc # "idle" /\ task[t].alias \in Alias /\ Busy(task[t])
  BY DEF Holding, DoClosePcs, ReattachPcs, Reattacher, Busy
<1>2. \/ End(t) /\ Unlocks(r)
      \/ /\ lock' = [lock EXCEPT ![r.alias] = Append(Tail(@), t)]
         /\ Become(t, [r EXCEPT !.pc = "lost", !.c = None, !.old = NoTunnel, !.exc = "none"])
      \/ /\ r.tries < MaxTries /\ Unlocks(r)
         /\ Become(t, [r EXCEPT !.pc = "backoff", !.c = None, !.old = NoTunnel, !.exc = "none"])
  BY DEF Raises
<1>3. CASE End(t) /\ Unlocks(r)
  BY <1>3, EndMoves DEF Unlocks
<1>4. CASE /\ lock' = [lock EXCEPT ![r.alias] = Append(Tail(@), t)]
           /\ Become(t, [r EXCEPT !.pc = "lost", !.c = None, !.old = NoTunnel, !.exc = "none"])
  <2>1. "lost" \in Label
    BY DEF Label, WatchPcs
  <2>2. PICK q : /\ Like(q, r) /\ q.pc = "lost" /\ q.tries = r.tries
                 /\ task' = [task EXCEPT ![t] = q]
    BY <1>4, <2>1, OnRecord DEF Reattacher
  <2>3. Reattacher(t, q) /\ Queued(q) /\ ~Holding(q) /\ ~Fresh(q) /\ Suspended(q)
    BY <2>2 DEF Like, Reattacher, Queued, Holding, Fresh, Suspended, WatchPcs, DoClosePcs,
       ReattachPcs
  <2>4. LockMove(task, lock, t, q, lock')
    BY <1>1, <1>4, <2>2, <2>3 DEF LockMove, Requeues, Like
  <2> QED
    BY <1>1, <2>2, <2>3, <2>4, ReattacherMoves
<1>5. CASE /\ r.tries < MaxTries /\ Unlocks(r)
           /\ Become(t, [r EXCEPT !.pc = "backoff", !.c = None, !.old = NoTunnel, !.exc = "none"])
  <2>1. "backoff" \in Label
    BY DEF Label, RetryPcs
  <2>2. PICK q : /\ Like(q, r) /\ q.pc = "backoff" /\ q.tries = r.tries
                 /\ task' = [task EXCEPT ![t] = q]
    BY <1>5, <2>1, OnRecord DEF Reattacher
  <2>3. Reattacher(t, q) /\ ~Busy(q) /\ ~Fresh(q) /\ Suspended(q)
    BY <2>2 DEF Like, Reattacher, Busy, Queued, Holding, Fresh, Suspended, WatchPcs,
       DoClosePcs, ReattachPcs
  <2>4. LockMove(task, lock, t, q, lock')
    BY <1>5, <2>3 DEF LockMove, Unlocks, Release
  <2> QED
    BY <1>1, <1>5, <2>2, <2>3, <2>4, ReattacherMoves
<1> QED
  BY <1>2, <1>3, <1>4, <1>5

\* The attempt of recovery ends with an exception.
LEMMA BootRaises ==
  ASSUME MoveInv, NEW t \in Task, Holding(task[t]), NEW r, Reattacher(t, r),
         r.kind = "boot", r.alias = task[t].alias, NEW exc, Raises(t, r, exc)
  PROVE  Moves(t)
<1>1. t = Boot
  BY DEF Reattacher, KindOK
<1>2. \/ NextRow(r)
      \/ /\ lock' = lock
         /\ \E label \in {"clear_lost", "drop", "mark_lost"} :
              Become(t, [r EXCEPT !.pc = label, !.c = None, !.old = NoTunnel, !.exc = "none"])
  <2>1. CASE exc = "absent"
    BY <2>1 DEF Raises
  <2>2. CASE exc # "absent"
    BY <2>2 DEF Raises
  <2> QED
    BY <2>1, <2>2
<1>3. CASE NextRow(r)
  BY <1>1, <1>3, NextRowOf
<1>4. ASSUME lock' = lock, NEW label, label \in {"clear_lost", "drop", "mark_lost"},
             Become(t, [r EXCEPT !.pc = label, !.c = None, !.old = NoTunnel, !.exc = "none"])
      PROVE  Moves(t)
  <2>1. label \in Label /\ r \in TaskRecord
    BY <1>4 DEF Label, BootPcs, Reattacher
  <2>a. Become(t, [r EXCEPT !.pc = label, !.c = None, !.old = NoTunnel, !.exc = "none"])
    BY <1>4
  <2>2. PICK q : /\ Like(q, r) /\ q.pc = label /\ q.tries = r.tries
                 /\ task' = [task EXCEPT ![t] = q]
    BY <2>1, <2>a, OnRecord
  <2>3. Reattacher(t, q) /\ Holding(q) /\ ~Fresh(q) /\ Suspended(q)
    BY <1>4, <2>2 DEF Like, Reattacher, Holding, Fresh, Suspended, BootPcs
  <2> QED
    BY <1>4, <2>2, <2>3, ReattacherHolds DEF Like
<1> QED
  BY <1>2, <1>3, <1>4

\* However an attempt ends with an exception, it is a move.
LEMMA RaisesMoves ==
  ASSUME MoveInv, NEW t \in Task, Holding(task[t]), NEW r, Reattacher(t, r),
         r.alias = task[t].alias, NEW exc, Raises(t, r, exc)
  PROVE  Moves(t)
BY RetryRaises, WatchRaises, BootRaises DEF Reattacher

\* An attempt begins.
LEMMA ReattachesMoves ==
  ASSUME MoveInv, NEW t \in Task, Holding(task[t]), NEW r, Reattacher(t, r),
         r.alias = task[t].alias, Reattaches(t, r)
  PROVE  Moves(t)
<1>1. ASSUME NEW exc, Raises(t, r, exc) PROVE Moves(t)
  BY <1>1, RaisesMoves
<1>2. CASE Become(t, [r EXCEPT !.pc = "reconnect"]) /\ lock' = lock
  <2> DEFINE q == [r EXCEPT !.pc = "reconnect"]
  <2>1. r \in TaskRecord /\ "reconnect" \in Label
    BY DEF Reattacher, Label, RetryPcs, ReattachPcs
  <2>2. Like(q, r) /\ q.pc = "reconnect"
    BY <2>1 DEF TaskRecord, Like
  <2>3. task' = [task EXCEPT ![t] = q]
    BY <1>2 DEF Become
  <2> HIDE DEF q
  <2>4. Reattacher(t, q) /\ Holding(q) /\ ~Fresh(q)
    BY <2>2 DEF Like, Reattacher, Holding, Fresh, ReattachPcs
  <2>5. Suspended(q)
    BY <2>2, <2>4 DEF Reattacher, Suspended, RetryPcs, WatchPcs, BootPcs, ReattachPcs
  <2> QED
    BY <1>2, <2>2, <2>3, <2>4, <2>5, ReattacherHolds DEF Like
<1> QED
  BY <1>1, <1>2 DEF Reattaches

\* A task inside an attempt holds its lock.
LEMMA AtReattach ==
  ASSUME MoveInv, NEW t \in Task, task[t].pc \in ReattachPcs
  PROVE  Reattacher(t, task[t]) /\ Holding(task[t])
<1>1. /\ task[t] \in TaskRecord /\ KindOK(t, task[t].kind) /\ Suspended(task[t])
      /\ Busy(task[t]) => task[t].alias \in Alias
      /\ task[t].pc \notin {"idle", "enter", "looked_up", "next_row"} => task[t].sid \in Sid
  BY TaskFacts
<1>2. Holding(task[t])
  BY DEF Holding
<1>3. task[t].kind \in {"retry", "watch", "boot"}
  BY <1>1 DEF Suspended, ClosePcs, StartPcs, DoClosePcs, ReattachPcs
<1>4. task[t].sid \in Sid
  BY <1>1 DEF ReattachPcs
<1> QED
  BY <1>1, <1>2, <1>3, <1>4 DEF Reattacher, Busy

\* A step within the attempt.
LEMMA AttemptStays ==
  ASSUME MoveInv, NEW t \in Task, task[t].pc \in ReattachPcs, NEW q,
         Like(q, task[t]), q.pc \in ReattachPcs, task' = [task EXCEPT ![t] = q],
         lock' = lock,
         Fresh(q) => \/ Fresh(task[t]) /\ q.c = task[t].c
                     \/ q.c \in Conn /\ Connects(q.c)
  PROVE  Moves(t)
<1>1. Reattacher(t, task[t]) /\ Holding(task[t])
  BY AtReattach
<1>2. Reattacher(t, q) /\ Holding(q)
  BY <1>1 DEF Reattacher, Like, Holding
<1>3. Suspended(q) /\ q.pc \notin {"looked_up", "next_row", "backoff"}
  BY <1>2 DEF Reattacher, Suspended, RetryPcs, WatchPcs, BootPcs, ReattachPcs
<1> QED
  BY <1>1, <1>2, <1>3, ReattacherHolds DEF Like

\* An attempt goes on with the same locals.
LEMMA AttemptGoes ==
  ASSUME MoveInv, NEW t \in Task, task[t].pc \in ReattachPcs, NEW p \in ReattachPcs,
         Goto(t, p), lock' = lock, Fresh(task[t])
  PROVE  Moves(t)
<1> DEFINE q == [task[t] EXCEPT !.pc = p]
<1>1. task[t] \in TaskRecord /\ p \in Label
  BY TaskFacts DEF Label, RetryPcs
<1>2. Like(q, task[t]) /\ q.pc = p /\ q.c = task[t].c
  BY <1>1 DEF TaskRecord, Like
<1>3. task' = [task EXCEPT ![t] = q]
  BY DEF Goto, MoveInv, TypeOK
<1> HIDE DEF q
<1> QED
  BY <1>2, <1>3, AttemptStays

\* An attempt gives up its new connection.
LEMMA AbandonsMoves ==
  ASSUME MoveInv, NEW t \in Task, task[t].pc \in ReattachPcs, NEW exc \in Raised,
         Abandons(t, exc), lock' = lock
  PROVE  Moves(t)
<1>1. PICK forwarded \in BOOLEAN :
        Become(t, [task[t] EXCEPT !.pc = "drop_conn", !.exc = exc, !.ledger = {},
                                  !.old = [NoTunnel EXCEPT !.listener = forwarded]])
  BY DEF Abandons
<1> DEFINE tunnel == [NoTunnel EXCEPT !.listener = forwarded]
           q == [task[t] EXCEPT !.pc = "drop_conn", !.exc = exc, !.ledger = {}, !.old = tunnel]
<1>2. tunnel \in Tunnel
  BY DEF NoTunnel, Tunnel
<1>3. task' = [task EXCEPT ![t] = q]
  BY <1>1 DEF Become
<1> HIDE DEF tunnel
<1>4. task[t] \in TaskRecord /\ "drop_conn" \in Label /\ "drop_conn" \in ReattachPcs
      /\ {} \in Ledger
  BY TaskFacts, LedgerTyped DEF Label, RetryPcs, ReattachPcs
<1>5. Like(q, task[t]) /\ q.pc = "drop_conn"
  BY <1>2, <1>4 DEF TaskRecord, Like
<1> HIDE DEF q
<1>6. ~Fresh(q)
  BY <1>5 DEF Fresh
<1> QED
  BY <1>3, <1>4, <1>5, <1>6, AttemptStays

\* The exceptions of an attempt.
LEMMA RaisedTyped ==
  /\ "absent" \in Raised /\ "unavailable" \in Raised /\ "error" \in Raised
  /\ "late" \in Raised /\ "cancelled" \in Raised
BY DEF Raised

\* An attempt connects.
LEMMA ReconnectsMoves ==
  ASSUME MoveInv, NEW t \in Task, Reconnects(t)
  PROVE  Moves(t)
<1>1. task[t].pc \in ReattachPcs /\ Reattacher(t, task[t]) /\ Holding(task[t])
  BY AtReattach DEF Reconnects, At, ReattachPcs
<1>2. ASSUME NEW exc, Raises(t, task[t], exc) PROVE Moves(t)
  BY <1>1, <1>2, RaisesMoves
<1>3. ASSUME NEW c \in Conn, Connects(c), lock' = lock,
             Become(t, [task[t] EXCEPT !.pc = "inspect", !.c = c])
      PROVE  Moves(t)
  <2> DEFINE q == [task[t] EXCEPT !.pc = "inspect", !.c = c]
  <2>1. task[t] \in TaskRecord /\ "inspect" \in Label /\ "inspect" \in ReattachPcs
    BY TaskFacts DEF Label, RetryPcs, ReattachPcs
  <2>2. Like(q, task[t]) /\ q.pc = "inspect" /\ q.c = c
    BY <2>1 DEF TaskRecord, Like
  <2>3. task' = [task EXCEPT ![t] = q]
    BY <1>3 DEF Become
  <2> HIDE DEF q
  <2> QED
    BY <1>1, <1>3, <2>1, <2>2, <2>3, AttemptStays
<1> QED
  BY <1>2, <1>3 DEF Reconnects

\* An attempt is interrupted, inspects, or removes an absent session.
LEMMA AttemptMoves ==
  ASSUME MoveInv, NEW t \in Task,
         Interrupted(t) \/ Inspects(t) \/ RemovesAbsent(t)
  PROVE  Moves(t)
<1>1. task[t].pc \in ReattachPcs /\ Fresh(task[t]) /\ lock' = lock
  BY DEF Interrupted, Inspects, RemovesAbsent, At, ReattachPcs, Fresh
<1>2. \/ \E exc \in {"late", "cancelled", "unavailable", "error", "absent"} : Abandons(t, exc)
      \/ Goto(t, "reforward") \/ Goto(t, "remove")
  <2>1. CASE Interrupted(t)
    BY <2>1 DEF Interrupted
  <2>2. CASE Inspects(t)
    BY <2>2 DEF Inspects
  <2>3. CASE RemovesAbsent(t)
    BY <2>3 DEF RemovesAbsent
  <2> QED
    BY <2>1, <2>2, <2>3
<1>3. "reforward" \in ReattachPcs /\ "remove" \in ReattachPcs
  BY DEF ReattachPcs
<1>4. ASSUME NEW exc \in {"late", "cancelled", "unavailable", "error", "absent"}, Abandons(t, exc)
      PROVE  Moves(t)
  <2>1. exc \in Raised
    BY RaisedTyped
  <2> QED
    BY <1>1, <1>4, <2>1, AbandonsMoves
<1> QED
  BY <1>1, <1>2, <1>3, <1>4, AttemptGoes

\* An attempt verifies the new forward and commits.
LEMMA VerifiesMoves ==
  ASSUME MoveInv, NEW t \in Task, ReattachVerifies(t)
  PROVE  Moves(t)
<1>1. task[t].pc \in ReattachPcs /\ Fresh(task[t]) /\ lock' = lock
  BY DEF ReattachVerifies, At, ReattachPcs, Fresh
<1>2. CASE Abandons(t, "error")
  BY <1>1, <1>2, AbandonsMoves, RaisedTyped
<1>3. ASSUME NEW l \in Ledger, Become(t, [task[t] EXCEPT !.pc = "commit", !.ledger = l])
      PROVE  Moves(t)
  <2> DEFINE q == [task[t] EXCEPT !.pc = "commit", !.ledger = l]
  <2>1. task[t] \in TaskRecord /\ "commit" \in Label /\ "commit" \in ReattachPcs
    BY TaskFacts DEF Label, RetryPcs, ReattachPcs
  <2>2. Like(q, task[t]) /\ q.pc = "commit" /\ q.c = task[t].c
    BY <2>1 DEF TaskRecord, Like
  <2>3. task' = [task EXCEPT ![t] = q]
    BY <1>3 DEF Become
  <2> HIDE DEF q
  <2> QED
    BY <1>1, <2>1, <2>2, <2>3, AttemptStays
<1>4. (IF Recoverable(task[t].sid) THEN {"completed"} ELSE {}) \in Ledger
  BY LedgerTyped
<1> QED
  BY <1>2, <1>3, <1>4 DEF ReattachVerifies

\* An attempt reads the row back, or drops its connection.
LEMMA AttemptEndMoves ==
  ASSUME MoveInv, NEW t \in Task, ReattachReads(t) \/ DropsConn(t)
  PROVE  Moves(t)
<1>1. task[t].pc \in ReattachPcs /\ Reattacher(t, task[t]) /\ Holding(task[t])
  BY AtReattach DEF ReattachReads, DropsConn, At, ReattachPcs
<1>2. ASSUME NEW exc, Raises(t, task[t], exc) PROVE Moves(t)
  BY <1>1, <1>2, RaisesMoves
<1>3. CASE Reattached(t)
  <2>1. CASE task[t].kind \in {"retry", "watch"}
    <3>1. End(t) /\ Release(task[t].alias)
      BY <1>3, <2>1 DEF Reattached, Unlocks
    <3> QED
      BY <1>1, <3>1, EndMoves
  <2>2. CASE task[t].kind = "boot"
    <3>1. t = Boot /\ NextRow(task[Boot])
      BY <1>1, <1>3, <2>2 DEF Reattached, Reattacher, KindOK
    <3> QED
      BY <1>1, <3>1, NextRowMoves
  <2> QED
    BY <1>1, <2>1, <2>2 DEF Reattacher
<1> QED
  BY <1>2, <1>3 DEF ReattachReads, DropsConn

\* The attempt of t can be installed: its commit applied and the session has no port
\* in the registry.
Installable(t) == "completed" \in task[t].ledger /\ registry[task[t].sid] = None

\* An attempt that cannot be installed gives up, or raises with its new tunnel in place.
LEMMA InstallFailsMoves ==
  ASSUME MoveInv, NEW t \in Task, ReattachInstalls(t), ~Installable(t)
  PROVE  Moves(t)
<1>1. /\ task[t].pc \in ReattachPcs
      /\ (lock' = lock /\ Abandons(t, "unavailable")) \/ Raises(t, task[t], "error")
  BY DEF ReattachInstalls, At, ReattachPcs, Installable
<1>2. Reattacher(t, task[t]) /\ Holding(task[t])
  BY <1>1, AtReattach
<1> QED
  BY <1>1, <1>2, AbandonsMoves, RaisesMoves, RaisedTyped

\* The pause between two attempts ends.
LEMMA BackoffMoves ==
  ASSUME MoveInv, NEW t \in Task, BackoffEnds(t)
  PROVE  Moves(t)
<1> DEFINE n == task[t].tries + 1
           r == [task[t] EXCEPT !.pc = "attempt", !.tries = n]
<1>1. /\ ShapeOK(t, task[t]) /\ task[t].pc = "backoff"
  BY DEF BackoffEnds, At, MoveInv, TaskShape
<1>2. task[t] \in TaskRecord /\ task[t].tries < MaxTries /\ task[t].sid \in Sid
      /\ KindOK(t, task[t].kind) /\ Suspended(task[t])
  BY <1>1 DEF ShapeOK
<1>3. n \in 0..MaxTries
  <2>1. task[t].tries \in 0..MaxTries
    BY <1>2 DEF TaskRecord
  <2> QED
    BY <1>2, <2>1, ServiceAssumption
<1>4. "attempt" \in Label /\ task[t].kind \in {"retry", "watch"}
  BY <1>1, <1>2 DEF Label, WatchPcs, Suspended, ClosePcs, StartPcs, BootPcs, DoClosePcs,
     ReattachPcs
<1> HIDE DEF n
<1>5. Like(r, task[t]) /\ r.pc = "attempt"
  BY <1>2, <1>3, <1>4 DEF TaskRecord, Like
<1>6. \/ task[t].kind = "retry" /\ Reattaches(t, r)
      \/ task[t].kind = "watch" /\ task' = [task EXCEPT ![t] = r] /\ Enqueue(t, task[t].alias)
  BY <1>4 DEF BackoffEnds, Become, n
<1> HIDE DEF r
<1>7. CASE task[t].kind = "retry" /\ Reattaches(t, r)
  <2>1. Holding(task[t]) /\ task[t].alias \in Alias
    BY <1>1, <1>7 DEF Holding, ShapeOK, Busy
  <2>2. Reattacher(t, r)
    BY <1>2, <1>4, <1>5, <2>1 DEF Like, Reattacher
  <2> QED
    BY <1>5, <1>7, <2>1, <2>2, ReattachesMoves DEF Like
<1>8. CASE task[t].kind = "watch" /\ task' = [task EXCEPT ![t] = r] /\ Enqueue(t, task[t].alias)
  <2>1. ~Busy(task[t])
    BY <1>1, <1>8 DEF Busy, Queued, Holding, DoClosePcs, ReattachPcs
  <2>2. task[t].alias \in Alias
    BY <1>1 DEF ShapeOK
  <2>3. Reattacher(t, r) /\ Queued(r) /\ ~Holding(r) /\ ~Fresh(r) /\ Suspended(r)
    BY <1>2, <1>4, <1>5, <1>8, <2>2 DEF Like, Reattacher, Queued, Holding, Fresh, Suspended,
       WatchPcs, DoClosePcs, ReattachPcs
  <2>4. LockMove(task, lock, t, r, lock')
    BY <1>5, <1>8, <2>1, <2>2, <2>3 DEF LockMove, Joins, Like, Busy, Enqueue
  <2> QED
    BY <1>1, <1>5, <1>8, <2>3, <2>4, ReattacherMoves
<1> QED
  BY <1>6, <1>7, <1>8

\* The options of a retry whose session has settled.
LEMMA RetriesNowMoves ==
  ASSUME MoveInv, NEW o \in Op, Holding(task[o]), task[o].kind = "retry",
         task[o].sid \in Sid, RetriesNow(o)
  PROVE  Moves(o)
<1> DEFINE r == [task[o] EXCEPT !.tries = 1]
<1>1. o \in Task /\ task[o] \in TaskRecord /\ Busy(task[o]) /\ task[o].alias \in Alias
  BY OpFacts DEF Busy
<1>2. CASE DoesClose(o, task[o]) /\ lock' = lock
  BY <1>1, <1>2, DoesCloseMoves
<1>3. CASE Reattaches(o, r)
  <2>1. 1 \in 0..MaxTries
    BY ServiceAssumption
  <2>2. Like(r, task[o])
    BY <1>1, <2>1 DEF TaskRecord, Like
  <2> HIDE DEF r
  <2>3. Reattacher(o, r)
    BY <1>1, <2>2 DEF Reattacher, Like, KindOK
  <2> QED
    BY <1>1, <1>3, <2>2, <2>3, ReattachesMoves DEF Like
<1> QED
  BY <1>2, <1>3 DEF RetriesNow

\* retry: begin, proceed once the start task has settled, open again.
LEMMA RetryMoves ==
  ASSUME MoveInv, NEW o \in Op, RetryStep(o)
  PROVE  Moves(o)
<1>1. o \in Task /\ task[o] \in TaskRecord
  BY OpFacts
<1>2. CASE RetryBegins(o)
  <2>1. Holding(task[o]) /\ task[o].kind = "retry" /\ task[o].pc = "looked_up"
    BY <1>2 DEF RetryBegins, At, Holding
  <2>2. CASE task[o].rec.state # "error"
    <3>1. End(o) /\ Release(task[o].alias)
      BY <1>2, <2>2 DEF RetryBegins, Unlocks
    <3> QED
      BY <1>1, <2>1, <3>1, EndMoves
  <2>3. CASE task[o].rec.state = "error"
    <3>1. task[o].sid \in Sid
      <4>1. task[o].rec # NoRow
        BY <2>3 DEF NoRow
      <4>2. ShapeOK(o, task[o])
        BY <1>1 DEF MoveInv, TaskShape
      <4>3. task[o].sid # None
        BY <2>1, <4>1, <4>2 DEF ShapeOK
      <4> QED
        BY <1>1, <4>3 DEF TaskRecord
    <3>2. CASE Goto(o, "start_settles") /\ lock' = lock
      BY <2>1, <3>1, <3>2, OpSettles
    <3>3. CASE RetriesNow(o)
      BY <2>1, <3>1, <3>3, RetriesNowMoves
    <3> QED
      BY <1>2, <2>3, <3>2, <3>3 DEF RetryBegins
  <2> QED
    BY <2>2, <2>3
<1>3. CASE RetryProceeds(o)
  <2>1. Holding(task[o]) /\ task[o].kind = "retry" /\ RetriesNow(o) /\ task[o].sid \in Sid
    BY <1>3, OpFacts DEF RetryProceeds, At, Holding
  <2> QED
    BY <2>1, RetriesNowMoves
<1>4. CASE RetryReopens(o)
  <2>1. Holding(task[o]) /\ task[o].alias \in Alias /\ Busy(task[o])
    BY <1>4, OpFacts DEF RetryReopens, At, Holding, Busy
  <2>2. CASE End(o) /\ Release(task[o].alias)
    BY <1>1, <2>1, <2>2, EndMoves
  <2>3. CASE /\ Become(o, [IdleTask EXCEPT !.pc = "enter", !.kind = "open",
                                           !.alias = task[o].alias])
             /\ lock' = [lock EXCEPT ![task[o].alias] = Append(Tail(@), o)]
    <3> DEFINE q == [IdleTask EXCEPT !.pc = "enter", !.kind = "open",
                                     !.alias = task[o].alias]
    <3>1. "enter" \in Label /\ "open" \in Kind
      BY DEF Label, Kind
    <3>2. q \in TaskRecord /\ q.pc = "enter" /\ q.kind = "open" /\ q.alias = task[o].alias
      BY <2>1, <3>1, IdleTyped DEF TaskRecord
    <3>3. task' = [task EXCEPT ![o] = q]
      BY <2>3 DEF Become
    <3> HIDE DEF q
    <3>4. Queued(q) /\ ~Holding(q) /\ ~Fresh(q)
      BY <3>2 DEF Queued, Holding, Fresh, DoClosePcs, ReattachPcs
    <3>5. LockMove(task, lock, o, q, lock')
      BY <2>1, <2>3, <3>2, <3>4 DEF LockMove, Requeues
    <3> QED
      BY <2>1, <3>2, <3>3, <3>4, <3>5, OpMove DEF Suspended, Busy
  <2> QED
    BY <1>4, <2>2, <2>3 DEF RetryReopens, Unlocks
<1> QED
  BY <1>2, <1>3, <1>4 DEF RetryStep

\* An open that finds no slot left removes its row.
LEMMA OpenGivesUpMoves ==
  ASSUME MoveInv, NEW o \in Op, OpenStarts(o), Cardinality(owned) >= Capacity
  PROVE  Moves(o)
<1>1. o \in Task /\ Holding(task[o]) /\ End(o) /\ Release(task[o].alias)
  BY OpFacts DEF OpenStarts, At, Holding
<1> QED
  BY <1>1, EndMoves

-----------------------------------------------------------------------------
(***************************************************************************)
(* Watchers.                                                               *)
(***************************************************************************)
\* What the record of an installed forward's watcher looks like.
LEMMA WatchFacts ==
  ASSUME MoveInv, NEW c \in Conn, task[c].pc # "idle"
  PROVE  /\ c \in Task /\ task[c] \in TaskRecord /\ task[c].kind = "watch"
         /\ task[c].pc \in WatchPcs /\ task[c].sid \in Sid
         /\ Busy(task[c]) => task[c].alias \in Alias
         /\ row[task[c].sid] \in Row /\ task[c].rec \in Row
         /\ tunnels[task[c].sid] \in Tunnel
<1>1. c \in Task /\ ShapeOK(c, task[c])
  BY DEF Task, MoveInv, TaskShape
<1>2. c \notin Op /\ c \notin Sid /\ c # Boot
  BY ServiceAssumption
<1>3. task[c].kind \in {"none", "watch"}
  BY <1>1, <1>2 DEF ShapeOK, KindOK
<1>4. task[c].kind = "watch" /\ task[c].pc \in WatchPcs
  BY <1>1, <1>3 DEF ShapeOK, Suspended
<1>5. task[c].sid \in Sid
  BY <1>1, <1>4 DEF ShapeOK, WatchPcs, ReattachPcs
<1>6. task[c].rec \in Row
  BY <1>1 DEF ShapeOK, TaskRecord
<1> QED
  BY <1>1, <1>4, <1>5, <1>6 DEF ShapeOK, MoveInv, TypeOK, StoreTypeOK

\* A watcher goes from one await to another.
LEMMA WatchMove ==
  ASSUME MoveInv, NEW c \in Conn, task[c].pc # "idle", NEW q \in TaskRecord,
         task' = [task EXCEPT ![c] = q], q.kind = "watch", q.sid \in Sid,
         q.pc \in {"initial", "exit", "exit_checks", "close_lost", "attempt",
                   "attempt_checks", "lost", "lost_checks"},
         Busy(q) => q.alias \in Alias,
         LockMove(task, lock, c, q, lock')
  PROVE  Moves(c)
<1>1. c \in Task
  BY DEF Task
<1>2. KindOK(c, q.kind) /\ Suspended(q)
  BY DEF KindOK, Suspended, WatchPcs
<1>3. ShapeOK(c, q)
  BY <1>2 DEF ShapeOK
<1>4. FreshMove(task, c, q)
  BY DEF FreshMove, Fresh
<1> QED
  BY <1>1, <1>3, <1>4, MovesTo

\* The watcher wakes, reads the row and queues for the lock.
LEMMA WatcherWakesMoves ==
  ASSUME MoveInv, NEW c \in Conn, WatcherWakes(c) \/ WatcherQueues(c)
  PROVE  Moves(c)
<1>1. /\ task[c].pc \in {"watching", "initial"} /\ task[c].pc # "idle"
      /\ c \in Task /\ task[c] \in TaskRecord /\ task[c].kind = "watch"
      /\ task[c].sid \in Sid /\ row[task[c].sid] \in Row /\ task[c].rec \in Row
  BY WatchFacts DEF WatcherWakes, WatcherQueues, Resumes, At
<1>2. ~Busy(task[c])
  BY <1>1 DEF Busy, Queued, Holding, DoClosePcs, ReattachPcs
<1>3. CASE WatcherWakes(c)
  <2> DEFINE x == row[task[c].sid]
             q == [task[c] EXCEPT !.pc = "initial", !.rec = x]
  <2>1. "initial" \in Label /\ x \in Row
    BY <1>1 DEF Label, WatchPcs
  <2>2. task' = [task EXCEPT ![c] = q] /\ lock' = lock
    BY <1>3 DEF WatcherWakes, Become
  <2> HIDE DEF x
  <2>3. Like(q, task[c]) /\ q.pc = "initial"
    BY <1>1, <2>1 DEF TaskRecord, Like
  <2> HIDE DEF q
  <2>4. ~Busy(q)
    BY <2>3 DEF Busy, Queued, Holding, DoClosePcs, ReattachPcs
  <2>5. LockMove(task, lock, c, q, lock')
    BY <1>2, <2>2, <2>4 DEF LockMove, Stays, Busy
  <2> QED
    BY <1>1, <2>2, <2>3, <2>4, <2>5, WatchMove DEF Like
<1>4. CASE WatcherQueues(c) /\ task[c].rec.state = "closed"
  <2>1. End(c) /\ lock' = lock
    BY <1>4 DEF WatcherQueues
  <2> QED
    BY <1>1, <1>2, <2>1, EndMoves
<1>5. CASE WatcherQueues(c) /\ task[c].rec.state # "closed"
  <2> DEFINE a == task[c].rec.alias
             q == [task[c] EXCEPT !.pc = "exit", !.alias = a, !.rec = NoRow]
  <2>1. task[c].rec \in LiveRow
    BY <1>1, <1>5, LiveRows
  <2>2. a \in Alias /\ "exit" \in Label /\ NoRow \in Row
    BY <2>1, NoRowIsRow DEF LiveRow, Label, WatchPcs
  <2>3. task' = [task EXCEPT ![c] = q] /\ lock' = [lock EXCEPT ![a] = Append(@, c)]
    BY <1>5 DEF WatcherQueues, Become, Enqueue
  <2> HIDE DEF a
  <2>4. q \in TaskRecord /\ q.kind = "watch" /\ q.sid = task[c].sid /\ q.alias = a
        /\ q.pc = "exit"
    BY <1>1, <2>2 DEF TaskRecord
  <2> HIDE DEF q
  <2>5. Queued(q) /\ ~Holding(q)
    BY <2>4 DEF Queued, Holding, DoClosePcs, ReattachPcs
  <2>6. LockMove(task, lock, c, q, lock')
    BY <1>2, <2>2, <2>3, <2>4, <2>5 DEF LockMove, Joins, Busy
  <2> QED
    BY <1>1, <2>2, <2>3, <2>4, <2>6, WatchMove
<1> QED
  BY <1>3, <1>4, <1>5

\* With the lock, the row is read again.
LEMMA WatcherReadsMoves ==
  ASSUME MoveInv, NEW c \in Conn, WatcherReads(c)
  PROVE  Moves(c)
<1> DEFINE x == row[task[c].sid]
<1>1. PICK p \in {"exit_checks", "attempt_checks", "lost_checks"} :
        /\ task' = [task EXCEPT ![c] = [task[c] EXCEPT !.pc = p, !.rec = x]]
        /\ task[c].pc \in {"exit", "attempt", "lost"}
        /\ Head(lock[task[c].alias]) = c /\ lock' = lock
  <2>1. PICK from \in {<<"exit", "exit_checks">>, <<"attempt", "attempt_checks">>,
                       <<"lost", "lost_checks">>} :
          /\ task[c].pc = from[1]
          /\ task' = [task EXCEPT ![c] = [task[c] EXCEPT !.pc = from[2], !.rec = x]]
    BY DEF WatcherReads, Resumes, At, Become
  <2>2. from[1] \in {"exit", "attempt", "lost"}
        /\ from[2] \in {"exit_checks", "attempt_checks", "lost_checks"}
    OBVIOUS
  <2>3. Head(lock[task[c].alias]) = c /\ lock' = lock
    BY DEF WatcherReads, Holds
  <2> HIDE DEF x
  <2> QED
    BY <2>1, <2>2, <2>3
<1> DEFINE q == [task[c] EXCEPT !.pc = p, !.rec = x]
<1>2. /\ task[c].pc # "idle" /\ task[c] \in TaskRecord /\ task[c].kind = "watch"
      /\ task[c].sid \in Sid /\ x \in Row /\ Busy(task[c]) /\ task[c].alias \in Alias
  BY <1>1, WatchFacts DEF Busy, Queued
<1>3. p \in Label
  BY DEF Label, WatchPcs
<1>4. task' = [task EXCEPT ![c] = q]
  BY <1>1
<1> HIDE DEF x
<1>5. Like(q, task[c]) /\ q.pc = p
  BY <1>2, <1>3 DEF TaskRecord, Like
<1> HIDE DEF q
<1>6. Holding(q)
  BY <1>5 DEF Holding
<1>7. LockMove(task, lock, c, q, lock')
  BY <1>1, <1>2, <1>5, <1>6 DEF LockMove, Stays, Busy, Like
<1> QED
  BY <1>2, <1>4, <1>5, <1>7, WatchMove DEF Like

\* The tunnel is taken down, or left to a close or to its successor.
LEMMA WatcherExitsMoves ==
  ASSUME MoveInv, NEW c \in Conn, WatcherExits(c)
  PROVE  Moves(c)
<1> DEFINE x == tunnels[task[c].sid]
           q == [task[c] EXCEPT !.pc = "close_lost", !.c = c, !.old = x]
<1>1. task[c].pc = "exit_checks"
  BY DEF WatcherExits, Resumes, At
<1>2. /\ task[c].pc # "idle" /\ task[c] \in TaskRecord /\ task[c].kind = "watch" /\ c \in Task
      /\ task[c].sid \in Sid /\ x \in Tunnel /\ Holding(task[c]) /\ task[c].alias \in Alias
  BY <1>1, WatchFacts DEF Busy, Holding
<1>3. \/ End(c) /\ Release(task[c].alias)
      \/ task' = [task EXCEPT ![c] = q] /\ lock' = lock
  BY DEF WatcherExits, Unlocks, Become
<1>4. "close_lost" \in Label
  BY DEF Label, WatchPcs
<1> HIDE DEF x
<1>5. Like(q, task[c]) /\ q.pc = "close_lost"
  BY <1>2, <1>4 DEF TaskRecord, Like
<1> HIDE DEF q
<1>6. Holding(q)
  BY <1>5 DEF Holding
<1>7. lock' = lock => LockMove(task, lock, c, q, lock')
  BY <1>2, <1>5, <1>6 DEF LockMove, Stays, Busy, Like
<1> QED
  BY <1>2, <1>3, <1>5, <1>7, WatchMove, EndMoves DEF Like

\* It queues again for its first attempt, or to mark the loss.
LEMMA WatcherRequeuesMoves ==
  ASSUME MoveInv, NEW c \in Conn, WatcherDrops(c) \/ WatcherLate(c)
  PROVE  Moves(c)
<1>1. CASE WatcherDrops(c)
  <2> DEFINE q == [task[c] EXCEPT !.pc = "attempt", !.c = None, !.old = NoTunnel,
                                  !.tries = 1]
  <2>1. task[c].pc = "close_lost" /\ task' = [task EXCEPT ![c] = q]
        /\ lock' = [lock EXCEPT ![task[c].alias] = Append(Tail(@), c)]
    BY <1>1 DEF WatcherDrops, At, Become
  <2>2. /\ task[c].pc # "idle" /\ task[c] \in TaskRecord /\ task[c].kind = "watch"
        /\ task[c].sid \in Sid /\ Holding(task[c]) /\ Busy(task[c]) /\ task[c].alias \in Alias
    BY <2>1, WatchFacts DEF Busy, Holding
  <2>3. "attempt" \in Label /\ 1 \in 0..MaxTries /\ NoTunnel \in Tunnel
    BY ServiceAssumption, NoTunnelTyped DEF Label, WatchPcs
  <2>4. Like(q, task[c]) /\ q.pc = "attempt"
    BY <2>2, <2>3 DEF TaskRecord, Like
  <2> HIDE DEF q
  <2>5. Queued(q) /\ ~Holding(q)
    BY <2>4 DEF Queued, Holding, DoClosePcs, ReattachPcs
  <2>6. LockMove(task, lock, c, q, lock')
    BY <2>1, <2>2, <2>4, <2>5 DEF LockMove, Requeues, Like
  <2> QED
    BY <2>1, <2>2, <2>4, <2>6, WatchMove DEF Like
<1>2. CASE WatcherLate(c)
  <2> DEFINE q == [task[c] EXCEPT !.pc = "lost"]
  <2>1. task[c].pc \in {"attempt", "attempt_checks"} /\ Goto(c, "lost")
        /\ lock' = [lock EXCEPT ![task[c].alias] = Append(Without(@, c), c)]
    BY <1>2 DEF WatcherLate
  <2>2. /\ task[c].pc # "idle" /\ task[c] \in TaskRecord /\ task[c].kind = "watch"
        /\ task[c].sid \in Sid /\ Busy(task[c]) /\ task[c].alias \in Alias
    BY <2>1, WatchFacts DEF Busy, Queued, Holding
  <2>3. "lost" \in Label
    BY DEF Label, WatchPcs
  <2>4. Like(q, task[c]) /\ q.pc = "lost"
    BY <2>2, <2>3 DEF TaskRecord, Like
  <2>5. task' = [task EXCEPT ![c] = q]
    BY <2>1 DEF Goto, MoveInv, TypeOK
  <2> HIDE DEF q
  <2>6. Queued(q) /\ ~Holding(q)
    BY <2>4 DEF Queued, Holding, DoClosePcs, ReattachPcs
  <2>7. LockMove(task, lock, c, q, lock')
    BY <2>1, <2>2, <2>4, <2>6 DEF LockMove, Requeues, Like
  <2> QED
    BY <2>2, <2>4, <2>5, <2>7, WatchMove DEF Like
<1> QED
  BY <1>1, <1>2

\* An attempt begins, the loss is marked, or the watcher is cancelled.
LEMMA WatcherEndsMoves ==
  ASSUME MoveInv, NEW c \in Conn,
         WatcherAttempts(c) \/ WatcherMarksLoss(c) \/ WatcherCancelled(c)
  PROVE  Moves(c)
<1>0. task[c].pc # "idle"
  BY DEF WatcherAttempts, WatcherMarksLoss, WatcherCancelled, Resumes, At
<1>1. /\ c \in Task /\ task[c] \in TaskRecord /\ task[c].kind = "watch" /\ task[c].sid \in Sid
      /\ Busy(task[c]) => task[c].alias \in Alias
  BY <1>0, WatchFacts
<1>2. CASE WatcherAttempts(c)
  <2>1. Holding(task[c])
    BY <1>2 DEF WatcherAttempts, Resumes, At, Holding
  <2>2. Reattacher(c, task[c])
    BY <1>1, <2>1 DEF Reattacher, KindOK, Busy
  <2>3. Raises(c, task[c], "unavailable") \/ Reattaches(c, task[c])
    BY <1>2 DEF WatcherAttempts
  <2> QED
    BY <1>1, <2>1, <2>2, <2>3, RaisesMoves, ReattachesMoves
<1>3. CASE WatcherMarksLoss(c)
  <2>1. Holding(task[c]) /\ End(c) /\ Release(task[c].alias)
    BY <1>3 DEF WatcherMarksLoss, Resumes, At, Holding, Unlocks
  <2> QED
    BY <1>1, <2>1, EndMoves
<1>4. CASE WatcherCancelled(c)
  <2>1. CASE task[c].alias = None
    <3>1. ~Busy(task[c]) /\ lock' = lock /\ End(c)
      BY <1>1, <1>4, <2>1, NoneAssumption DEF WatcherCancelled
    <3> QED
      BY <1>1, <3>1, EndMoves
  <2>2. CASE task[c].alias # None
    <3>1. task[c].alias \in Alias /\ End(c) /\ Leave(c, task[c].alias)
      BY <1>1, <1>4, <2>2 DEF WatcherCancelled, TaskRecord
    <3> QED
      BY <1>1, <3>1, EndMoves
  <2> QED
    BY <2>1, <2>2
<1> QED
  BY <1>2, <1>3, <1>4

\* Every step of a watcher outside an attempt is a move.
LEMMA WatchStepMoves ==
  ASSUME MoveInv, NEW c \in Conn, WatchStep(c)
  PROVE  Moves(c)
BY WatcherWakesMoves, WatcherReadsMoves, WatcherExitsMoves, WatcherRequeuesMoves,
   WatcherEndsMoves DEF WatchStep

-----------------------------------------------------------------------------
(***************************************************************************)
(* Startup recovery.                                                       *)
(***************************************************************************)
\* What the record of the recovery task looks like while it runs.
LEMMA BootFacts ==
  ASSUME MoveInv, task[Boot].pc # "idle"
  PROVE  /\ Boot \in Task /\ task[Boot] \in TaskRecord /\ task[Boot].kind = "boot"
         /\ Busy(task[Boot]) => task[Boot].alias \in Alias
         /\ task[Boot].pc # "next_row" => task[Boot].sid \in Sid
         /\ task[Boot].pc = "next_row" => task[Boot].sid = None
         /\ Suspended(task[Boot])
<1>1. Boot \in Task /\ ShapeOK(Boot, task[Boot])
  BY DEF Task, MoveInv, TaskShape
<1>2. task[Boot].kind \in {"none", "boot"}
  BY <1>1, ServiceAssumption DEF ShapeOK, KindOK
<1>3. task[Boot].kind = "boot" /\ task[Boot].pc \in BootPcs
  BY <1>1, <1>2 DEF ShapeOK, Suspended
<1>4. task[Boot].pc \notin {"enter", "looked_up"}
  BY <1>3 DEF BootPcs, DoClosePcs, ReattachPcs
<1> QED
  BY <1>1, <1>3, <1>4 DEF ShapeOK

\* The awaits of recovery itself, all under the lock of its row.
RowPcs == {"reattach", "check_closing", "check_remote", "check_done", "drop", "dropped",
           "clear_lost", "mark_lost"}

\* Recovery holds the lock of the row it handles.
LEMMA AtRow ==
  ASSUME MoveInv, task[Boot].pc \in RowPcs
  PROVE  Holding(task[Boot]) /\ Reattacher(Boot, task[Boot])
<1>1. Holding(task[Boot]) /\ task[Boot].pc \notin {"idle", "next_row"}
  BY DEF RowPcs, Holding
<1> QED
  BY <1>1, BootFacts DEF Reattacher, KindOK, Busy

\* From one await to another with the row's lock.
LEMMA RowStays ==
  ASSUME MoveInv, task[Boot].pc \in RowPcs, NEW q, Like(q, task[Boot]), q.pc \in RowPcs,
         task' = [task EXCEPT ![Boot] = q], lock' = lock
  PROVE  Moves(Boot)
<1>1. Holding(task[Boot]) /\ Reattacher(Boot, task[Boot]) /\ task[Boot].kind = "boot"
      /\ Boot \in Task
  <2>1. task[Boot].pc # "idle"
    BY DEF RowPcs
  <2> QED
    BY <2>1, AtRow, BootFacts
<1>2. Reattacher(Boot, q) /\ Holding(q) /\ ~Fresh(q) /\ q.pc \notin {"looked_up", "next_row", "backoff"}
  BY <1>1 DEF Like, Reattacher, RowPcs, Holding, Fresh
<1>3. Suspended(q)
  BY <1>1 DEF Like, RowPcs, Suspended, BootPcs
<1> QED
  BY <1>1, <1>2, <1>3, ReattacherHolds DEF Like

\* Recovery goes on with its row, locals unchanged.
LEMMA RowGoes ==
  ASSUME MoveInv, task[Boot].pc \in RowPcs, NEW p \in RowPcs, Goto(Boot, p), lock' = lock
  PROVE  Moves(Boot)
<1> DEFINE q == [task[Boot] EXCEPT !.pc = p]
<1>1. task[Boot] \in TaskRecord /\ p \in Label
  BY BootFacts DEF RowPcs, Label, BootPcs
<1>2. Like(q, task[Boot]) /\ q.pc = p
  BY <1>1 DEF TaskRecord, Like
<1>3. task' = [task EXCEPT ![Boot] = q]
  BY DEF Goto, MoveInv, TypeOK
<1> HIDE DEF q
<1> QED
  BY <1>2, <1>3, RowStays

\* Recovery takes up a row whose lock is free.
LEMMA RecoverRowMoves ==
  ASSUME MoveInv, RecoveryIsAlone, RecoverRow(Boot)
  PROVE  Moves(Boot) /\ task'[Boot].pc # "idle"
<1> DEFINE s == CHOOSE u \in unrecovered : TRUE
           a == row[s].alias
           x == row[s]
           mine == [task[Boot] EXCEPT !.sid = s, !.alias = a, !.rec = x]
<1>1. /\ task[Boot].pc = "next_row" /\ task[Boot].pc # "idle" /\ s \in unrecovered
      /\ lock[a] = <<>> /\ lock' = [lock EXCEPT ![a] = Append(@, Boot)]
  BY DEF RecoverRow, At, Enqueue
<1>2. \/ DoesClose(Boot, mine)
      \/ task' = [task EXCEPT ![Boot] = [mine EXCEPT !.pc = "check_closing"]]
      \/ task' = [task EXCEPT ![Boot] = [mine EXCEPT !.pc = "reattach"]]
  <2>1. CASE row[s].state = "stopping"
    BY <2>1 DEF RecoverRow
  <2>2. CASE row[s].state = "error" /\ row[s].close_reason
    BY <2>2 DEF RecoverRow, Become
  <2>3. CASE row[s].state # "stopping" /\ ~(row[s].state = "error" /\ row[s].close_reason)
    BY <2>3 DEF RecoverRow, Become
  <2> QED
    BY <2>1, <2>2, <2>3
<1> HIDE DEF s
<1>3. /\ Boot \in Task /\ task[Boot] \in TaskRecord /\ task[Boot].kind = "boot"
      /\ task[Boot].sid = None
  BY <1>1, BootFacts
<1>4. s \in Sid /\ x \in LiveRow
  <2>1. s \in Sid
    BY <1>1 DEF MoveInv, TypeOK
  <2>2. Exists(s)
    BY <1>1, <1>3, <2>1, NoneAssumption DEF RecoveryIsAlone
  <2> QED
    BY <2>1, <2>2, LiveRows DEF MoveInv, TypeOK, StoreTypeOK, Exists
<1>5. a \in Alias /\ x \in Row
  BY <1>4 DEF LiveRow, Row
<1> HIDE DEF a, x
<1>6. mine \in TaskRecord /\ mine.kind = "boot" /\ mine.alias = a /\ mine.sid = s
  BY <1>3, <1>4, <1>5 DEF TaskRecord
<1> HIDE DEF mine
<1>7. \E q : /\ Like(q, mine) /\ q.pc \in {"fresh", "check_closing", "reattach"}
             /\ task' = [task EXCEPT ![Boot] = q]
  <2>1. CASE DoesClose(Boot, mine)
    <3>1. \E q : Like(q, mine) /\ q.pc = "fresh" /\ task' = [task EXCEPT ![Boot] = q]
      BY <1>3, <1>4, <1>6, <2>1, DoesCloseRecord
    <3> QED
      BY <3>1
  <2>2. ASSUME NEW p, p \in {"check_closing", "reattach"},
               task' = [task EXCEPT ![Boot] = [mine EXCEPT !.pc = p]]
        PROVE  \E q : /\ Like(q, mine) /\ q.pc \in {"fresh", "check_closing", "reattach"}
                      /\ task' = [task EXCEPT ![Boot] = q]
    <3>1. p \in Label
      BY <2>2 DEF Label, BootPcs
    <3> DEFINE q == [mine EXCEPT !.pc = p]
    <3>2. Like(q, mine) /\ q.pc = p
      BY <1>6, <3>1 DEF TaskRecord, Like
    <3> HIDE DEF q
    <3>3. task' = [task EXCEPT ![Boot] = q]
      BY <2>2 DEF q
    <3> QED
      BY <2>2, <3>2, <3>3
  <2> QED
    BY <1>2, <2>1, <2>2
<1>8. PICK q : /\ Like(q, mine) /\ q.pc \in {"fresh", "check_closing", "reattach"}
               /\ task' = [task EXCEPT ![Boot] = q]
  BY <1>7
<1>9. q \in TaskRecord /\ q.kind = "boot" /\ q.sid \in Sid /\ q.alias = a
  BY <1>4, <1>6, <1>8 DEF Like
<1>10. Holding(q) /\ Busy(q) /\ ~Fresh(q)
  BY <1>8, <1>9 DEF Holding, Busy, Fresh, DoClosePcs
<1>11. ~Busy(task[Boot])
  BY <1>1 DEF Busy, Queued, Holding, DoClosePcs, ReattachPcs
<1>12. LockMove(task, lock, Boot, q, lock')
  BY <1>1, <1>5, <1>9, <1>10, <1>11 DEF LockMove, Joins
<1>13. Suspended(q)
  BY <1>8, <1>9 DEF Suspended, BootPcs, DoClosePcs
<1>14. Reattacher(Boot, q)
  BY <1>5, <1>9 DEF Reattacher, KindOK
<1>15. Moves(Boot)
  BY <1>1, <1>3, <1>8, <1>10, <1>12, <1>13, <1>14, ReattacherMoves
<1>16. task'[Boot] = q
  BY <1>3, <1>8 DEF MoveInv, TypeOK
<1> QED
  BY <1>8, <1>15, <1>16

\* Recovery at work on its row, other than over a connection.
LEMMA RecoveryLocalMoves ==
  ASSUME MoveInv,
         \/ RecoveryReattaches(Boot) \/ RecoveryDrops(Boot) \/ RecoveryReleases(Boot)
         \/ RecoveryClearsLost(Boot) \/ RecoveryMarks(Boot)
  PROVE  Moves(Boot)
<1>0. Boot \in Task
  BY DEF Task
<1>1. task[Boot].pc \in RowPcs
  BY DEF RecoveryReattaches, RecoveryDrops, RecoveryReleases, RecoveryClearsLost,
         RecoveryMarks, At, RowPcs
<1>2. Holding(task[Boot]) /\ Reattacher(Boot, task[Boot])
  BY <1>1, AtRow
<1>3. CASE RecoveryReattaches(Boot)
  BY <1>0, <1>2, <1>3, ReattachesMoves DEF RecoveryReattaches
<1>4. CASE RecoveryDrops(Boot)
  <2>1. Goto(Boot, "dropped") /\ lock' = lock /\ "dropped" \in RowPcs
    BY <1>4 DEF RecoveryDrops, RowPcs
  <2> QED
    BY <1>1, <2>1, RowGoes
<1>5. CASE RecoveryClearsLost(Boot)
  <2>1. Goto(Boot, "mark_lost") /\ lock' = lock /\ "mark_lost" \in RowPcs
    BY <1>5 DEF RecoveryClearsLost, RowPcs
  <2> QED
    BY <1>1, <2>1, RowGoes
<1>6. CASE RecoveryReleases(Boot) \/ RecoveryMarks(Boot)
  BY <1>2, <1>6, NextRowMoves DEF RecoveryReleases, RecoveryMarks
<1> QED
  BY <1>3, <1>4, <1>5, <1>6

\* The inspection of a host on behalf of a failed close.
LEMMA RecoveryChecksMoves ==
  ASSUME MoveInv, RecoveryDials(Boot) \/ RecoveryInspects(Boot) \/ RecoveryChecked(Boot)
  PROVE  Moves(Boot)
<1>0. Boot \in Task
  BY DEF Task
<1>1. task[Boot].pc \in RowPcs
  BY DEF RecoveryDials, RecoveryInspects, RecoveryChecked, At, RowPcs
<1>2. Holding(task[Boot]) /\ Reattacher(Boot, task[Boot]) /\ task[Boot] \in TaskRecord
  BY <1>1, AtRow DEF Reattacher
<1>3. ASSUME NEW q, Like(q, task[Boot]), q.pc \in RowPcs, lock' = lock,
             task' = [task EXCEPT ![Boot] = q]
      PROVE  Moves(Boot)
  BY <1>1, <1>3, RowStays
<1>4. CASE RecoveryDials(Boot)
  <2>1. ASSUME NEW c \in Conn, Become(Boot, [task[Boot] EXCEPT !.pc = "check_remote", !.c = c]),
               lock' = lock
        PROVE  Moves(Boot)
    <3> DEFINE q == [task[Boot] EXCEPT !.pc = "check_remote", !.c = c]
    <3>1. "check_remote" \in Label /\ "check_remote" \in RowPcs
      BY DEF Label, BootPcs, RowPcs
    <3>2. Like(q, task[Boot]) /\ q.pc = "check_remote"
      BY <1>2, <3>1 DEF TaskRecord, Like
    <3>3. task' = [task EXCEPT ![Boot] = q]
      BY <2>1 DEF Become
    <3> HIDE DEF q
    <3> QED
      BY <1>3, <2>1, <3>1, <3>2, <3>3
  <2>2. CASE NextRow(task[Boot])
    BY <1>2, <2>2, NextRowMoves
  <2> QED
    BY <1>4, <2>1, <2>2 DEF RecoveryDials
<1>5. CASE RecoveryInspects(Boot)
  <2>1. PICK b \in BOOLEAN :
          Become(Boot, [task[Boot] EXCEPT !.pc = "check_done", !.absent = b])
    BY <1>5 DEF RecoveryInspects
  <2> DEFINE q == [task[Boot] EXCEPT !.pc = "check_done", !.absent = b]
  <2>2. "check_done" \in Label /\ "check_done" \in RowPcs
    BY DEF Label, BootPcs, RowPcs
  <2>3. Like(q, task[Boot]) /\ q.pc = "check_done"
    BY <1>2, <2>2 DEF TaskRecord, Like
  <2>4. task' = [task EXCEPT ![Boot] = q] /\ lock' = lock
    BY <1>5, <2>1 DEF Become, RecoveryInspects
  <2> HIDE DEF q
  <2> QED
    BY <1>3, <2>2, <2>3, <2>4
<1>6. CASE RecoveryChecked(Boot)
  <2>1. CASE /\ Become(Boot, [task[Boot] EXCEPT !.pc = "drop", !.c = None])
             /\ lock' = lock
    <3> DEFINE q == [task[Boot] EXCEPT !.pc = "drop", !.c = None]
    <3>1. "drop" \in Label /\ "drop" \in RowPcs
      BY DEF Label, BootPcs, RowPcs
    <3>2. Like(q, task[Boot]) /\ q.pc = "drop"
      BY <1>2, <3>1 DEF TaskRecord, Like
    <3>3. task' = [task EXCEPT ![Boot] = q]
      BY <2>1 DEF Become
    <3> HIDE DEF q
    <3> QED
      BY <1>3, <2>1, <3>1, <3>2, <3>3
  <2>2. CASE NextRow(task[Boot])
    BY <1>2, <2>2, NextRowMoves
  <2> QED
    BY <1>6, <2>1, <2>2 DEF RecoveryChecked
<1> QED
  BY <1>4, <1>5, <1>6

\* Recovery ends.
LEMMA RecoveryEndsMoves ==
  ASSUME MoveInv, RecoveryEnds(Boot)
  PROVE  Moves(Boot)
<1>1. Boot \in Task /\ End(Boot) /\ lock' = lock /\ task[Boot].pc = "next_row"
  BY DEF Task, RecoveryEnds, At
<1>2. ~Busy(task[Boot])
  BY <1>1 DEF Busy, Queued, Holding, DoClosePcs, ReattachPcs
<1> QED
  BY <1>1, <1>2, EndMoves

\* Every step of recover_all outside _do_close and attempts is a move.
LEMMA RecoveryStepMoves ==
  ASSUME MoveInv, RecoveryIsAlone, RecoveryStep(Boot)
  PROVE  Moves(Boot)
BY RecoverRowMoves, RecoveryLocalMoves, RecoveryChecksMoves, RecoveryEndsMoves
   DEF RecoveryStep

-----------------------------------------------------------------------------
(***************************************************************************)
(* What moves preserve, and the steps that are two moves: a task ends or   *)
(* goes on, and starts another one.                                        *)
(***************************************************************************)
\* The part of the invariant that is about tasks and locks.
TasksOK(T, L) ==
  /\ T \in [Task -> TaskRecord] /\ L \in [Alias -> Seq(Task)]
  /\ \A t \in Task : ShapeOK(t, T[t])
  /\ LockOK(T, L) /\ FreshOK(T)

\* The invariant has this part.
LEMMA MoveInvTasks ==
  ASSUME MoveInv
  PROVE  TasksOK(task, lock)
BY DEF MoveInv, TypeOK, TaskShape, LockOrder, FreshConnections, TasksOK

\* A move preserves it, for any tasks and locks.
LEMMA MoveKeepsTasks ==
  ASSUME NEW T, NEW L, TasksOK(T, L), NEW t \in Task, NEW T2, NEW M,
         Changes(T, t, T2), ShapeOK(t, T2[t]), LockMove(T, L, t, T2[t], M),
         FreshMove(T, t, T2[t])
  PROVE  TasksOK(T2, M)
<1>1. T2 \in [Task -> TaskRecord] /\ \A u \in Task : ShapeOK(u, T2[u])
  BY DEF Changes, TasksOK
<1>2. LockTyped(T, L)
  BY DEF LockTyped, TasksOK, ShapeOK
<1>3. Busy(T2[t]) => T2[t].alias \in Alias
  BY DEF ShapeOK
<1>4. M \in [Alias -> Seq(Task)] /\ LockOK(T2, M)
  BY <1>2, <1>3, LockMoveKeepsOrder
<1>5. FreshOK(T2)
  BY FreshMoveKeeps DEF TasksOK
<1> QED
  BY <1>1, <1>4, <1>5 DEF TasksOK

\* A move of the present state preserves it.
LEMMA MovesKeep ==
  ASSUME MoveInv, NEW t \in Task, Moves(t)
  PROVE  TasksOK(task', lock')
BY MoveInvTasks, MoveKeepsTasks DEF Moves

\* Replacing a task's record changes only that task.
LEMMA RecordChanges ==
  ASSUME NEW T \in [Task -> TaskRecord], NEW t \in Task, NEW r \in TaskRecord
  PROVE  Changes(T, t, [T EXCEPT ![t] = r]) /\ [T EXCEPT ![t] = r][t] = r
BY DEF Changes

\* The start task an open creates.
StartTask(a, s) == [IdleTask EXCEPT !.pc = "connect", !.kind = "start", !.alias = a, !.sid = s]

\* An open takes its slot: the handler ends and the start task begins.
LEMMA OpenStartsTasks ==
  ASSUME MoveInv, NEW o \in Op, OpenStarts(o)
  PROVE  TasksOK(task', lock')
<1>1. /\ o \in Task /\ Holding(task[o]) /\ task[o].sid \in Sid /\ task[o].alias \in Alias
      /\ Busy(task[o])
  BY OpFacts DEF OpenStarts, At, Holding, Busy
<1>2. CASE Cardinality(owned) >= Capacity
  BY <1>1, <1>2, OpenGivesUpMoves, MovesKeep
<1>3. CASE ~(Cardinality(owned) >= Capacity)
  <2> DEFINE s == task[o].sid
             r == StartTask(task[o].alias, s)
             T1 == [task EXCEPT ![o] = IdleTask]
  <2>1. task' = [T1 EXCEPT ![s] = r] /\ lock' = [lock EXCEPT ![task[o].alias] = Tail(@)]
    BY <1>3 DEF OpenStarts, Release, StartTask
  <2>2. s \in Sid /\ s \in Task /\ s # o /\ s \notin Conn
    BY <1>1, ServiceAssumption DEF Task
  <2>3. "connect" \in Label /\ "start" \in Kind
    BY StartLabels, KindsTyped
  <2> HIDE DEF s
  <2>4. r \in TaskRecord /\ r.pc = "connect" /\ r.kind = "start" /\ r.sid = s /\ r.exc = "none"
    BY <1>1, <2>2, <2>3, IdleTyped DEF TaskRecord, StartTask
  <2> HIDE DEF r
  <2>5. ShapeOK(s, r) /\ ~Busy(r) /\ ~Fresh(r)
    BY <2>2, <2>4, ExcTyped DEF ShapeOK, KindOK, Suspended, StartPcs, Busy, Queued, Holding,
       Fresh, DoClosePcs, ReattachPcs
  <2>6. TasksOK(task, lock) /\ task \in [Task -> TaskRecord]
    BY MoveInvTasks DEF TasksOK
  <2>7. Changes(task, o, T1) /\ T1[o] = IdleTask /\ T1 \in [Task -> TaskRecord]
    BY <1>1, <2>6, IdleTyped, RecordChanges DEF Changes
  <2>8. LockMove(task, lock, o, IdleTask, lock')
    BY <1>1, <2>1, IdleShape DEF LockMove
  <2>9. TasksOK(T1, lock')
    BY <1>1, <2>6, <2>7, <2>8, IdleShape, MoveKeepsTasks
  <2>10. T1[s] = task[s] /\ ~Busy(task[s])
    BY <2>2, <2>7, StartShape DEF Changes
  <2> HIDE DEF T1
  <2>11. Changes(T1, s, task') /\ task'[s] = r
    BY <2>1, <2>2, <2>4, <2>7, RecordChanges
  <2>12. LockMove(T1, lock', s, r, lock')
    BY <2>5, <2>10 DEF LockMove, Stays, Busy
  <2>13. FreshMove(T1, s, r)
    BY <2>2, <2>5 DEF FreshMove
  <2> QED
    BY <2>2, <2>5, <2>9, <2>11, <2>12, <2>13, MoveKeepsTasks
<1> QED
  BY <1>2, <1>3

\* A connection is installed: its task goes on and the watcher begins.
LEMMA WatcherBegins ==
  ASSUME MoveInv, NEW t \in Task, Fresh(task[t]), NEW s \in Sid, NEW r, ShapeOK(t, r),
         ~Fresh(r), LockMove(task, lock, t, r, lock), lock' = lock,
         task' = [[task EXCEPT ![t] = r] EXCEPT ![task[t].c] = Watcher(s)]
  PROVE  TasksOK(task', lock')
<1> DEFINE c == task[t].c
           w == Watcher(s)
           T1 == [task EXCEPT ![t] = r]
<1>1. TasksOK(task, lock) /\ task \in [Task -> TaskRecord] /\ r \in TaskRecord
  BY MoveInvTasks DEF TasksOK, ShapeOK
<1>2. c \in Conn /\ task[c].pc = "idle" /\ \A u \in Task : u # t /\ Fresh(task[u]) => task[u].c # c
  BY <1>1 DEF TasksOK, FreshOK
<1>3. task' = [T1 EXCEPT ![c] = w] /\ c \in Task /\ c # t
  BY <1>2 DEF Task, Fresh
<1> HIDE DEF c
<1>4. w \in TaskRecord /\ w.pc = "watching" /\ w.kind = "watch" /\ w.sid = s
  <2>1. "watching" \in Label /\ "watch" \in Kind
    BY KindsTyped DEF Label, WatchPcs
  <2> QED
    BY <2>1, IdleTyped DEF TaskRecord, Watcher
<1> HIDE DEF w
<1>5. ShapeOK(c, w) /\ ~Busy(w) /\ ~Fresh(w)
  BY <1>2, <1>4 DEF ShapeOK, KindOK, Suspended, WatchPcs, Busy, Queued, Holding,
     Fresh, DoClosePcs, ReattachPcs
<1>6. Changes(task, t, T1) /\ T1[t] = r /\ T1 \in [Task -> TaskRecord]
  BY <1>1, RecordChanges DEF Changes
<1>7. FreshMove(task, t, r)
  <2>1. task[t].pc # "idle"
    BY DEF Fresh
  <2> QED
    BY <2>1 DEF FreshMove
<1> HIDE DEF T1
<1>8. TasksOK(T1, lock)
  BY <1>1, <1>6, <1>7, MoveKeepsTasks
<1>9. T1[c] = task[c] /\ ~Busy(T1[c])
  BY <1>2, <1>3, <1>6 DEF Changes, Busy, Queued, Holding, DoClosePcs, ReattachPcs
<1>10. Changes(T1, c, task') /\ task'[c] = w
  <2>1. Changes(T1, c, [T1 EXCEPT ![c] = w]) /\ [T1 EXCEPT ![c] = w][c] = w
    BY <1>3, <1>4, <1>6, RecordChanges
  <2> QED
    BY <1>3, <2>1
<1>11. LockMove(T1, lock, c, w, lock)
  BY <1>5, <1>9 DEF LockMove, Stays, Busy
<1>12. FreshMove(T1, c, w)
  BY <1>2, <1>5, <1>6 DEF FreshMove, Changes
<1> QED
  BY <1>3, <1>5, <1>8, <1>10, <1>11, <1>12, MoveKeepsTasks

\* The start task installs tunnel and watcher.
LEMMA StartPublishesTasks ==
  ASSUME MoveInv, NEW s \in Sid, StartPublishes(s)
  PROVE  TasksOK(task', lock')
<1> DEFINE l == task[s].ledger \cup {"registry"}
           r == [task[s] EXCEPT !.pc = "verify", !.ledger = l]
<1>1. task[s].pc = "tunnel" /\ lock' = lock /\ Fresh(task[s]) /\ s \in Task
  BY DEF StartPublishes, Resumes, At, Fresh, Task
<1>2. /\ task[s] \in TaskRecord /\ task[s].kind = "start" /\ task[s].sid \in Sid
      /\ task[s].exc \in ErrorCode /\ task[s].ledger \in Ledger
  BY <1>1, StartFacts
<1>3. "verify" \in Label /\ l \in Ledger
  BY <1>2, StartLabels, LedgerTyped
<1>4. task' = [[task EXCEPT ![s] = r] EXCEPT ![task[s].c] = Watcher(s)]
  BY <1>1 DEF StartPublishes, MoveInv, TypeOK
<1> HIDE DEF l
<1>5. Like(r, task[s]) /\ r.pc = "verify" /\ r.exc = task[s].exc
  BY <1>2, <1>3 DEF TaskRecord, Like
<1> HIDE DEF r
<1>6. ~Busy(r) /\ ~Fresh(r)
  BY <1>5 DEF Busy, Queued, Holding, Fresh, DoClosePcs, ReattachPcs
<1>7. ShapeOK(s, r)
  BY <1>2, <1>5, <1>6 DEF ShapeOK, KindOK, Suspended, StartPcs, Like
<1>8. LockMove(task, lock, s, r, lock)
  BY <1>6, StartShape DEF LockMove, Stays, Busy
<1> QED
  BY <1>1, <1>4, <1>6, <1>7, <1>8, WatcherBegins

\* An attempt installs tunnel and watcher.
LEMMA ReattachInstallsTasks ==
  ASSUME MoveInv, NEW t \in Task, ReattachInstalls(t)
  PROVE  TasksOK(task', lock')
<1>1. CASE ~Installable(t)
  BY <1>1, InstallFailsMoves, MovesKeep
<1>2. CASE Installable(t)
  <2> DEFINE r == [task[t] EXCEPT !.pc = "installed", !.c = None, !.ledger = {}]
             s == task[t].sid
  <2>1. task[t].pc = "commit" /\ lock' = lock /\ Fresh(task[t]) /\ task[t].pc \in ReattachPcs
    BY <1>2 DEF ReattachInstalls, At, Fresh, ReattachPcs, Installable
  <2>2. Reattacher(t, task[t]) /\ Holding(task[t]) /\ s \in Sid /\ task[t] \in TaskRecord
    BY <2>1, AtReattach DEF Reattacher
  <2>3. "installed" \in Label /\ "installed" \in ReattachPcs /\ {} \in Ledger
    BY LedgerTyped DEF Label, RetryPcs, ReattachPcs
  <2>4. task' = [[task EXCEPT ![t] = r] EXCEPT ![task[t].c] = Watcher(s)]
    BY <1>2 DEF ReattachInstalls, Installable, MoveInv, TypeOK
  <2> HIDE DEF s
  <2>5. Like(r, task[t]) /\ r.pc = "installed"
    BY <2>2, <2>3 DEF TaskRecord, Like
  <2> HIDE DEF r
  <2>6. Holding(r) /\ ~Fresh(r) /\ Reattacher(t, r)
    BY <2>2, <2>3, <2>5 DEF Holding, Fresh, Reattacher, Like
  <2>7. Suspended(r)
    BY <2>3, <2>5, <2>6 DEF Reattacher, Suspended, RetryPcs, WatchPcs, BootPcs
  <2>8. ShapeOK(t, r)
    BY <2>5, <2>6, <2>7 DEF ShapeOK, Reattacher
  <2>9. LockMove(task, lock, t, r, lock)
    BY <2>2, <2>5, <2>6 DEF LockMove, Stays, Busy, Like
  <2> QED
    BY <2>1, <2>2, <2>4, <2>6, <2>8, <2>9, WatcherBegins
<1> QED
  BY <1>1, <1>2

\* Every step of an attempt to reattach.
LEMMA ReattachStepTasks ==
  ASSUME MoveInv, NEW t \in Task, ReattachStep(t)
  PROVE  TasksOK(task', lock')
<1>1. CASE ReattachInstalls(t)
  BY <1>1, ReattachInstallsTasks
<1>2. CASE ~ReattachInstalls(t)
  <2>1. Moves(t)
    BY <1>2, ReconnectsMoves, AttemptMoves, VerifiesMoves, AttemptEndMoves, BackoffMoves
       DEF ReattachStep
  <2> QED
    BY <2>1, MovesKeep
<1> QED
  BY <1>1, <1>2
=============================================================================
