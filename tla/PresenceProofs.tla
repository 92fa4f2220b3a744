---------------------------- MODULE PresenceProofs ----------------------------
(***************************************************************************)
(* Proofs about presence, for any number of clients and grace watchers.    *)
(***************************************************************************)
EXTENDS Presence, FiniteSetTheorems, TLAPS

-----------------------------------------------------------------------------
(***************************************************************************)
(* Types.                                                                  *)
(***************************************************************************)
\* _cancel_grace keeps the types.
LEMMA CancelGraceTyped ==
  ASSUME TypeOK, CancelGrace
  PROVE  timer' \in Watcher \cup {Nobody} /\ cancelled' \subseteq Watcher
BY DEF TypeOK, CancelGrace

\* So does a move of a closer,
LEMMA GotoTyped ==
  ASSUME TypeOK, NEW t \in Closer,
         NEW l \in {"idle", "sleep", "expired", "enter", "looked_up", "marked"},
         Goto(t, l)
  PROVE  closer' \in [Closer -> {"idle", "sleep", "expired", "enter", "looked_up", "marked"}]
BY DEF TypeOK, Goto

\* a fault,
LEMMA FaultTyped ==
  ASSUME TypeOK, NEW kind, Fault(kind)
  PROVE  faults' \in 0..MaxFaults
BY PresenceAssumption DEF TypeOK, Fault

\* and on_client_disconnected.
LEMMA DisconnectTyped ==
  ASSUME TypeOK, NEW t \in Watcher, OnClientDisconnected(t)
  PROVE  /\ count' \in Nat /\ timer' \in Watcher \cup {Nobody} /\ cancelled' \subseteq Watcher
         /\ deadline' \in BOOLEAN
         /\ closer' \in [Closer -> {"idle", "sleep", "expired", "enter", "looked_up", "marked"}]
<1>1. CASE ~owned
  BY <1>1, CancelGraceTyped DEF OnClientDisconnected, TypeOK
<1>2. CASE owned
  <2>1. count' \in Nat /\ cancelled' \subseteq Watcher
    BY <1>2 DEF OnClientDisconnected, TypeOK
  <2>2. \/ UNCHANGED <<deadline, timer, closer>>
        \/ Goto(t, "sleep") /\ timer' = t /\ deadline' = TRUE
    BY <1>2 DEF OnClientDisconnected
  <2>3. timer' \in Watcher \cup {Nobody} /\ deadline' \in BOOLEAN
    BY <2>2 DEF TypeOK
  <2>4. closer' \in [Closer -> {"idle", "sleep", "expired", "enter", "looked_up", "marked"}]
    BY <2>2, GotoTyped DEF TypeOK, Closer
  <2> QED
    BY <2>1, <2>3, <2>4
<1> QED
  BY <1>1, <1>2

\* Every step keeps the types.
LEMMA StepTyped ==
  ASSUME TypeOK, [Next]_vars
  PROVE  TypeOK'
<1>1. CASE UNCHANGED vars
  BY <1>1 DEF TypeOK, vars
<1>2. ASSUME NEW w \in Client, WsRoutes(w) \/ WsDials(w) PROVE TypeOK'
  BY <1>2 DEF WsRoutes, WsDials, Moves, TypeOK, durable, presence
<1>3. ASSUME NEW w \in Client, WsConnects(w) PROVE TypeOK'
  <2>1. CASE owned
    <3>1. /\ CancelGrace /\ count' = count + 1 /\ deadline' = FALSE
          /\ Moves(w, "dialing", "up")
          /\ UNCHANGED <<state, registered, owned, closer, lock, closing, faults>>
      BY <1>3, <2>1 DEF WsConnects, OnClientConnected
    <3>2. timer' \in Watcher \cup {Nobody} /\ cancelled' \subseteq Watcher
      BY <3>1, CancelGraceTyped
    <3>3. deadline' \in BOOLEAN
      BY <3>1
    <3>4. count' \in Nat
      BY <3>1 DEF TypeOK
    <3> QED
      BY <3>1, <3>2, <3>3, <3>4 DEF Moves, TypeOK
  <2>2. CASE ~owned
    <3>1. /\ UNCHANGED <<count, deadline, timer, cancelled>> /\ Moves(w, "dialing", "up")
          /\ UNCHANGED <<state, registered, owned, closer, lock, closing, faults>>
      BY <1>3, <2>2 DEF WsConnects, OnClientConnected
    <3> QED
      BY <3>1 DEF Moves, TypeOK
  <2> QED
    BY <2>1, <2>2
<1>4. ASSUME NEW w \in Client, WsEnds(w) PROVE TypeOK'
  <2>1. PICK t \in Watcher : OnClientDisconnected(t)
    BY <1>4 DEF WsEnds
  <2>2. faults' \in 0..MaxFaults /\ client' \in [Client -> {"out", "routed", "dialing", "up"}]
    BY <1>4, FaultTyped DEF WsEnds, Moves, TypeOK
  <2> QED
    BY <1>4, <2>1, <2>2, DisconnectTyped DEF WsEnds, TypeOK
<1>5. ASSUME NEW t \in Closer, GraceExpires(t) \/ GraceCloses(t) \/ CloseEnters(t) PROVE TypeOK'
  BY <1>5 DEF GraceExpires, GraceCloses, CloseEnters, Goto, TypeOK, durable, presence
<1>6. ASSUME NEW t \in Closer, CloseMarks(t) \/ CloseSpawns(t) PROVE TypeOK'
  BY <1>6 DEF CloseMarks, CloseSpawns, Goto, TypeOK, durable, presence, Closer
<1>7. ASSUME NEW t \in Closer, GraceCancelled(t) PROVE TypeOK'
  BY <1>7 DEF GraceCancelled, Goto, TypeOK, durable, presence
<1>8. ASSUME NEW t \in Closer, DoCloseEnds(t) PROVE TypeOK'
  BY <1>8, FaultTyped DEF DoCloseEnds, TypeOK, durable, presence
<1>9. ASSUME NEW t \in Closer, DoCloseForgets(t) PROVE TypeOK'
  BY <1>9, CancelGraceTyped DEF DoCloseForgets, TypeOK, durable, presence
<1>10. CASE CallsClose
  BY <1>10 DEF CallsClose, Goto, Closer, TypeOK, durable, presence
<1>11. CASE Restart
  BY <1>11, FaultTyped DEF Restart, RestoreDisconnectTimer, TypeOK, durable, Closer
<1>12. CASE Finished
  BY <1>1, <1>12 DEF Finished
<1>13. ASSUME NEW w \in Client, WsStep(w) PROVE TypeOK'
  BY <1>2, <1>3, <1>4, <1>13 DEF WsStep
<1>14. ASSUME NEW t \in Closer, CloserStep(t) PROVE TypeOK'
  BY <1>5, <1>6, <1>7, <1>8, <1>9, <1>14 DEF CloserStep
<1> QED
  BY <1>1, <1>10, <1>11, <1>12, <1>13, <1>14 DEF Next

\* An opened session has them.
LEMMA InitTyped == Init => TypeOK
<1> SUFFICES ASSUME Init PROVE TypeOK
  OBVIOUS
<1>1. deadline \in BOOLEAN /\ registered \in BOOLEAN /\ owned \in BOOLEAN
  BY DEF Init
<1>2. count \in Nat /\ faults \in 0..MaxFaults
  BY PresenceAssumption DEF Init
<1>3. /\ client \in [Client -> {"out", "routed", "dialing", "up"}]
      /\ closer \in [Closer -> {"idle", "sleep", "expired", "enter", "looked_up", "marked"}]
      /\ closing \in [Closer -> {"none", "work", "deleted"}]
  BY DEF Init
<1> QED
  BY <1>1, <1>2, <1>3 DEF Init, TypeOK

\* The variables keep their types.
THEOREM PresenceTypes == Spec => []TypeOK
BY InitTyped, StepTyped, PTL DEF Spec

-----------------------------------------------------------------------------
(***************************************************************************)
(* Nothing is left of a session without a slot.  OnClientDisconnected and  *)
(* DoCloseForgets, the only steps that end or meet that state, cancel the  *)
(* timer, and a timer is installed only while the slot is held.            *)
(***************************************************************************)
\* Every step keeps it so.
LEMMA StepLeavesNothing ==
  ASSUME TypeOK, NothingLeft, [Next]_vars
  PROVE  NothingLeft'
<1>0. Nobody \notin Watcher
  BY PresenceAssumption
<1>1. CASE UNCHANGED vars
  BY <1>1 DEF NothingLeft, vars, Idle, At
<1>2. ASSUME NEW w \in Client, WsRoutes(w) \/ WsDials(w) PROVE NothingLeft'
  BY <1>2 DEF WsRoutes, WsDials, NothingLeft, Idle, At, presence
<1>3. ASSUME NEW w \in Client, WsConnects(w) PROVE NothingLeft'
  BY <1>3 DEF WsConnects, OnClientConnected, NothingLeft, Idle, At
<1>4. ASSUME NEW w \in Client, WsEnds(w) PROVE NothingLeft'
  <2>1. PICK t \in Watcher : OnClientDisconnected(t)
    BY <1>4 DEF WsEnds
  <2>2. owned' = owned
    BY <1>4 DEF WsEnds
  <2>3. ~owned => count' = 0 /\ timer' = Nobody
    BY <2>1 DEF OnClientDisconnected, CancelGrace
  <2> QED
    BY <2>2, <2>3 DEF NothingLeft
<1>5. ASSUME NEW t \in Closer, GraceExpires(t) \/ GraceCloses(t) \/ CloseEnters(t) \/ CloseMarks(t)
      PROVE NothingLeft'
  <2>1. /\ ~Idle(t) /\ t \notin cancelled /\ \E l : Goto(t, l)
        /\ UNCHANGED <<owned, count, timer, cancelled>>
    BY <1>5 DEF GraceExpires, GraceCloses, CloseEnters, CloseMarks, Resumes, At, Idle, presence, durable
  <2>2. PICK l : closer' = [closer EXCEPT ![t] = l]
    BY <2>1 DEF Goto
  <2>3. ASSUME ~owned PROVE count' = 0 /\ (timer' = Nobody \/ Idle(timer)' \/ timer' \in cancelled')
    <3>1. count = 0 /\ (timer = Nobody \/ Idle(timer) \/ timer \in cancelled)
      BY <2>3 DEF NothingLeft
    <3>2. CASE Idle(timer) /\ timer # Nobody
      <4>1. timer # t /\ timer \in Closer
        BY <2>1, <3>2 DEF TypeOK, Closer
      <4>2. closer'[timer] = closer[timer]
        BY <2>2, <4>1 DEF TypeOK
      <4> QED
        BY <2>1, <3>1, <3>2, <4>2 DEF Idle, At
    <3> QED
      BY <2>1, <3>1, <3>2
  <2> QED
    BY <2>1, <2>3 DEF NothingLeft
<1>6. ASSUME NEW t \in Closer, CloseSpawns(t) PROVE NothingLeft'
  BY <1>6 DEF CloseSpawns, NothingLeft, Idle, At
<1>7. ASSUME NEW t \in Closer, GraceCancelled(t) PROVE NothingLeft'
  <2>1. /\ closer' = [closer EXCEPT ![t] = "idle"] /\ cancelled' = cancelled \ {t}
        /\ UNCHANGED <<owned, count, timer>>
    BY <1>7 DEF GraceCancelled, Goto, presence
  <2>2. closer'[t] = "idle" /\ \A u \in Closer : closer'[u] = closer[u] \/ u = t
    BY <2>1 DEF TypeOK
  <2>3. timer \in Closer \cup {Nobody}
    BY DEF TypeOK, Closer
  <2> QED
    BY <2>1, <2>2, <2>3 DEF NothingLeft, Idle, At
<1>8. ASSUME NEW t \in Closer, DoCloseEnds(t) PROVE NothingLeft'
  BY <1>8 DEF DoCloseEnds, NothingLeft, presence, Idle, At
<1>9. ASSUME NEW t \in Closer, DoCloseForgets(t) PROVE NothingLeft'
  BY <1>9 DEF DoCloseForgets, NothingLeft, CancelGrace
<1>10. CASE CallsClose
  <2>1. closer' = [closer EXCEPT ![Caller] = "enter"] /\ UNCHANGED <<owned, count, timer, cancelled>>
    BY <1>10 DEF CallsClose, Goto, presence
  <2>2. timer = Nobody \/ (timer \in Closer /\ timer # Caller)
    BY PresenceAssumption DEF TypeOK, Closer
  <2>3. timer = Nobody \/ closer'[timer] = closer[timer]
    BY <2>1, <2>2 DEF TypeOK
  <2> QED
    BY <2>1, <2>3 DEF NothingLeft, Idle, At
<1>11. CASE Restart
  <2>1. owned' = (state # "closed") /\ count' = 0
    BY <1>11 DEF Restart
  <2>2. state = "closed" => timer' = Nobody
    BY <1>11 DEF Restart, RestoreDisconnectTimer
  <2> QED
    BY <2>1, <2>2 DEF NothingLeft
<1>12. CASE Finished
  BY <1>1, <1>12 DEF Finished
<1>13. ASSUME NEW w \in Client, WsStep(w) PROVE NothingLeft'
  BY <1>2, <1>3, <1>4, <1>13 DEF WsStep
<1>14. ASSUME NEW t \in Closer, CloserStep(t) PROVE NothingLeft'
  BY <1>5, <1>6, <1>7, <1>8, <1>9, <1>14 DEF CloserStep
<1> QED
  BY <1>1, <1>10, <1>11, <1>12, <1>13, <1>14 DEF Next

\* A session that gave its slot back leaves no count and no live timer behind.
THEOREM NothingIsLeft == Spec => []NothingLeft
<1>1. Init => NothingLeft
  BY DEF Init, NothingLeft
<1> QED
  BY <1>1, InitTyped, StepTyped, StepLeavesNothing, PTL DEF Spec

-----------------------------------------------------------------------------
(***************************************************************************)
(* Attended sessions.  While the session is ready nothing is closing it,   *)
(* its count is exact, and of the grace watchers at work at most the one   *)
(* in the timer table has no cancellation coming, and that one only while  *)
(* nobody is connected.                                                    *)
(***************************************************************************)
Undisturbed ==
  state = "ready" =>
    /\ owned /\ registered
    /\ \A t \in Closer : ~At(t, "marked") /\ closing[t] = "none"

OneTimer ==
  state = "ready" =>
    \A t \in Watcher : Idle(t) \/ t \in cancelled \/ (t = timer /\ count = 0)

PresenceInv == TypeOK /\ Undisturbed /\ PresenceIsExact /\ OneTimer

\* The connected clients can be counted.
LEMMA UpIsFinite == IsFiniteSet(Up) /\ Cardinality(Up) \in Nat
BY FS_Subset, FS_CardinalityType, PresenceAssumption DEF Up

\* Steps that leave the clients, the count and the timers alone.
LEMMA AsideKeepsPresence ==
  ASSUME PresenceInv, Up' = Up, UNCHANGED <<owned, count, timer, cancelled>>,
         state' = "ready" => state = "ready" /\ registered' = registered,
         NEW t \in Closer,
         \A u \in Closer : u # t => closer'[u] = closer[u] /\ closing'[u] = closing[u],
         Idle(t)' \/ (~Idle(t) /\ t \notin cancelled) \/ t \notin Watcher,
         state' = "ready" => closer'[t] # "marked" /\ closing'[t] = "none"
  PROVE  Undisturbed' /\ PresenceIsExact' /\ OneTimer'
<1> SUFFICES ASSUME state' = "ready" PROVE Undisturbed' /\ PresenceIsExact' /\ OneTimer'
  BY DEF Undisturbed, PresenceIsExact, OneTimer
<1>1. /\ state = "ready" /\ owned /\ registered /\ count = Cardinality(Up)
      /\ \A u \in Closer : closer[u] # "marked" /\ closing[u] = "none"
      /\ \A u \in Watcher : closer[u] = "idle" \/ u \in cancelled \/ (u = timer /\ count = 0)
  BY DEF PresenceInv, Undisturbed, PresenceIsExact, OneTimer, At, Idle
<1>2. Undisturbed'
  BY <1>1 DEF Undisturbed, At
<1>3. PresenceIsExact'
  BY <1>1 DEF PresenceIsExact
<1>4. OneTimer'
  BY <1>1 DEF OneTimer, Idle, At, Closer
<1> QED
  BY <1>2, <1>3, <1>4

\* Every step keeps the session undisturbed, its count exact and its timer alone.
LEMMA StepKeepsPresence ==
  ASSUME "dial" \notin Faults, PresenceInv, [Next]_vars
  PROVE  Undisturbed' /\ PresenceIsExact' /\ OneTimer'
<1> DEFINE Goal == Undisturbed /\ PresenceIsExact /\ OneTimer
<1>0. TypeOK /\ Goal
  BY DEF PresenceInv
<1>a. state = "ready" =>
        /\ owned /\ registered /\ count = Cardinality(Up)
        /\ \A u \in Closer : closer[u] # "marked" /\ closing[u] = "none"
        /\ \A u \in Watcher : closer[u] = "idle" \/ u \in cancelled \/ (u = timer /\ count = 0)
  BY <1>0 DEF Undisturbed, PresenceIsExact, OneTimer, At, Idle
<1>b. \A w, from, to : Moves(w, from, to) /\ w \in Client =>
        /\ client[w] = from /\ client' = [client EXCEPT ![w] = to]
        /\ from # "up" /\ to # "up" => Up' = Up
        /\ from # "up" /\ to = "up" => Up' = Up \cup {w} /\ w \notin Up
        /\ from = "up" /\ to # "up" => Up' = Up \ {w} /\ w \in Up
  BY <1>0 DEF Moves, Up, TypeOK
<1>1. CASE UNCHANGED vars
  BY <1>0, <1>1 DEF Undisturbed, PresenceIsExact, OneTimer, vars, At, Idle, Up
<1>2. ASSUME NEW w \in Client, WsRoutes(w) \/ WsDials(w) PROVE Goal'
  <2>1. Up' = Up
    BY <1>2, <1>b DEF WsRoutes, WsDials
  <2> QED
    BY <1>0, <1>2, <2>1 DEF WsRoutes, WsDials, Undisturbed, PresenceIsExact, OneTimer, At, Idle,
       presence, durable
<1>3. ASSUME NEW w \in Client, WsConnects(w) PROVE Goal'
  <2>1. /\ Up' = Up \cup {w} /\ w \notin Up /\ OnClientConnected
        /\ UNCHANGED <<state, registered, owned, closer, closing>>
    BY <1>3, <1>b DEF WsConnects
  <2> SUFFICES ASSUME state = "ready" PROVE Goal'
    BY <2>1 DEF Undisturbed, PresenceIsExact, OneTimer
  <2>2. count' = count + 1 /\ CancelGrace
    BY <1>a, <2>1 DEF OnClientConnected
  <2>3. Cardinality(Up') = Cardinality(Up) + 1
    BY <2>1, UpIsFinite, FS_AddElement
  <2>4. PresenceIsExact'
    BY <1>a, <2>2, <2>3 DEF PresenceIsExact
  <2>5. ASSUME NEW u \in Watcher PROVE closer'[u] = "idle" \/ u \in cancelled'
    BY <1>a, <2>1, <2>2, PresenceAssumption DEF CancelGrace, Idle, At
  <2>6. OneTimer'
    BY <2>5 DEF OneTimer, Idle, At
  <2>7. Undisturbed'
    BY <1>a, <2>1 DEF Undisturbed, At
  <2> QED
    BY <2>4, <2>6, <2>7
<1>4. ASSUME NEW w \in Client, WsEnds(w) PROVE Goal'
  <2>1. PICK t \in Watcher : Idle(t) /\ OnClientDisconnected(t)
    BY <1>4 DEF WsEnds
  <2>2. UNCHANGED <<state, registered, owned, closing>>
    BY <1>4 DEF WsEnds
  <2> SUFFICES ASSUME state = "ready" PROVE Goal'
    BY <2>2 DEF Undisturbed, PresenceIsExact, OneTimer
  <2>3. Moves(w, "up", "out")
    BY <1>4, <1>a DEF WsEnds, Fault
  <2>4. Up' = Up \ {w} /\ w \in Up
    BY <2>3, <1>b
  <2>5. Cardinality(Up') = Cardinality(Up) - 1 /\ Cardinality(Up) > 0
    <3>1. Cardinality(Up \ {w}) = Cardinality(Up) - 1 /\ Cardinality(Up \ {w}) \in Nat
      BY <2>4, UpIsFinite, FS_RemoveElement, FS_CardinalityType
    <3> QED
      BY <2>4, <3>1, UpIsFinite
  <2>6. /\ count' = count - 1 /\ cancelled' = cancelled
        /\ \/ count' > 0 /\ UNCHANGED <<timer, closer>>
           \/ count' = 0 /\ closer' = [closer EXCEPT ![t] = "sleep"] /\ timer' = t
    BY <1>a, <2>1, <2>5, UpIsFinite DEF OnClientDisconnected, Goto
  <2>7. PresenceIsExact'
    BY <1>a, <2>5, <2>6 DEF PresenceIsExact
  <2>8. \A u \in Watcher : closer[u] = "idle" \/ u \in cancelled
    BY <1>a, <2>5
  <2>9. OneTimer' /\ Undisturbed'
    <3>1. CASE UNCHANGED <<timer, closer>>
      BY <1>a, <2>2, <2>6, <2>8, <3>1 DEF OneTimer, Undisturbed, Idle, At
    <3>2. CASE count' = 0 /\ closer' = [closer EXCEPT ![t] = "sleep"] /\ timer' = t
      <4>1. closer'[t] = "sleep" /\ \A u \in Closer : u # t => closer'[u] = closer[u]
        BY <1>0, <3>2 DEF TypeOK, Closer
      <4> QED
        BY <1>a, <2>2, <2>6, <2>8, <3>2, <4>1 DEF OneTimer, Undisturbed, Idle, At, Closer
    <3> QED
      BY <2>6, <3>1, <3>2
  <2> QED
    BY <2>7, <2>9
<1>5. ASSUME NEW t \in Closer, GraceExpires(t) \/ GraceCloses(t) \/ CloseEnters(t) \/ CloseMarks(t)
      PROVE Goal'
  <2>1. /\ closer[t] # "idle" /\ t \notin cancelled
        /\ \E l : Goto(t, l) /\ (state' = "ready" => l # "marked")
        /\ state' = "ready" => state = "ready"
        /\ UNCHANGED <<registered, owned, count, timer, cancelled, closing, client>>
    BY <1>5 DEF GraceExpires, GraceCloses, CloseEnters, CloseMarks, Resumes, At, presence, durable
  <2>2. PICK l : closer' = [closer EXCEPT ![t] = l] /\ (state' = "ready" => l # "marked")
    BY <2>1 DEF Goto
  <2>3. closer'[t] = l /\ \A u \in Closer : u # t => closer'[u] = closer[u]
    BY <1>0, <2>2 DEF TypeOK
  <2>4. Up' = Up
    BY <2>1 DEF Up
  <2> QED
    BY <1>a, <2>1, <2>2, <2>3, <2>4, AsideKeepsPresence DEF Idle, At
<1>6. ASSUME NEW t \in Closer, CloseSpawns(t) PROVE Goal'
  <2>1. state # "ready" /\ state' = state
    BY <1>6, <1>a DEF CloseSpawns, Resumes, At, durable
  <2> QED
    BY <2>1 DEF Undisturbed, PresenceIsExact, OneTimer
<1>7. ASSUME NEW t \in Closer, GraceCancelled(t) PROVE Goal'
  <2>1. /\ closer' = [closer EXCEPT ![t] = "idle"] /\ cancelled' = cancelled \ {t}
        /\ UNCHANGED <<state, registered, owned, count, timer, closing, client>>
    BY <1>7 DEF GraceCancelled, Goto, presence, durable
  <2>2. closer'[t] = "idle" /\ \A u \in Closer : u # t => closer'[u] = closer[u]
    BY <1>0, <2>1 DEF TypeOK
  <2>3. Up' = Up
    BY <2>1 DEF Up
  <2> SUFFICES ASSUME state = "ready" PROVE Goal'
    BY <2>1 DEF Undisturbed, PresenceIsExact, OneTimer
  <2>4. Undisturbed' /\ PresenceIsExact'
    BY <1>a, <2>1, <2>2, <2>3 DEF Undisturbed, PresenceIsExact, At
  <2>5. OneTimer'
    BY <1>a, <2>1, <2>2 DEF OneTimer, Idle, At, Closer
  <2> QED
    BY <2>4, <2>5
<1>8. ASSUME NEW t \in Closer, DoCloseEnds(t) \/ DoCloseForgets(t) PROVE Goal'
  <2>1. state # "ready"
    BY <1>8, <1>a DEF DoCloseEnds, DoCloseForgets
  <2>2. state' # "ready"
    BY <1>8, <2>1 DEF DoCloseEnds, DoCloseForgets, durable
  <2> QED
    BY <2>2 DEF Undisturbed, PresenceIsExact, OneTimer
<1>9. CASE CallsClose
  <2>1. /\ closer' = [closer EXCEPT ![Caller] = "enter"]
        /\ UNCHANGED <<state, registered, owned, count, timer, cancelled, closing, client>>
    BY <1>9 DEF CallsClose, Goto, presence, durable
  <2>2. /\ closer'[Caller] = "enter" /\ Caller \in Closer /\ Caller \notin Watcher
        /\ \A u \in Closer : u # Caller => closer'[u] = closer[u]
    BY <1>0, <2>1, PresenceAssumption DEF TypeOK, Closer
  <2>3. Up' = Up
    BY <2>1 DEF Up
  <2> QED
    BY <1>a, <2>1, <2>2, <2>3, AsideKeepsPresence
<1>10. CASE Restart
  <2> SUFFICES ASSUME state' = "ready" PROVE Goal'
    BY DEF Undisturbed, PresenceIsExact, OneTimer
  <2>1. /\ state = "ready" /\ owned' /\ registered' /\ count' = 0
        /\ client' = [w \in Client |-> "out"]
        /\ \A u \in Closer : closing'[u] = "none"
    BY <1>10 DEF Restart, durable
  <2>2. PICK t \in Watcher : RestoreDisconnectTimer(t)
    BY <1>10 DEF Restart
  <2>3. /\ \A u \in Closer : closer'[u] # "marked"
        /\ \A u \in Watcher : closer'[u] = "idle" \/ u = timer'
    BY <2>2, PresenceAssumption DEF RestoreDisconnectTimer, Closer
  <2>4. Up' = {}
    BY <2>1 DEF Up
  <2>5. Cardinality(Up') = 0
    BY <2>4, FS_EmptySet
  <2> QED
    BY <2>1, <2>3, <2>5 DEF Undisturbed, PresenceIsExact, OneTimer, Idle, At
<1>11. CASE Finished
  BY <1>1, <1>11 DEF Finished
<1>12. ASSUME NEW w \in Client, WsStep(w) PROVE Goal'
  BY <1>2, <1>3, <1>4, <1>12 DEF WsStep
<1>13. ASSUME NEW t \in Closer, CloserStep(t) PROVE Goal'
  BY <1>5, <1>6, <1>7, <1>8, <1>13 DEF CloserStep
<1> QED
  BY <1>1, <1>9, <1>10, <1>11, <1>12, <1>13 DEF Next

\* The inductive invariant, without failed upstream dials.
LEMMA PresenceInvariant ==
  ASSUME "dial" \notin Faults
  PROVE  Spec => []PresenceInv
<1>1. Init => PresenceInv
  <2> SUFFICES ASSUME Init PROVE PresenceInv
    OBVIOUS
  <2>1. Up = {} /\ count = 0
    BY DEF Init, Up
  <2>2. PresenceIsExact
    BY <2>1, FS_EmptySet DEF PresenceIsExact
  <2>3. Undisturbed /\ OneTimer
    BY DEF Init, Undisturbed, OneTimer, At, Idle, Closer
  <2> QED
    BY <2>2, <2>3, InitTyped DEF PresenceInv
<1>2. PresenceInv /\ [Next]_vars => PresenceInv'
  BY StepTyped, StepKeepsPresence DEF PresenceInv
<1> QED
  BY <1>1, <1>2, PTL DEF Spec

\* While the session is ready _connected_counts is the number of proxied
\* WebSockets, as long as every upstream dial succeeds.
THEOREM CountIsExact ==
  ASSUME "dial" \notin Faults
  PROVE  Spec => []PresenceIsExact
<1>1. PresenceInv => PresenceIsExact
  BY DEF PresenceInv
<1> QED
  BY <1>1, PresenceInvariant, PTL

\* A grace watcher never closes a session somebody is connected to: when it
\* marks the row it is the one timer not cancelled, so nobody has connected.
THEOREM AttendedSessionsStay ==
  ASSUME "dial" \notin Faults
  PROVE  Spec => AttendedStaysOpen
<1> DEFINE A == \A t \in Watcher :
                  At(t, "looked_up") /\ closer'[t] = "marked" /\ state = "ready" => Up = {}
<1>1. PresenceInv /\ [Next]_vars => [A]_vars
  <2> SUFFICES ASSUME PresenceInv, Next, NEW t \in Watcher,
                      closer[t] = "looked_up", closer'[t] = "marked", state = "ready"
               PROVE  Up = {}
    BY DEF At
  <2>1. TypeOK /\ count = Cardinality(Up) /\ (t \in cancelled \/ count = 0)
    BY DEF PresenceInv, PresenceIsExact, OneTimer, Idle, At
  <2>2. t \in Closer
    BY DEF Closer
  <2>3. t \notin cancelled
    <3>1. ASSUME NEW w \in Client, WsStep(w) PROVE FALSE
      <4>1. CASE WsEnds(w)
        <5>1. PICK u \in Watcher : Idle(u) /\ OnClientDisconnected(u)
          BY <4>1 DEF WsEnds
        <5>2. closer' = closer \/ closer' = [closer EXCEPT ![u] = "sleep"]
          BY <5>1 DEF OnClientDisconnected, Goto
        <5> QED
          BY <2>1, <2>2, <5>2 DEF TypeOK
      <4> QED
        BY <3>1, <4>1 DEF WsStep, WsRoutes, WsDials, WsConnects
    <3>2. ASSUME NEW u \in Closer, CloserStep(u), ~CloseMarks(u) PROVE FALSE
      <4>1. closer' = closer \/ \E l : l # "marked" /\ closer' = [closer EXCEPT ![u] = l]
        BY <3>2 DEF CloserStep, GraceExpires, GraceCloses, CloseEnters, CloseSpawns,
           GraceCancelled, DoCloseEnds, DoCloseForgets, Goto
      <4> QED
        BY <2>1, <2>2, <4>1 DEF TypeOK
    <3>3. ASSUME NEW u \in Closer, CloseMarks(u) PROVE u = t /\ u \notin cancelled
      <4>1. closer' = [closer EXCEPT ![u] = "marked"] /\ u \notin cancelled
        BY <3>3 DEF CloseMarks, Resumes, Goto
      <4> QED
        BY <2>1, <2>2, <4>1 DEF TypeOK
    <3>4. ~CallsClose
      BY <2>1, <2>2 DEF CallsClose, Goto, TypeOK
    <3>5. ~Restart
      BY <2>2 DEF Restart, RestoreDisconnectTimer
    <3>6. ~Finished
      BY DEF Finished
    <3> QED
      BY <3>1, <3>2, <3>3, <3>4, <3>5, <3>6 DEF Next
  <2> QED
    BY <2>1, <2>3, UpIsFinite, FS_EmptySet
<1>2. AttendedStaysOpen <=> [][A]_vars
  BY DEF AttendedStaysOpen
<1> QED
  BY <1>1, <1>2, PresenceInvariant, PTL DEF Spec

=============================================================================
