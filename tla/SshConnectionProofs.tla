------------------------- MODULE SshConnectionProofs -------------------------
(***************************************************************************)
(* Theorems about SshConnection, for any number of sessions, hosts, keys,  *)
(* routes and trust requests.  AccessInv follows a key on its way: shown   *)
(* in a challenge, pending, submitted, recorded, read when a hop is        *)
(* dialled, and used in a connection.  At every stage it was shown for the *)
(* very host, and what is shown is never forgotten.                        *)
(***************************************************************************)
EXTENDS SshConnection, TLAPS

Shown(h, k) == [host |-> h, key |-> k] \in shown

\* The hosts present one of their keys.
AgesInRange == \A h \in Host : age[h] \in 1..Len(Keys[h])

\* Where an attempt is on its route, and what it knows of the next hop.
AttemptShape ==
  \A s \in Sid :
    /\ At(s, "idle") => chain[s] = <<>>
    /\ attempt[s].pc \in {"dial", "verify", "refused"} => Len(chain[s]) < Len(Route[s])
    /\ At(s, "refused") => attempt[s].captured \in Key

KnownIsShown ==
  \A s \in Sid : At(s, "verify") /\ attempt[s].known # None =>
    Shown(NextHop(s), attempt[s].known)

PendingIsShown == \A s \in Sid : pending[s] # NoChallenge => pending[s] \in shown

SubmittedIsShown ==
  \A r \in Request : RequestAt(r, "write") => Shown(request[r].body.host, request[r].body.key)

AccessInv ==
  /\ TypeOK /\ AgesInRange /\ AttemptShape /\ KnownIsShown
  /\ PendingIsShown /\ SubmittedIsShown /\ OnlyShownKeys

-----------------------------------------------------------------------------
(* Operators *)

LEMMA GoesRecord ==
  ASSUME NEW pc \in AttemptPc
  PROVE  /\ Goes(pc) = [pc |-> pc, known |-> None, captured |-> None]
         /\ Goes(pc) \in Attempt
BY DEF Goes, NoAttempt, Attempt

LEMMA PresentedKey ==
  ASSUME AgesInRange, NEW h \in Host
  PROVE  Presents(h) \in Key
BY KeysAssumption DEF AgesInRange, Presents

LEMMA HopOfRoute ==
  ASSUME TypeOK, NEW s \in Sid, Len(chain[s]) < Len(Route[s])
  PROVE  NextHop(s) \in Host
<1>1. Len(chain[s]) + 1 \in 1..Len(Route[s]) /\ Route[s] \in Seq(Host)
  BY RouteAssumption DEF TypeOK
<1> QED
  BY <1>1 DEF NextHop

-----------------------------------------------------------------------------
(* Trust requests *)

LEMMA TrustKeepsTypes ==
  ASSUME TrustTypeOK, (\E r \in Request : TrustStep(r)) \/ \E s \in Sid : SessionDeleted(s)
  PROVE  TrustTypeOK' /\ shown' = shown
<1>1. ASSUME NEW r \in Request, Submits(r) PROVE TrustTypeOK' /\ shown' = shown
  BY <1>1 DEF Submits, TrustTypeOK, RequestState
<1>2. ASSUME NEW r \in Request, Writes(r) PROVE TrustTypeOK' /\ shown' = shown
  <2>1. request[r] \in [pc: {"write", "clear"}, body: Body]
    BY <1>2 DEF Writes, RequestAt, TrustTypeOK, RequestState, NoRequest
  <2>2. request[r].body \in Body /\ request[r].body.host \in Host /\ request[r].body.key \in Key
    BY <2>1 DEF Body
  <2>3. known' \in [Host -> Key \cup {None}]
    BY <1>2, <2>2 DEF Writes, TrustTypeOK
  <2>4. request' \in [Request -> RequestState]
    BY <1>2, <2>1 DEF Writes, RequestGoes, RequestEnds, TrustTypeOK, RequestState
  <2> QED
    BY <1>2, <2>3, <2>4 DEF Writes, TrustTypeOK
<1>3. ASSUME NEW r \in Request, Clears(r) PROVE TrustTypeOK' /\ shown' = shown
  BY <1>3 DEF Clears, ClearChallenge, RequestEnds, TrustTypeOK, RequestState
<1>4. ASSUME NEW s \in Sid, SessionDeleted(s) PROVE TrustTypeOK' /\ shown' = shown
  BY <1>4 DEF SessionDeleted, ClearChallenge, TrustTypeOK
<1> QED
  BY <1>1, <1>2, <1>3, <1>4 DEF TrustStep

LEMMA TrustKeeps ==
  ASSUME AccessInv, TrustNext, UNCHANGED sshVars
  PROVE  AccessInv'
<1>1. TypeOK' /\ shown' = shown
  BY TrustKeepsTypes DEF AccessInv, TypeOK, TrustNext, sshVars
<1>2. AgesInRange' /\ AttemptShape' /\ KnownIsShown'
  BY <1>1 DEF AccessInv, AgesInRange, AttemptShape, KnownIsShown, Shown, At, NextHop, sshVars
<1>3. PendingIsShown'
  BY <1>1 DEF AccessInv, TypeOK, TrustTypeOK, PendingIsShown, TrustNext, TrustStep, Submits,
              Writes, Clears, SessionDeleted, ClearChallenge
<1>4. SubmittedIsShown'
  <2>1. ASSUME NEW r \in Request, Submits(r) PROVE SubmittedIsShown'
    BY <1>1, <2>1, NoKeyAssumption
       DEF AccessInv, TypeOK, TrustTypeOK, PendingIsShown, SubmittedIsShown, Submits, Body,
           MatchesPending, NoChallenge, RequestAt, Shown
  <2>2. ASSUME NEW r \in Request, Writes(r) \/ Clears(r) PROVE SubmittedIsShown'
    <3>1. request[r] \in [pc: {"write", "clear"}, body: Body]
      BY <2>2 DEF AccessInv, TypeOK, TrustTypeOK, RequestState, NoRequest, Writes, Clears,
                  RequestAt
    <3>2. request'[r].pc # "write" /\ \A q \in Request : q # r => request'[q] = request[q]
      BY <2>2, <3>1 DEF AccessInv, TypeOK, TrustTypeOK, Writes, Clears, RequestGoes,
                        RequestEnds, NoRequest
    <3> QED
      BY <1>1, <3>2 DEF AccessInv, SubmittedIsShown, RequestAt, Shown
  <2>3. ASSUME NEW s \in Sid, SessionDeleted(s) PROVE SubmittedIsShown'
    BY <1>1, <2>3 DEF AccessInv, SubmittedIsShown, SessionDeleted, RequestAt, Shown
  <2> QED
    BY <2>1, <2>2, <2>3 DEF TrustNext, TrustStep
<1>5. OnlyShownKeys'
  <2>1. \A h \in Host : IsKnown(h)' => Shown(h, known'[h])
    <3>1. ASSUME NEW r \in Request, Writes(r), NEW h \in Host, known'[h] # None
          PROVE  Shown(h, known'[h])
      <4>1. CASE h = request[r].body.host
        BY <3>1, <4>1 DEF AccessInv, TypeOK, TrustTypeOK, SubmittedIsShown, OnlyShownKeys,
                          IsKnown, Writes, Shown
      <4>2. CASE h # request[r].body.host
        BY <3>1, <4>2 DEF AccessInv, TypeOK, TrustTypeOK, OnlyShownKeys, IsKnown, Writes, Shown
      <4> QED
        BY <4>1, <4>2
    <3> QED
      BY <3>1 DEF AccessInv, OnlyShownKeys, IsKnown, TrustNext, TrustStep, Submits, Clears,
                  SessionDeleted, Shown
  <2> QED
    BY <1>1, <2>1 DEF AccessInv, OnlyShownKeys, Shown, sshVars
<1> QED
  BY <1>1, <1>2, <1>3, <1>4, <1>5 DEF AccessInv

-----------------------------------------------------------------------------
(* Connection attempts *)

\* A step of an attempt that touches neither trust nor the chain.
LEMMA AttemptMoves ==
  ASSUME AccessInv, NEW s \in Sid, NEW a \in Attempt, Becomes(s, a),
         UNCHANGED <<trustVars, age, chain>>,
         a.pc = "idle" => chain[s] = <<>>,
         a.pc \in {"dial", "verify", "refused"} => Len(chain[s]) < Len(Route[s]),
         a.pc = "refused" => a.captured \in Key,
         a.pc = "verify" /\ a.known # None => Shown(NextHop(s), a.known)
  PROVE  AccessInv'
<1>1. attempt'[s] = a /\ \A q \in Sid : q # s => attempt'[q] = attempt[q]
  BY DEF AccessInv, TypeOK, Becomes
<1>2. TypeOK'
  BY DEF AccessInv, TypeOK, TrustTypeOK, Becomes, trustVars
<1>3. AgesInRange' /\ PendingIsShown' /\ SubmittedIsShown' /\ OnlyShownKeys'
  BY DEF AccessInv, AgesInRange, PendingIsShown, SubmittedIsShown, OnlyShownKeys, IsKnown,
         RequestAt, Shown, trustVars
<1>4. AttemptShape' /\ KnownIsShown'
  BY <1>1 DEF AccessInv, AttemptShape, KnownIsShown, At, NextHop, Shown, trustVars
<1> QED
  BY <1>2, <1>3, <1>4 DEF AccessInv

LEMMA AttemptFields ==
  ASSUME TypeOK, NEW s \in Sid
  PROVE  /\ attempt[s] \in Attempt /\ chain[s] \in Seq(Hop) /\ known \in [Host -> Key \cup {None}]
         /\ attempt[s].pc \in AttemptPc /\ attempt[s].known \in Key \cup {None}
BY DEF TypeOK, TrustTypeOK, Attempt

LEMMA HopOpensKeeps ==
  ASSUME AccessInv, NEW s \in Sid, HopOpens(s)
  PROVE  AccessInv'
<1> DEFINE hop == [host |-> NextHop(s), key |-> Presents(NextHop(s))]
           pc == IF Len(chain'[s]) = Len(Route[s]) THEN "open" ELSE "dial"
<1>1. Len(chain[s]) < Len(Route[s]) /\ chain[s] \in Seq(Hop)
  BY DEF AccessInv, TypeOK, HopOpens, AttemptShape, At
<1>2. hop \in Hop /\ Presents(NextHop(s)) \in Key
  BY <1>1, HopOfRoute, PresentedKey DEF AccessInv, Hop
<1>3. hop \in shown
  BY <1>2, NoKeyAssumption DEF AccessInv, KnownIsShown, HopOpens, KeyIsKnown, Shown
<1>4. /\ chain' \in [Sid -> Seq(Hop)] /\ chain'[s] = Append(chain[s], hop)
      /\ \A q \in Sid : q # s => chain'[q] = chain[q]
  BY <1>1, <1>2 DEF AccessInv, TypeOK, HopOpens
<1>5. Len(chain'[s]) = Len(chain[s]) + 1 /\ Len(chain[s]) \in Nat /\ Len(Route[s]) \in Nat
  BY <1>1, <1>2, <1>4, RouteAssumption
<1>6. Goes(pc) \in Attempt /\ Goes(pc).pc = pc
  BY GoesRecord DEF AttemptPc
<1>7. /\ attempt' \in [Sid -> Attempt] /\ attempt'[s] = Goes(pc)
      /\ \A q \in Sid : q # s => attempt'[q] = attempt[q]
  BY <1>6 DEF AccessInv, TypeOK, HopOpens, Becomes
<1>8. TypeOK' /\ AgesInRange' /\ PendingIsShown' /\ SubmittedIsShown'
  BY <1>4, <1>7 DEF AccessInv, TypeOK, TrustTypeOK, AgesInRange, PendingIsShown,
                    SubmittedIsShown, RequestAt, Shown, HopOpens, trustVars
<1>9. AttemptShape' /\ KnownIsShown'
  <2>1. attempt'[s].pc = pc /\ (pc = "dial" => Len(chain'[s]) < Len(Route[s]))
    BY <1>1, <1>5, <1>6, <1>7
  <2>2. pc \in {"dial", "open"} /\ shown' = shown
    BY DEF HopOpens, trustVars
  <2> QED
    BY <1>4, <1>7, <2>1, <2>2 DEF AccessInv, AttemptShape, KnownIsShown, At, NextHop, Shown
<1>10. OnlyShownKeys'
  <2>1. \A i \in 1..Len(chain'[s]) : chain'[s][i] \in shown
    BY <1>1, <1>3, <1>4, <1>5 DEF AccessInv, OnlyShownKeys
  <2> QED
    BY <1>4, <2>1 DEF AccessInv, OnlyShownKeys, IsKnown, HopOpens, trustVars
<1> QED
  BY <1>8, <1>9, <1>10 DEF AccessInv

LEMMA RecordsKeeps ==
  ASSUME AccessInv, NEW s \in Sid, Records(s)
  PROVE  AccessInv'
<1> DEFINE challenge == [host |-> NextHop(s), key |-> attempt[s].captured]
<1>1. challenge \in Challenge
  BY HopOfRoute DEF AccessInv, Records, AttemptShape, At, Challenge
<1>2. Goes("close") \in Attempt /\ Goes("close").pc = "close"
  BY GoesRecord DEF AttemptPc
<1>3. attempt' \in [Sid -> Attempt] /\ attempt' = [attempt EXCEPT ![s] = Goes("close")]
  BY <1>2 DEF AccessInv, TypeOK, Records, Becomes
<1>4. \/ pending' = [pending EXCEPT ![s] = challenge] /\ shown' = shown \cup {challenge}
      \/ pending' = pending /\ shown' = shown
  BY DEF Records, RecordChallenge
<1>5. TypeOK' /\ AgesInRange'
  BY <1>1, <1>3, <1>4 DEF AccessInv, TypeOK, TrustTypeOK, AgesInRange, Records
<1>6. AttemptShape' /\ KnownIsShown'
  BY <1>2, <1>3, <1>4 DEF AccessInv, TypeOK, AttemptShape, KnownIsShown, At, NextHop, Shown, Records
<1>7. PendingIsShown'
  BY <1>4 DEF AccessInv, TypeOK, TrustTypeOK, PendingIsShown
<1>8. SubmittedIsShown' /\ OnlyShownKeys'
  BY <1>4 DEF AccessInv, SubmittedIsShown, OnlyShownKeys, IsKnown, RequestAt, Shown, Records
<1> QED
  BY <1>5, <1>6, <1>7, <1>8 DEF AccessInv

\* The chain gets shorter, or is handed over.
LEMMA ChainShrinks ==
  ASSUME AccessInv, NEW s \in Sid, ClosesHop(s) \/ Released(s)
  PROVE  AccessInv'
<1>1. Goes("close") \in Attempt /\ NoAttempt \in Attempt /\ NoAttempt.pc = "idle"
  BY GoesRecord DEF AttemptPc, NoAttempt, Attempt
<1>2. /\ chain' \in [Sid -> Seq(Hop)]
      /\ \A q \in Sid : \A i \in 1..Len(chain'[q]) : i \in 1..Len(chain[q]) /\ chain'[q][i] = chain[q][i]
      /\ \A q \in Sid : q # s => chain'[q] = chain[q]
  <2>1. chain \in [Sid -> Seq(Hop)] /\ <<>> \in Seq(Hop)
    BY DEF AccessInv, TypeOK
  <2>2. CASE ClosesHop(s)
    <3> DEFINE n == Len(chain[s]) - 1
               rest == SubSeq(chain[s], 1, n)
    <3>1. chain[s] \in Seq(Hop) /\ n \in Nat /\ Len(chain[s]) = n + 1
      BY <2>1, <2>2 DEF ClosesHop
    <3>2. rest \in Seq(Hop) /\ Len(rest) = n /\ \A i \in 1..n : rest[i] = chain[s][i]
      BY <3>1
    <3> HIDE DEF n, rest
    <3>3. chain' = [chain EXCEPT ![s] = rest]
      BY <2>2 DEF ClosesHop, rest, n
    <3> QED
      BY <2>1, <3>1, <3>2, <3>3
  <2>3. CASE Released(s)
    BY <2>1, <2>3 DEF Released
  <2> QED
    BY <2>2, <2>3
<1>3. /\ attempt' \in [Sid -> Attempt]
      /\ \A q \in Sid : q # s => attempt'[q] = attempt[q]
      /\ attempt'[s].pc = "close" \/ (attempt'[s].pc = "idle" /\ chain'[s] = <<>>)
  <2>1. CASE ClosesHop(s)
    BY <2>1 DEF AccessInv, TypeOK, ClosesHop, At
  <2>2. CASE Released(s)
    BY <1>1, <2>2 DEF AccessInv, TypeOK, Released, Becomes
  <2> QED
    BY <2>1, <2>2
<1>4. UNCHANGED <<trustVars, age>>
  BY DEF ClosesHop, Released
<1>5. TypeOK' /\ AgesInRange' /\ PendingIsShown' /\ SubmittedIsShown'
  BY <1>2, <1>3, <1>4 DEF AccessInv, TypeOK, TrustTypeOK, AgesInRange, PendingIsShown,
                          SubmittedIsShown, RequestAt, Shown, trustVars
<1>6. AttemptShape' /\ KnownIsShown'
  BY <1>2, <1>3, <1>4 DEF AccessInv, AttemptShape, KnownIsShown, At, NextHop, Shown, trustVars
<1>7. OnlyShownKeys'
  BY <1>2, <1>4 DEF AccessInv, OnlyShownKeys, IsKnown, trustVars
<1> QED
  BY <1>5, <1>6, <1>7 DEF AccessInv

LEMMA AttemptKeeps ==
  ASSUME AccessInv, NEW s \in Sid, AttemptStep(s)
  PROVE  AccessInv'
<1>1. \A pc \in AttemptPc : Goes(pc) = [pc |-> pc, known |-> None, captured |-> None]
                           /\ Goes(pc) \in Attempt
  BY GoesRecord
<1>2. NoAttempt \in Attempt /\ NoAttempt.pc = "idle"
  BY DEF NoAttempt, Attempt, AttemptPc
<1>3. CASE Connects(s)
  <2>1. Len(chain[s]) < Len(Route[s])
    BY <1>3, RouteAssumption DEF Connects, AccessInv, AttemptShape
  <2> QED
    BY <1>1, <1>3, <2>1, AttemptMoves DEF Connects, AttemptPc
<1>4. CASE Dials(s)
  <2> DEFINE k == known[NextHop(s)]
             a == [attempt[s] EXCEPT !.pc = "verify", !.known = k]
  <2>1. Len(chain[s]) < Len(Route[s]) /\ NextHop(s) \in Host
    BY <1>4, HopOfRoute DEF Dials, AccessInv, AttemptShape, At
  <2>2. k \in Key \cup {None} /\ (k # None => Shown(NextHop(s), k))
    BY <2>1 DEF AccessInv, TypeOK, TrustTypeOK, OnlyShownKeys, IsKnown, Shown
  <2>3. a \in Attempt /\ a.pc = "verify" /\ a.known = k
    BY <2>2, AttemptFields DEF AccessInv, Attempt, AttemptPc
  <2> QED
    BY <1>4, <2>1, <2>2, <2>3, AttemptMoves DEF Dials
<1>5. CASE HopRefused(s)
  <2> DEFINE k == Presents(NextHop(s))
             a == [pc |-> "refused", known |-> None, captured |-> k]
  <2>1. Len(chain[s]) < Len(Route[s]) /\ k \in Key
    BY <1>5, HopOfRoute, PresentedKey DEF HopRefused, AccessInv, AttemptShape, At
  <2>2. [Goes("refused") EXCEPT !.captured = k] = a /\ a \in Attempt
    BY <1>1, <2>1 DEF Attempt, AttemptPc
  <2> QED
    BY <1>5, <2>1, <2>2, AttemptMoves DEF HopRefused
<1>6. CASE Fails(s) \/ Cancelled(s)
  <2>1. Becomes(s, Goes("close")) \/ (Becomes(s, attempt[s]) /\ At(s, "close"))
    BY <1>6 DEF Fails, Cancelled, AfterCancel
  <2>2. attempt[s] \in Attempt /\ UNCHANGED <<trustVars, age, chain>>
    BY <1>6 DEF AccessInv, TypeOK, Fails, Cancelled
  <2> QED
    BY <1>1, <2>1, <2>2, AttemptMoves DEF AttemptPc, At
<1>7. CASE ChainClosed(s)
  BY <1>2, <1>7, AttemptMoves DEF ChainClosed
<1> QED
  BY <1>3, <1>4, <1>5, <1>6, <1>7, HopOpensKeeps, RecordsKeeps, ChainShrinks DEF AttemptStep

-----------------------------------------------------------------------------
(* Theorems *)

LEMMA AccessStart ==
  ASSUME Init
  PROVE  AccessInv
<1>1. TypeOK
  BY DEF Init, TrustInit, TypeOK, TrustTypeOK, RequestState, NoAttempt, Attempt, AttemptPc
<1>2. AgesInRange
  BY KeysAssumption DEF Init, AgesInRange
<1>3. AttemptShape /\ KnownIsShown
  BY DEF Init, NoAttempt, AttemptShape, KnownIsShown, At
<1>4. PendingIsShown /\ SubmittedIsShown /\ OnlyShownKeys
  BY DEF Init, TrustInit, PendingIsShown, SubmittedIsShown, OnlyShownKeys, IsKnown, RequestAt,
         NoRequest
<1> QED
  BY <1>1, <1>2, <1>3, <1>4 DEF AccessInv

\* Rows, challenges and files survive a crash; attempts and requests do not.
LEMMA CrashKeeps ==
  ASSUME AccessInv, Crashes
  PROVE  AccessInv'
<1>1. TypeOK'
  BY DEF AccessInv, Crashes, TypeOK, TrustTypeOK, RequestState, NoAttempt, Attempt, AttemptPc
<1>2. AgesInRange' /\ PendingIsShown'
  BY DEF AccessInv, Crashes, AgesInRange, PendingIsShown
<1>3. AttemptShape' /\ KnownIsShown'
  BY DEF Crashes, NoAttempt, AttemptShape, KnownIsShown, At
<1>4. SubmittedIsShown' /\ OnlyShownKeys'
  BY DEF AccessInv, Crashes, SubmittedIsShown, OnlyShownKeys, IsKnown, RequestAt, NoRequest, Shown
<1> QED
  BY <1>1, <1>2, <1>3, <1>4 DEF AccessInv

THEOREM AccessInvariant == Spec => []AccessInv
<1>1. Init => AccessInv
  BY AccessStart
<1>2. AccessInv /\ [Next]_vars => AccessInv'
  <2> SUFFICES ASSUME AccessInv, [Next]_vars PROVE AccessInv'
    OBVIOUS
  <2>1. CASE TrustNext /\ UNCHANGED sshVars
    BY <2>1, TrustKeeps
  <2>2. ASSUME NEW s \in Sid, AttemptStep(s) PROVE AccessInv'
    BY <2>2, AttemptKeeps
  <2>3. ASSUME NEW h \in Host, Rekeys(h) PROVE AccessInv'
    <3>1. AgesInRange' /\ age' \in [Host -> Nat]
      BY <2>3, KeysAssumption DEF AccessInv, AgesInRange, TypeOK, Rekeys
    <3> QED
      BY <2>3, <3>1 DEF AccessInv, Rekeys, TypeOK, TrustTypeOK, AttemptShape, KnownIsShown,
                        PendingIsShown, SubmittedIsShown, OnlyShownKeys, IsKnown, RequestAt,
                        At, NextHop, Shown, trustVars
  <2>4. CASE Crashes
    BY <2>4, CrashKeeps
  <2>5. CASE UNCHANGED vars
    BY <2>5 DEF vars, sshVars, trustVars, AccessInv, AgesInRange, TypeOK, TrustTypeOK,
                AttemptShape, KnownIsShown, PendingIsShown, SubmittedIsShown, OnlyShownKeys,
                IsKnown, RequestAt, At, NextHop, Shown
  <2> QED
    BY <2>1, <2>2, <2>3, <2>4, <2>5 DEF Next
<1> QED
  BY <1>1, <1>2, PTL DEF Spec

\* Every variable of trust and connections keeps its type, the hop an attempt
\* comes to next among them.
THEOREM AccessTypes == Spec => []TypeOK
BY AccessInvariant, PTL DEF AccessInv

\* No key is trusted, and none is used by an open connection, that was not shown
\* in a challenge for the same host.
THEOREM TrustIsShown == Spec => []OnlyShownKeys
BY AccessInvariant, PTL DEF AccessInv

\* Every way out of an attempt closes the whole chain; a cancellation of the
\* closing itself included.
THEOREM ChainsClose == Spec => []ChainsAreClosed
<1>1. AccessInv => ChainsAreClosed
  BY DEF AccessInv, AttemptShape, ChainsAreClosed
<1> QED
  BY <1>1, AccessInvariant, PTL

\* Only trust() writes known_hosts, and over an entry only when asked to.
THEOREM ReplacesOnRequest == Spec => NoSilentReplace
<1> DEFINE Asked == \A h \in Host : IsKnown(h) /\ known'[h] # known[h] =>
                      \E r \in Request : /\ RequestAt(r, "write") /\ request[r].body.host = h
                                         /\ request[r].body.replace
<1>1. AccessInv /\ [Next]_vars => [Asked]_vars
  <2> SUFFICES ASSUME AccessInv, Next PROVE Asked
    OBVIOUS
  <2>1. ASSUME NEW r \in Request, Writes(r) PROVE Asked
    BY <2>1 DEF AccessInv, TypeOK, TrustTypeOK, Writes, WriteAllowed
  <2>2. CASE ~\E r \in Request : Writes(r)
    <3>1. known' = known
      BY <2>2 DEF Next, TrustNext, TrustStep, Submits, Clears, SessionDeleted, AttemptStep,
                  Connects, Dials, HopOpens, HopRefused, Records, Fails, Cancelled, Released,
                  ClosesHop, ChainClosed, Rekeys, Crashes, trustVars
    <3> QED
      BY <3>1
  <2> QED
    BY <2>1, <2>2
<1> QED
  BY <1>1, AccessInvariant, PTL DEF Spec, NoSilentReplace

=============================================================================
