-------------------------- MODULE GatewayFilesProofs --------------------------
(***************************************************************************)
(* Theorems about GatewayFiles, for any number of processes, requests,     *)
(* keys, editors, hosts and texts.  Everything the processes promise       *)
(* follows from one inductive invariant, FilesInv: who holds the lock,     *)
(* what an upload that is half done has written, and what the memory of    *)
(* the one running process knows of the config file.  The second half is   *)
(* about the walk that resolves a route: RouteInv says what it has seen of *)
(* the lists so far, in whatever order they lead from host to host.        *)
(***************************************************************************)
EXTENDS GatewayFiles, FiniteSetTheorems, SequenceTheorems, TLAPS

\* At most one upload or deletion holds _mutation_lock.
OneMutation == \A c, d \in Request : op[c] # Idle /\ op[d] # Idle => c = d

\* What an upload has found and written so far.
UploadProgress ==
  \A c \in Request :
    /\ op[c].pc \in {"private", "public", "insert"} => row = None
    /\ op[c].pc = "private" => private = None
    /\ op[c].pc \in {"public", "insert"} => private = op[c].key
    /\ op[c].pc = "insert" => public = op[c].key

KeysInv == KeysTypeOK /\ OneMutation /\ UploadProgress /\ RowTellsTruth

\* A process that is past its startup check has a valid config file, and knows
\* what it says unless a save failed.
CatalogInv ==
  \A p \in Process : phase[p] \in {"recovery", "serving"} =>
    config \in Config /\ (snapshot = config \/ unpublished)

FilesInv == LifespanTypeOK /\ OneWriter /\ KeysInv /\ ConfigTypeOK /\ CatalogInv

-----------------------------------------------------------------------------
(* Key requests *)

\* A crash, or the end of the process, leaves only files and the row.
LEMMA KeysForgotten ==
  ASSUME KeysInv, op' = [c \in Request |-> Idle], UNCHANGED slotVars
  PROVE  KeysInv'
BY DEF KeysInv, KeysTypeOK, OneMutation, UploadProgress, RowTellsTruth, slotVars,
       OpState, Idle

LEMMA KeysUnchanged ==
  ASSUME KeysInv, UNCHANGED keyVars
  PROVE  KeysInv'
BY DEF KeysInv, KeysTypeOK, OneMutation, UploadProgress, RowTellsTruth, keyVars

\* The steps of a request that stays at work, or ends: no other is at work.
LEMMA OneMutationStays ==
  ASSUME KeysInv, NEW c \in Request, op[c] # Idle \/ LockIsFree,
         NEW o, op' = [op EXCEPT ![c] = o]
  PROVE  OneMutation'
BY DEF KeysInv, KeysTypeOK, OneMutation, LockIsFree

LEMMA KeyStepKeeps ==
  ASSUME KeysInv, NEW c \in Request, Enters(c) \/ KeyStep(c)
  PROVE  KeysInv'
<1> USE NoKeyAssumption
<1>1. CASE Enters(c)
  BY <1>1 DEF Enters, KeysInv, KeysTypeOK, OneMutation, UploadProgress, RowTellsTruth,
              slotVars, OpAt, LockIsFree, OpState, OpPc, Kind, Idle
<1>2. CASE ImportChecks(c)
  BY <1>2 DEF ImportChecks, SlotIsFree, KeysInv, KeysTypeOK, OneMutation, UploadProgress,
              RowTellsTruth, slotVars, OpAt, OpGoes, OpEnds, OpState, OpPc, Kind, Idle
<1>3. CASE DeleteChecks(c)
  BY <1>3 DEF DeleteChecks, KeysInv, KeysTypeOK, OneMutation, UploadProgress,
              RowTellsTruth, slotVars, OpAt, OpGoes, OpEnds, OpState, OpPc, Kind, Idle
<1>4. CASE WritesPrivate(c)
  BY <1>4 DEF WritesPrivate, KeysInv, KeysTypeOK, OneMutation, UploadProgress,
              RowTellsTruth, slotVars, OpAt, OpGoes, OpEnds, OpState, OpPc, Kind, Idle
<1>5. CASE WritesPublic(c)
  BY <1>5 DEF WritesPublic, KeysInv, KeysTypeOK, OneMutation, UploadProgress,
              RowTellsTruth, slotVars, OpAt, OpGoes, OpEnds, OpState, OpPc, Kind, Idle
<1>6. CASE WriteFails(c)
  BY <1>6 DEF WriteFails, KeysInv, KeysTypeOK, OneMutation, UploadProgress,
              RowTellsTruth, slotVars, OpAt, OpGoes, OpEnds, OpState, OpPc, Kind, Idle
<1>7. CASE Inserts(c)
  BY <1>7 DEF Inserts, KeysInv, KeysTypeOK, OneMutation, UploadProgress,
              RowTellsTruth, slotVars, OpAt, OpGoes, OpEnds, OpState, OpPc, Kind, Idle
<1>8. CASE InsertFails(c)
  BY <1>8 DEF InsertFails, KeysInv, KeysTypeOK, OneMutation, UploadProgress,
              RowTellsTruth, slotVars, OpAt, OpGoes, OpEnds, OpState, OpPc, Kind, Idle
<1>9. CASE UnlinksPrivate(c)
  BY <1>9 DEF UnlinksPrivate, KeysInv, KeysTypeOK, OneMutation, UploadProgress,
              RowTellsTruth, slotVars, OpAt, OpGoes, OpEnds, OpState, OpPc, Kind, Idle
<1>10. CASE UnlinksPublic(c)
  BY <1>10 DEF UnlinksPublic, KeysInv, KeysTypeOK, OneMutation, UploadProgress,
              RowTellsTruth, slotVars, OpAt, OpGoes, OpEnds, OpState, OpPc, Kind, Idle
<1>11. CASE DeletesRow(c)
  BY <1>11 DEF DeletesRow, KeysInv, KeysTypeOK, OneMutation, UploadProgress,
              RowTellsTruth, slotVars, OpAt, OpGoes, OpEnds, OpState, OpPc, Kind, Idle
<1> QED
  BY <1>1, <1>2, <1>3, <1>4, <1>5, <1>6, <1>7, <1>8, <1>9, <1>10, <1>11 DEF KeyStep

-----------------------------------------------------------------------------
(* Every step *)

\* What a step does to the processes: at most one moves, and it holds the lock
\* or gets it from nobody.
LEMMA OneWriterStays ==
  ASSUME LifespanTypeOK, OneWriter, NEW p \in Process,
         ProcessStep(p) \/ UNCHANGED lifeVars
  PROVE  LifespanTypeOK' /\ OneWriter'
BY NobodyAssumption
   DEF ProcessStep, Starts, LoadsOrAborts, Proceeds, ShutsDown, Exits, Crashes, Acquires,
       OpensDatabase, Serves, StartupFails, Stops, ClosesDatabase, Releases, Dies, Moves,
       LifespanTypeOK, OneWriter, Phase, lifeVars

\* A process that holds the lock is the only one that is up.
LEMMA OthersAreDown ==
  ASSUME OneWriter, NEW p \in Process, phase[p] # "down", NEW q \in Process, q # p
  PROVE  phase[q] = "down"
BY DEF OneWriter

LEMMA ProcessStepKeeps ==
  ASSUME FilesInv, NEW p \in Process, ProcessStep(p)
  PROVE  FilesInv'
<1>1. LifespanTypeOK' /\ OneWriter'
  BY OneWriterStays DEF FilesInv
<1>2. KeysInv'
  BY KeysForgotten, KeysUnchanged
     DEF FilesInv, ProcessStep, Starts, LoadsOrAborts, Proceeds, ShutsDown, Exits, Crashes,
         MemoryIsLost, keyVars
<1>3. ConfigTypeOK'
  BY DEF FilesInv, ProcessStep, Starts, LoadsOrAborts, Proceeds, ShutsDown, Exits, Crashes,
         MemoryIsLost, LoadsCatalog, ConfigTypeOK, configVars
<1>4. CatalogInv'
  <2>1. CASE Starts(p)
    BY <2>1 DEF FilesInv, LifespanTypeOK, CatalogInv, Starts, Acquires, OpensDatabase, Moves,
                configVars
  <2>2. CASE LoadsOrAborts(p)
    BY <2>2, OthersAreDown DEF FilesInv, LifespanTypeOK, ConfigTypeOK, CatalogInv, LoadsOrAborts,
                LoadsCatalog, Moves
  <2>3. CASE Proceeds(p)
    BY <2>3 DEF FilesInv, LifespanTypeOK, CatalogInv, Proceeds, StartupFails, Serves,
                ClosesDatabase, Moves, configVars
  <2>4. CASE ShutsDown(p)
    BY <2>4 DEF FilesInv, LifespanTypeOK, CatalogInv, ShutsDown, Stops, Moves, configVars
  <2>5. CASE Exits(p)
    BY <2>5, OthersAreDown DEF FilesInv, LifespanTypeOK, CatalogInv, Exits, Releases, Moves
  <2>6. CASE Crashes(p)
    BY <2>6, OthersAreDown DEF FilesInv, LifespanTypeOK, CatalogInv, Crashes, Dies
  <2> QED
    BY <2>1, <2>2, <2>3, <2>4, <2>5, <2>6 DEF ProcessStep
<1> QED
  BY <1>1, <1>2, <1>3, <1>4 DEF FilesInv

\* Requests, connections and provisioning leave the processes alone.
LEMMA RequestsKeep ==
  ASSUME FilesInv, UNCHANGED lifeVars, KeysInv', ConfigTypeOK', CatalogInv'
  PROVE  FilesInv'
BY DEF FilesInv, lifeVars, LifespanTypeOK, OneWriter

LEMMA ConfigRequestKeeps ==
  ASSUME FilesInv, NEW e \in Editor, ConfigRequest(e)
  PROVE  FilesInv'
<1>1. KeysInv'
  BY KeysUnchanged DEF FilesInv, ConfigRequest
<1>2. ConfigTypeOK'
  BY DEF FilesInv, ConfigRequest, ReadsConfig, Saves, SaveFailsLate, ConfigTypeOK
<1>3. CatalogInv'
  <2>1. CASE ReadsConfig(e)
    BY <2>1 DEF FilesInv, ConfigRequest, ReadsConfig, CatalogInv, lifeVars
  <2>2. ASSUME NEW text \in Config, Saves(e, text) PROVE CatalogInv'
    BY <2>2 DEF Saves, CatalogInv
  <2>3. ASSUME NEW text \in Config, SaveFailsLate(e, text) PROVE CatalogInv'
    BY <2>3 DEF SaveFailsLate, CatalogInv
  <2> QED
    BY <2>1, <2>2, <2>3 DEF ConfigRequest
<1> QED
  BY <1>1, <1>2, <1>3, RequestsKeep DEF ConfigRequest

THEOREM FilesInvariant == Spec => []FilesInv
<1>1. Init => FilesInv
  <2> SUFFICES ASSUME Init PROVE FilesInv
    OBVIOUS
  <2>1. LifespanTypeOK /\ OneWriter /\ CatalogInv
    BY DEF Init, LifespanInit, LifespanTypeOK, Phase, OneWriter, CatalogInv
  <2>2. KeysInv
    BY DEF Init, KeysInit, KeysInv, KeysTypeOK, OpState, Idle, OneMutation, UploadProgress,
           RowTellsTruth
  <2>3. ConfigTypeOK
    BY DEF Init, ConfigInit, ConfigTypeOK
  <2> QED
    BY <2>1, <2>2, <2>3 DEF FilesInv
<1>2. FilesInv /\ [Next]_vars => FilesInv'
  <2> SUFFICES ASSUME FilesInv, [Next]_vars PROVE FilesInv'
    OBVIOUS
  <2>1. ASSUME NEW p \in Process, ProcessStep(p) PROVE FilesInv'
    BY <2>1, ProcessStepKeeps
  <2>2. ASSUME NEW c \in Request, KeyRequest(c) PROVE FilesInv'
    <3>1. KeysInv'
      BY <2>2, KeyStepKeeps DEF FilesInv, KeyRequest
    <3>2. ConfigTypeOK' /\ CatalogInv'
      BY <2>2 DEF FilesInv, KeyRequest, ConfigTypeOK, CatalogInv, lifeVars, configVars
    <3> QED
      BY <2>2, <3>1, <3>2, RequestsKeep DEF KeyRequest
  <2>3. ASSUME NEW e \in Editor, ConfigRequest(e) PROVE FilesInv'
    BY <2>3, ConfigRequestKeeps
  <2>4. CASE Connects \/ UNCHANGED vars
    <3>1. UNCHANGED <<lifeVars, keyVars, configVars>>
      BY <2>4 DEF Connects, vars
    <3>2. ConfigTypeOK' /\ CatalogInv'
      BY <3>1 DEF FilesInv, ConfigTypeOK, CatalogInv, lifeVars, configVars
    <3> QED
      BY <3>1, <3>2, KeysUnchanged, RequestsKeep DEF FilesInv
  <2>5. CASE Provisioned
    BY <2>5, KeysUnchanged, RequestsKeep
       DEF FilesInv, Provisioned, Provisions, Running, ConfigTypeOK, CatalogInv, lifeVars
  <2> QED
    BY <2>1, <2>2, <2>3, <2>4, <2>5 DEF Next
<1> QED
  BY <1>1, <1>2, PTL DEF Spec

-----------------------------------------------------------------------------
(* What follows *)

\* flock taken first and given back last, on every way out of lifespan.
THEOREM OneWriterHolds == Spec => []OneWriter
BY FilesInvariant, PTL DEF FilesInv

\* The row of a key slot never describes another key than the files hold.
THEOREM RowsTellTruth == Spec => []RowTellsTruth
BY FilesInvariant, PTL DEF FilesInv, KeysInv

\* The published aliases are those of the file, unless a save reported a failure.
THEOREM CatalogIsCurrent == Spec => []CatalogTellsFile
<1>1. FilesInv => CatalogTellsFile
  BY DEF FilesInv, CatalogInv, CatalogTellsFile, Serving
<1> QED
  BY <1>1, FilesInvariant, PTL

\* No upload overwrites a private key file: the one upload that has looked and
\* not yet written found the slot empty, and nobody has written since.
THEOREM KeysAreNotReplaced == Spec => KeyIsNotReplaced
<1>1. FilesInv /\ [Next]_vars => [private # None => private' \in {None, private}]_vars
  <2> SUFFICES ASSUME FilesInv, Next
               PROVE  private # None => private' \in {None, private}
    OBVIOUS
  <2>1. ASSUME NEW c \in Request, KeyRequest(c)
        PROVE  private # None => private' \in {None, private}
    BY <2>1 DEF FilesInv, KeysInv, UploadProgress, KeyRequest, Enters, KeyStep, ImportChecks,
                DeleteChecks, WritesPrivate, WritesPublic, WriteFails, Inserts, InsertFails,
                UnlinksPrivate, UnlinksPublic, DeletesRow, slotVars, OpAt
  <2>2. CASE ~\E c \in Request : KeyRequest(c)
    BY <2>2 DEF Next, ProcessStep, Starts, LoadsOrAborts, Proceeds, ShutsDown, Exits, Crashes,
                ConfigRequest, Connects, Provisioned, keyVars, slotVars
  <2> QED
    BY <2>1, <2>2
<1> QED
  BY <1>1, FilesInvariant, PTL DEF Spec, KeyIsNotReplaced

\* Two saves never both succeed from one revision: a save is answered only over
\* the text its editor saw, and a gateway that serves always has a file.
THEOREM SavesAreNotLost == Spec => NoLostSave
<1> DEFINE Seen == \A e \in Editor : config' # config /\ seen'[e] # seen[e] =>
                     seen[e] \in {NoConfig, config}
<1>1. FilesInv /\ [Next]_vars => [Seen]_vars
  <2> SUFFICES ASSUME FilesInv, Next PROVE Seen
    OBVIOUS
  <2>1. ASSUME NEW e \in Editor, ConfigRequest(e) PROVE Seen
    <3>1. config # NoConfig
      BY <2>1, NoConfigAssumption DEF ConfigRequest, Serving, FilesInv, CatalogInv
    <3> QED
      BY <2>1, <3>1 DEF ConfigRequest, ReadsConfig, Saves, SaveFailsLate, RevisionFits,
                        FilesInv, ConfigTypeOK
  <2>2. CASE ~\E e \in Editor : ConfigRequest(e)
    BY <2>2 DEF Next, ProcessStep, Starts, LoadsOrAborts, LoadsCatalog, Proceeds, ShutsDown,
                Exits, Crashes, KeyRequest, Connects, Provisioned, Provisions, configVars
  <2> QED
    BY <2>1, <2>2
<1> QED
  BY <1>1, FilesInvariant, PTL DEF Spec, NoLostSave

-----------------------------------------------------------------------------
(***************************************************************************)
(* The route of an alias.  RouteInv says what a walk has done so far: the  *)
(* hosts it has been to are the jumps it has counted (RouteShape), and, as *)
(* long as no save fell into it, the names it has read make a tree, every  *)
(* one leads from the alias, and each list is among the hops in its order, *)
(* up to the name the walk is at (RouteRead).                              *)
(***************************************************************************)
Hops == Range(walk.endpoints)

RouteShape ==
  /\ walk.stack # <<>> /\ walk.stack[1].host = walk.alias
  /\ \A i, j \in DOMAIN walk.stack : walk.stack[i].host = walk.stack[j].host => i = j
  /\ IsInjective(walk.endpoints)
  /\ Path \cap Hops = {} /\ Path \cup Hops = walk.jumps \cup {walk.alias}
  /\ walk.alias \notin walk.jumps /\ IsFiniteSet(walk.jumps)
  /\ Cardinality(walk.jumps) <= MaxHops
  /\ Len(walk.endpoints) + Len(walk.stack) = Cardinality(walk.jumps) + 1

\* How many names of its list a host on the path has read.
NamesRead(i) == Len(config[walk.stack[i].host]) - Len(walk.stack[i].rest)

\* A place in the lists that the walk has read.
IsRead(h, k) ==
  \/ h \in Hops /\ k \in DOMAIN config[h]
  \/ \E i \in DOMAIN walk.stack : walk.stack[i].host = h /\ k \in 1..NamesRead(i)

Before(g, h) ==
  \E m, n \in DOMAIN walk.endpoints : m < n /\ walk.endpoints[m] = g /\ walk.endpoints[n] = h

\* The first n names of a host's list are hops, in this order.
Settled(h, n) ==
  \A k \in 1..n : config[h][k] \in Hops /\ (k < n => Before(config[h][k], config[h][k + 1]))

\* What is left of a list is the end of it; a host is on the path because it is
\* the last name its predecessor has read; the names before it are hops.
VisitIsRead(i) ==
  LET h == walk.stack[i].host IN
  /\ NamesRead(i) \in Nat
  /\ \A k \in 1..Len(walk.stack[i].rest) : walk.stack[i].rest[k] = config[h][NamesRead(i) + k]
  /\ i < Len(walk.stack) =>
       /\ NamesRead(i) > 0 /\ config[h][NamesRead(i)] = walk.stack[i + 1].host
       /\ Settled(h, NamesRead(i) - 1)
  /\ i = Len(walk.stack) => Settled(h, NamesRead(i))

HopIsSettled(h) ==
  /\ Settled(h, Len(config[h]))
  /\ config[h] # <<>> => Before(Last(config[h]), h)

ReadIsTree ==
  \A g, h \in Host, k, l \in Nat :
    /\ IsRead(g, k) => config[g][k] \in walk.jumps
    /\ IsRead(g, k) /\ IsRead(h, l) /\ config[g][k] = config[h][l] => g = h /\ k = l

JumpsAreRead == \A j \in walk.jumps : \E h \in Host, k \in Nat : IsRead(h, k) /\ config[h][k] = j

RouteRead ==
  /\ \A i \in DOMAIN walk.stack : VisitIsRead(i)
  /\ \A h \in Hops : HopIsSettled(h)
  /\ ReadIsTree /\ JumpsAreRead
  /\ walk.jumps \subseteq Reachable

\* The route of a walk that is done.
RouteDone ==
  /\ walk.stack = <<>> /\ IsInjective(walk.endpoints)
  /\ Last(walk.endpoints) = walk.alias /\ Len(walk.endpoints) <= MaxHops + 1
  /\ Hops = walk.jumps \cup {walk.alias} /\ walk.alias \notin walk.jumps
  /\ IsFiniteSet(walk.jumps) /\ Cardinality(walk.jumps) <= MaxHops

RouteInv ==
  /\ WalkTypeOK
  /\ ~WalkAt("idle") => Running /\ config \in Config /\ (~walk.changed => RouteRead)
  /\ walk.pc \in {"visit", "refused"} => RouteShape
  /\ WalkAt("refused") => Top.rest # <<>> /\ IsRefused(Head(Top.rest))
  /\ WalkAt("done") => RouteDone

-----------------------------------------------------------------------------
(* Sequences, position by position *)

\* A visit: a host, and the names of its list that are still to be read.
Visits == [host: Host, rest: Seq(Host)]

\* All of a sequence but its last element.
LEMMA FrontOf ==
  ASSUME NEW T, NEW s \in Seq(T), s # <<>>
  PROVE  /\ Front(s) \in Seq(T) /\ Len(Front(s)) = Len(s) - 1
         /\ \A i \in 1..(Len(s) - 1) : Front(s)[i] = s[i]
<1> DEFINE n == Len(s) - 1
           f == SubSeq(s, 1, n)
<1>1. n \in Nat /\ \A i \in 1..n : s[i] \in T
  OBVIOUS
<1>2. f \in Seq(T) /\ Len(f) = (IF 1 <= n THEN n - 1 + 1 ELSE 0)
      /\ \A i \in 1..(n - 1 + 1) : f[i] = s[1 + i - 1]
  <2> HIDE DEF n
  <2> QED
    BY <1>1, SubSeqProperties
<1>3. Len(f) = n /\ \A i \in 1..n : f[i] = s[i]
  <2>1. n - 1 + 1 = n /\ \A i \in 1..n : 1 + i - 1 = i
    BY <1>1
  <2> HIDE DEF f, n
  <2>2. Len(f) = n
    BY <1>1, <1>2
  <2> QED
    BY <1>2, <2>1, <2>2
<1> QED
  BY <1>2, <1>3 DEF Front

\* The path, when its innermost visit is replaced and another one entered.
LEMMA PathGrows ==
  ASSUME NEW T, NEW s \in Seq(T), s # <<>>, NEW x \in T, NEW y \in T
  PROVE  LET t == Append(Append(Front(s), x), y) IN
         /\ t \in Seq(T) /\ Len(t) = Len(s) + 1
         /\ \A i \in 1..(Len(s) - 1) : t[i] = s[i]
         /\ t[Len(s)] = x /\ t[Len(s) + 1] = y
<1> DEFINE f == Front(s)
           g == Append(f, x)
           t == Append(g, y)
<1>1. f \in Seq(T) /\ Len(f) = Len(s) - 1 /\ \A i \in 1..(Len(s) - 1) : f[i] = s[i]
  BY FrontOf
<1>2. Len(s) \in Nat \ {0}
  OBVIOUS
<1>3. /\ g \in Seq(T) /\ Len(g) = Len(f) + 1 /\ g[Len(f) + 1] = x
      /\ \A i \in 1..Len(f) : g[i] = f[i]
  <2> HIDE DEF f
  <2> QED
    BY <1>1, AppendProperties
<1>4. /\ t \in Seq(T) /\ Len(t) = Len(g) + 1 /\ t[Len(g) + 1] = y
      /\ \A i \in 1..Len(g) : t[i] = g[i]
  <2> HIDE DEF g
  <2> QED
    BY <1>3, AppendProperties
<1> HIDE DEF f, g, t
<1>5. Len(g) = Len(s) /\ Len(t) = Len(s) + 1
  BY <1>1, <1>2, <1>3, <1>4
<1>6. ASSUME NEW i \in 1..(Len(s) - 1) PROVE t[i] = s[i]
  <2>1. i \in 1..Len(f) /\ i \in 1..Len(g)
    BY <1>1, <1>2, <1>5
  <2>2. t[i] = g[i] /\ g[i] = f[i] /\ f[i] = s[i]
    BY <1>1, <1>3, <1>4, <2>1
  <2> QED
    BY <2>2
<1>7. t[Len(s)] = x /\ t[Len(s) + 1] = y
  <2>1. Len(f) + 1 = Len(s) /\ Len(s) \in 1..Len(g)
    BY <1>1, <1>2, <1>5
  <2> QED
    BY <1>3, <1>4, <1>5, <2>1
<1> USE DEF f, g, t
<1> QED
  BY <1>4, <1>5, <1>6, <1>7

\* The hops, when one is appended.
LEMMA HopAppended ==
  ASSUME NEW T, NEW s \in Seq(T), NEW h \in T
  PROVE  LET t == Append(s, h) IN
         /\ t \in Seq(T) /\ Len(t) = Len(s) + 1 /\ t[Len(s) + 1] = h
         /\ \A i \in 1..Len(s) : t[i] = s[i]
         /\ Range(t) = Range(s) \cup {h}
<1> DEFINE t == Append(s, h)
<1>1. /\ t \in Seq(T) /\ Len(t) = Len(s) + 1 /\ t[Len(s) + 1] = h
      /\ \A i \in 1..Len(s) : t[i] = s[i]
  BY AppendProperties
<1> HIDE DEF t
<1>2. /\ DOMAIN s = 1..Len(s) /\ DOMAIN t = 1..(Len(s) + 1) /\ Len(s) \in Nat
  BY <1>1
<1>3. ASSUME NEW x \in Range(t) PROVE x \in Range(s) \cup {h}
  <2>1. PICK i \in 1..(Len(s) + 1) : t[i] = x
    BY <1>2, <1>3 DEF Range
  <2>2. CASE i = Len(s) + 1
    BY <1>1, <2>1, <2>2
  <2>3. CASE i \in 1..Len(s)
    BY <1>1, <1>2, <2>1, <2>3 DEF Range
  <2> QED
    BY <1>2, <2>2, <2>3
<1>4. ASSUME NEW x \in Range(s) PROVE x \in Range(t)
  BY <1>1, <1>2, <1>4 DEF Range
<1>5. h \in Range(t)
  BY <1>1, <1>2 DEF Range
<1> QED
  BY <1>1, <1>3, <1>4, <1>5 DEF t

-----------------------------------------------------------------------------
(* The two steps of a walk, field by field *)

Walks ==
  [pc: {"visit", "done", "refused"}, alias: Alias, jumps: SUBSET Host, stack: Seq(Visits),
   endpoints: Seq(Host), changed: BOOLEAN]

\* The walk reads the name h and enters it.
JumpEntered(h) ==
  LET n == Len(walk.stack) IN
  /\ walk' \in Walks
  /\ walk'.pc = "visit" /\ walk'.alias = walk.alias /\ walk'.endpoints = walk.endpoints
  /\ walk'.changed = walk.changed /\ walk'.jumps = walk.jumps \cup {h}
  /\ Len(walk'.stack) = n + 1 /\ \A i \in 1..(n - 1) : walk'.stack[i] = walk.stack[i]
  /\ walk'.stack[n].host = walk.stack[n].host
  /\ walk'.stack[n].rest = Tail(walk.stack[n].rest)
  /\ walk'.stack[n + 1].host = h /\ walk'.stack[n + 1].rest = config[h]

\* The host of a list that is done becomes a hop.
HopListed ==
  LET n == Len(walk.stack) IN
  /\ walk' \in Walks
  /\ walk'.pc = (IF n = 1 THEN "done" ELSE "visit") /\ walk'.alias = walk.alias
  /\ walk'.changed = walk.changed /\ walk'.jumps = walk.jumps
  /\ Len(walk'.stack) = n - 1 /\ \A i \in 1..(n - 1) : walk'.stack[i] = walk.stack[i]
  /\ Len(walk'.endpoints) = Len(walk.endpoints) + 1
  /\ walk'.endpoints[Len(walk.endpoints) + 1] = walk.stack[n].host
  /\ \A i \in 1..Len(walk.endpoints) : walk'.endpoints[i] = walk.endpoints[i]
  /\ Hops' = Hops \cup {walk.stack[n].host}

LEMMA WalkTypes ==
  /\ WalkTypeOK <=> walk \in {NoWalk} \cup Walks
  /\ walk \in Walks => ~WalkAt("idle")
  /\ WalkTypeOK /\ ~WalkAt("idle") => walk \in Walks
BY DEF WalkTypeOK, Walks, Visits, NoWalk, WalkAt

\* What the types say of a walk that is on a path.
LEMMA WalkFacts ==
  ASSUME walk \in Walks, walk.stack # <<>>
  PROVE  /\ Len(walk.stack) \in Nat \ {0} /\ DOMAIN walk.stack = 1..Len(walk.stack)
         /\ \A i \in 1..Len(walk.stack) :
              walk.stack[i] \in Visits /\ walk.stack[i].host \in Host
                /\ walk.stack[i].rest \in Seq(Host)
         /\ Top = walk.stack[Len(walk.stack)]
         /\ Len(walk.endpoints) \in Nat /\ DOMAIN walk.endpoints = 1..Len(walk.endpoints)
         /\ Hops \subseteq Host /\ walk.alias \in Host /\ walk.jumps \subseteq Host
<1>1. /\ walk.stack \in Seq(Visits) /\ walk.endpoints \in Seq(Host)
      /\ walk.alias \in Alias /\ walk.jumps \subseteq Host
  BY DEF Walks
<1>2. Len(walk.stack) \in Nat \ {0} /\ DOMAIN walk.stack = 1..Len(walk.stack)
      /\ \A i \in 1..Len(walk.stack) : walk.stack[i] \in Visits
  BY <1>1
<1>3. Len(walk.endpoints) \in Nat /\ DOMAIN walk.endpoints = 1..Len(walk.endpoints)
      /\ Hops \subseteq Host
  BY <1>1 DEF Hops, Range
<1> QED
  BY <1>1, <1>2, <1>3, HopAssumption DEF Visits, Top, Last

LEMMA VisitsEntersJump ==
  ASSUME walk \in Walks, walk.stack # <<>>, config \in Config, VisitsJump,
         ~IsRefused(Head(Top.rest))
  PROVE  JumpEntered(Head(Top.rest))
<1> DEFINE n == Len(walk.stack)
           h == Head(Top.rest)
           x == [Top EXCEPT !.rest = Tail(@)]
           stack == Append(Append(Front(walk.stack), x), Visit(h))
<1>1. n \in Nat \ {0} /\ Top = walk.stack[n] /\ Top \in Visits /\ walk.stack \in Seq(Visits)
      /\ walk.jumps \subseteq Host
  BY WalkFacts DEF Walks
<1>2. Top.rest \in Seq(Host) /\ Top.rest # <<>>
  BY <1>1 DEF Visits, VisitsJump
<1>3. h \in Host /\ Tail(Top.rest) \in Seq(Host)
  BY <1>2
<1>4. x \in Visits /\ x.host = Top.host /\ x.rest = Tail(Top.rest)
  BY <1>1, <1>3 DEF Visits
<1>5. Visit(h) \in Visits /\ Visit(h).host = h /\ Visit(h).rest = config[h]
  BY <1>3, ConfigAssumption DEF Visits, Visit
<1>6. /\ stack \in Seq(Visits) /\ Len(stack) = n + 1
      /\ \A i \in 1..(n - 1) : stack[i] = walk.stack[i]
      /\ stack[n] = x /\ stack[n + 1] = Visit(h)
  <2> HIDE DEF x, h
  <2> QED
    BY <1>1, <1>4, <1>5, PathGrows
<1>7. walk' = [walk EXCEPT !.jumps = @ \cup {h}, !.stack = stack]
  BY DEF VisitsJump
<1> HIDE DEF x, h, stack, n
<1>8. walk.jumps \cup {h} \in SUBSET Host
  BY <1>1, <1>3
<1>9. /\ walk' \in Walks /\ walk'.pc = walk.pc /\ walk'.alias = walk.alias
      /\ walk'.endpoints = walk.endpoints
      /\ walk'.changed = walk.changed /\ walk'.jumps = walk.jumps \cup {h}
      /\ walk'.stack = stack
  BY <1>6, <1>7, <1>8 DEF Walks
<1>10. walk.pc = "visit"
  BY DEF VisitsJump, WalkAt
<1> QED
  BY <1>1, <1>4, <1>5, <1>6, <1>9, <1>10 DEF JumpEntered, n, h

LEMMA ListsListsHop ==
  ASSUME walk \in Walks, walk.stack # <<>>, ListsHop
  PROVE  HopListed
<1> DEFINE n == Len(walk.stack)
           stack == Front(walk.stack)
           endpoints == Append(walk.endpoints, Top.host)
           pc == IF n = 1 THEN "done" ELSE "visit"
<1>1. n \in Nat \ {0} /\ Top = walk.stack[n] /\ Top \in Visits /\ walk.stack \in Seq(Visits)
      /\ Top.host \in Host /\ walk.endpoints \in Seq(Host)
  BY WalkFacts DEF Walks
<1>2. /\ stack \in Seq(Visits) /\ Len(stack) = n - 1
      /\ \A i \in 1..(n - 1) : stack[i] = walk.stack[i]
  BY <1>1, FrontOf
<1>3. /\ endpoints \in Seq(Host) /\ Len(endpoints) = Len(walk.endpoints) + 1
      /\ endpoints[Len(walk.endpoints) + 1] = Top.host
      /\ \A i \in 1..Len(walk.endpoints) : endpoints[i] = walk.endpoints[i]
      /\ Range(endpoints) = Hops \cup {Top.host}
  BY <1>1, HopAppended DEF Hops
<1>4. walk' = [walk EXCEPT !.endpoints = endpoints, !.stack = stack, !.pc = pc]
  BY DEF ListsHop
<1>5. pc \in {"visit", "done"}
  OBVIOUS
<1> HIDE DEF n, stack, endpoints, pc
<1>6. /\ walk' \in Walks /\ walk'.pc = pc /\ walk'.alias = walk.alias
      /\ walk'.endpoints = endpoints
      /\ walk'.changed = walk.changed /\ walk'.jumps = walk.jumps
      /\ walk'.stack = stack
  BY <1>2, <1>3, <1>4, <1>5 DEF Walks
<1>7. Hops' = Hops \cup {walk.stack[n].host}
  BY <1>1, <1>3, <1>6 DEF Hops
<1>8. /\ Len(walk'.stack) = n - 1 /\ \A i \in 1..(n - 1) : walk'.stack[i] = walk.stack[i]
      /\ Len(walk'.endpoints) = Len(walk.endpoints) + 1
      /\ walk'.endpoints[Len(walk.endpoints) + 1] = walk.stack[n].host
      /\ \A i \in 1..Len(walk.endpoints) : walk'.endpoints[i] = walk.endpoints[i]
  BY <1>1, <1>2, <1>3, <1>6
<1> QED
  BY <1>6, <1>7, <1>8 DEF HopListed, n, pc

-----------------------------------------------------------------------------
(* The hosts of a walk *)

LEMMA PathFacts ==
  ASSUME walk \in Walks, walk.stack # <<>>
  PROVE  /\ Path = {walk.stack[i].host : i \in 1..Len(walk.stack)}
         /\ \A i \in 1..Len(walk.stack) : walk.stack[i].host \in Path
BY WalkFacts DEF Path

LEMMA StackNotEmpty ==
  ASSUME NEW w \in Walks
  PROVE  /\ Len(w.stack) \in Nat /\ DOMAIN w.stack = 1..Len(w.stack)
         /\ (w.stack # <<>> <=> Len(w.stack) > 0)
         /\ Len(w.endpoints) \in Nat /\ DOMAIN w.endpoints = 1..Len(w.endpoints)
<1>1. w.stack \in Seq(Visits) /\ w.endpoints \in Seq(Host)
  BY DEF Walks
<1> QED
  BY <1>1

LEMMA ShapeGrows ==
  ASSUME walk \in Walks, RouteShape, NEW h \in Host, JumpEntered(h), ~IsRefused(h)
  PROVE  RouteShape' /\ Path' = Path \cup {h} /\ Hops' = Hops
<1> DEFINE n == Len(walk.stack)
<1>1. /\ n \in Nat \ {0} /\ DOMAIN walk.stack = 1..n
      /\ walk.stack # <<>> /\ walk.stack[1].host = walk.alias
  BY WalkFacts DEF RouteShape
<1>2. /\ walk' \in Walks /\ Len(walk'.stack) = n + 1
      /\ walk'.stack # <<>> /\ DOMAIN walk'.stack = 1..(n + 1)
  <2>1. walk' \in Walks /\ Len(walk'.stack) = n + 1
    BY DEF JumpEntered
  <2> QED
    BY <1>1, <2>1, StackNotEmpty
<1>3. /\ \A i \in 1..n : walk'.stack[i].host = walk.stack[i].host
      /\ walk'.stack[n + 1].host = h
  <2>1. /\ \A i \in 1..(n - 1) : walk'.stack[i] = walk.stack[i]
        /\ walk'.stack[n].host = walk.stack[n].host /\ walk'.stack[n + 1].host = h
    BY DEF JumpEntered
  <2>2. \A i \in 1..n : i \in 1..(n - 1) \/ i = n
    BY <1>1
  <2> HIDE DEF n
  <2> QED
    BY <2>1, <2>2
<1>4. h \notin Path /\ h \notin walk.jumps /\ ~(Cardinality(walk.jumps) >= MaxHops)
  BY DEF IsRefused
<1>5. Path = {walk.stack[i].host : i \in 1..n} /\ Path' = {walk'.stack[i].host : i \in 1..(n + 1)}
  BY <1>1, <1>2 DEF Path
<1>6. Path' = Path \cup {h}
  <2>1. ASSUME NEW x \in Path' PROVE x \in Path \cup {h}
    <3>1. PICK i \in 1..(n + 1) : x = walk'.stack[i].host
      BY <1>5, <2>1
    <3>2. i \in 1..n \/ i = n + 1
      BY <1>1, <3>1
    <3> QED
      BY <1>3, <1>5, <3>1, <3>2
  <2>2. ASSUME NEW x \in Path PROVE x \in Path'
    <3>1. PICK i \in 1..n : x = walk.stack[i].host
      BY <1>5, <2>2
    <3>2. i \in 1..(n + 1)
      BY <1>1, <3>1
    <3> QED
      BY <1>3, <1>5, <3>1, <3>2
  <2>3. h \in Path'
    <3>1. n + 1 \in 1..(n + 1)
      BY <1>1
    <3> QED
      BY <1>3, <1>5, <3>1
  <2> QED
    BY <2>1, <2>2, <2>3
<1>7. Hops' = Hops /\ walk'.endpoints = walk.endpoints
  BY DEF JumpEntered, Hops
<1>8. walk'.stack[1].host = walk'.alias
  BY <1>1, <1>3 DEF JumpEntered
<1>9. ASSUME NEW i \in 1..(n + 1), NEW j \in 1..(n + 1), walk'.stack[i].host = walk'.stack[j].host
      PROVE  i = j
  <2>1. \A k \in 1..n : walk.stack[k].host \in Path
    BY <1>5
  <2>2. \A k, l \in 1..n : walk.stack[k].host = walk.stack[l].host => k = l
    BY <1>1 DEF RouteShape
  <2>3. \A k \in 1..n : walk'.stack[k].host # h
    BY <1>3, <1>4, <2>1
  <2>4. i \in 1..n \/ i = n + 1
    BY <1>1
  <2>5. j \in 1..n \/ j = n + 1
    BY <1>1
  <2> HIDE DEF n
  <2> QED
    BY <1>3, <1>9, <2>2, <2>3, <2>4, <2>5
<1>10. /\ Path' \cap Hops' = {} /\ Path' \cup Hops' = walk'.jumps \cup {walk'.alias}
       /\ walk'.alias \notin walk'.jumps
  <2>1. walk.alias \in Path
    BY <1>1, <1>5
  <2> QED
    BY <1>4, <1>6, <1>7, <2>1 DEF RouteShape, JumpEntered
<1>11. /\ IsFiniteSet(walk'.jumps) /\ Cardinality(walk'.jumps) <= MaxHops
       /\ Len(walk'.endpoints) + Len(walk'.stack) = Cardinality(walk'.jumps) + 1
  <2>1. /\ IsFiniteSet(walk'.jumps)
        /\ Cardinality(walk'.jumps) = Cardinality(walk.jumps) + 1
        /\ Cardinality(walk.jumps) \in Nat
    BY <1>4, FS_AddElement, FS_CardinalityType DEF RouteShape, JumpEntered
  <2>2. Len(walk.endpoints) + n = Cardinality(walk.jumps) + 1 /\ Len(walk.endpoints) \in Nat
    BY <1>1, WalkFacts DEF RouteShape
  <2>3. Cardinality(walk.jumps) + 1 <= MaxHops
    BY <1>4, <2>1, HopAssumption
  <2>4. Len(walk'.endpoints) = Len(walk.endpoints)
    BY <1>7
  <2> HIDE DEF n
  <2>5. Len(walk'.endpoints) + Len(walk'.stack) = Cardinality(walk'.jumps) + 1
    <3>1. n \in Nat /\ Len(walk'.stack) = n + 1
      BY <1>1, <1>2
    <3> DEFINE e == Len(walk.endpoints)
               c == Cardinality(walk.jumps)
    <3>2. e + (n + 1) = (c + 1) + 1
      <4>1. e \in Nat /\ c \in Nat /\ e + n = c + 1
        BY <2>1, <2>2
      <4> HIDE DEF e, c
      <4> QED
        BY <3>1, <4>1
    <3> QED
      BY <2>1, <2>4, <3>1, <3>2
  <2> QED
    BY <2>1, <2>3, <2>5
<1>12. IsInjective(walk'.endpoints)
  BY <1>7 DEF RouteShape
<1> QED
  BY <1>2, <1>6, <1>7, <1>8, <1>9, <1>10, <1>11, <1>12 DEF RouteShape

LEMMA ShapeShrinks ==
  ASSUME walk \in Walks, RouteShape, HopListed
  PROVE  /\ IsInjective(walk'.endpoints)
         /\ Len(walk.stack) > 1 => RouteShape'
         /\ Len(walk.stack) = 1 =>
              /\ Last(walk'.endpoints) = walk.alias /\ Len(walk'.endpoints) <= MaxHops + 1
              /\ Hops' = walk.jumps \cup {walk.alias}
<1> DEFINE n == Len(walk.stack)
           m == Len(walk.endpoints)
           h == walk.stack[n].host
<1>1. /\ n \in Nat \ {0} /\ DOMAIN walk.stack = 1..n /\ m \in Nat
      /\ walk.stack # <<>> /\ walk.stack[1].host = walk.alias /\ DOMAIN walk.endpoints = 1..m
  BY WalkFacts DEF RouteShape
<1>2. /\ walk' \in Walks /\ Len(walk'.stack) = n - 1 /\ DOMAIN walk'.stack = 1..(n - 1)
      /\ DOMAIN walk'.endpoints = 1..(m + 1) /\ Len(walk'.endpoints) = m + 1
  <2>1. walk' \in Walks /\ Len(walk'.stack) = n - 1 /\ Len(walk'.endpoints) = m + 1
    BY DEF HopListed
  <2> QED
    BY <1>1, <2>1, StackNotEmpty
<1>3. Path = {walk.stack[i].host : i \in 1..n} /\ Path' = {walk'.stack[i].host : i \in 1..(n - 1)}
  BY <1>1, <1>2 DEF Path
<1>4. \A i \in 1..(n - 1) : walk'.stack[i] = walk.stack[i]
  BY DEF HopListed
<1>5. \A i, j \in 1..n : walk.stack[i].host = walk.stack[j].host => i = j
  BY <1>1 DEF RouteShape
<1>6. Hops' = Hops \cup {h} /\ h \in Path
  BY <1>1, <1>3 DEF HopListed
<1>7. Path' = Path \ {h}
  <2>1. ASSUME NEW x \in Path' PROVE x \in Path \ {h}
    BY <1>1, <1>3, <1>4, <1>5, <2>1
  <2>2. ASSUME NEW x \in Path \ {h} PROVE x \in Path'
    BY <1>1, <1>3, <1>4, <2>2
  <2> QED
    BY <2>1, <2>2
<1>8. IsInjective(walk'.endpoints)
  <2>1. /\ \A i \in 1..m : walk'.endpoints[i] = walk.endpoints[i] /\ walk.endpoints[i] # h
        /\ walk'.endpoints[m + 1] = h
    <3>1. /\ \A i \in 1..m : walk'.endpoints[i] = walk.endpoints[i]
          /\ walk'.endpoints[m + 1] = h
      BY DEF HopListed
    <3>2. Hops = {walk.endpoints[i] : i \in 1..m}
      BY <1>1 DEF Hops, Range
    <3>3. h \notin Hops
      BY <1>6 DEF RouteShape
    <3> HIDE DEF m, h
    <3> QED
      BY <3>1, <3>2, <3>3
  <2>2. \A i, j \in 1..m : walk.endpoints[i] = walk.endpoints[j] => i = j
    BY <1>1 DEF RouteShape, IsInjective
  <2>3. ASSUME NEW i \in 1..(m + 1), NEW j \in 1..(m + 1),
               walk'.endpoints[i] = walk'.endpoints[j]
        PROVE  i = j
    <3>1. i \in 1..m \/ i = m + 1
      BY <1>1
    <3>2. j \in 1..m \/ j = m + 1
      BY <1>1
    <3> HIDE DEF m, h
    <3> QED
      BY <2>1, <2>2, <2>3, <3>1, <3>2
  <2> QED
    BY <1>2, <2>3 DEF IsInjective
<1>9. m + n = Cardinality(walk.jumps) + 1 /\ Cardinality(walk.jumps) <= MaxHops
      /\ Cardinality(walk.jumps) \in Nat /\ IsFiniteSet(walk.jumps)
  BY FS_CardinalityType DEF RouteShape
<1>10. CASE n > 1
  <2>1. walk'.stack # <<>> /\ walk'.stack[1].host = walk'.alias
    <3>1. walk'.stack # <<>>
      BY <1>1, <1>2, <1>10, StackNotEmpty
    <3> QED
      BY <1>1, <1>4, <1>10, <3>1 DEF HopListed
  <2>2. \A i, j \in 1..(n - 1) : walk'.stack[i].host = walk'.stack[j].host => i = j
    <3>1. \A i \in 1..(n - 1) : i \in 1..n /\ walk'.stack[i].host = walk.stack[i].host
      BY <1>1, <1>4
    <3> HIDE DEF n
    <3> QED
      BY <1>5, <3>1
  <2>3. /\ Path' \cap Hops' = {} /\ Path' \cup Hops' = walk'.jumps \cup {walk'.alias}
        /\ walk'.alias \notin walk'.jumps
    BY <1>6, <1>7 DEF RouteShape, HopListed
  <2>4. Len(walk'.endpoints) + Len(walk'.stack) = Cardinality(walk'.jumps) + 1
    <3>1. walk'.jumps = walk.jumps
      BY DEF HopListed
    <3> HIDE DEF n, m
    <3> QED
      BY <1>1, <1>2, <1>9, <3>1
  <2>5. walk'.jumps = walk.jumps
    BY DEF HopListed
  <2>6. RouteShape'
    BY <1>2, <1>8, <1>9, <2>1, <2>2, <2>3, <2>4, <2>5 DEF RouteShape
  <2>7. n # 1
    <3> HIDE DEF n
    <3> QED
      BY <1>10
  <2> QED
    BY <1>8, <2>6, <2>7
<1>11. CASE n = 1
  <2>1. h = walk.alias /\ Path = {h}
    BY <1>1, <1>3, <1>11
  <2>2. Last(walk'.endpoints) = walk.alias
    BY <1>1, <1>2, <2>1 DEF HopListed, Last
  <2>3. Hops' = walk.jumps \cup {walk.alias}
    BY <1>6, <2>1 DEF RouteShape
  <2>4. Len(walk'.endpoints) <= MaxHops + 1
    <3> HIDE DEF n, m
    <3> QED
      BY <1>1, <1>2, <1>9, <1>11, HopAssumption
  <2> QED
    BY <1>8, <1>11, <2>2, <2>3, <2>4
<1>12. n > 1 \/ n = 1
  <2>1. n \in Nat \ {0}
    BY <1>1
  <2> HIDE DEF n
  <2> QED
    BY <2>1
<1> QED
  BY <1>10, <1>11, <1>12

-----------------------------------------------------------------------------
(* The names a walk has read *)

LEMMA ListFacts ==
  ASSUME config \in Config, NEW h \in Host
  PROVE  /\ config[h] \in Seq(Host) /\ Len(config[h]) \in Nat
         /\ DOMAIN config[h] = 1..Len(config[h])
         /\ \A k \in 1..Len(config[h]) : config[h][k] \in Host
         /\ config[h] = <<>> <=> Len(config[h]) = 0
<1>1. config[h] \in Seq(Host)
  BY ConfigAssumption
<1> QED
  BY <1>1

\* What is on a list of a host that the alias leads to, it leads to.
LEMMA ReachableIsClosed ==
  ASSUME config \in Config, NEW h \in Reachable, NEW k \in DOMAIN config[h]
  PROVE  config[h][k] \in Reachable
<1>1. h \in Host
  BY DEF Reachable
<1>2. config[h][k] \in Host
  BY <1>1, ListFacts
<1>3. ASSUME NEW S \in SUBSET Host, walk.alias \in S, Closed(S) PROVE config[h][k] \in S
  <2>1. h \in S
    BY <1>3 DEF Reachable
  <2>2. Range(config[h]) \subseteq S
    BY <1>3, <2>1 DEF Closed
  <2> QED
    BY <2>2 DEF Range
<1> QED
  BY <1>2, <1>3 DEF Reachable

LEMMA AliasIsReachable ==
  ASSUME walk \in Walks
  PROVE  walk.alias \in Reachable /\ Reachable \subseteq Host
BY HopAssumption DEF Walks, Reachable

\* The name the innermost visit reads next, and where it stands.
LEMMA NextName ==
  ASSUME walk \in Walks, config \in Config, walk.stack # <<>>, Top.rest # <<>>,
         NEW n, n = Len(walk.stack), VisitIsRead(n), NEW h, h = Head(Top.rest)
  PROVE  /\ h = config[walk.stack[n].host][NamesRead(n) + 1] /\ h \in Host
         /\ NamesRead(n) + 1 \in 1..Len(config[walk.stack[n].host])
<1>1. PICK g, r, c : g = walk.stack[n].host /\ r = walk.stack[n].rest /\ c = NamesRead(n)
  OBVIOUS
<1>2. n \in Nat \ {0} /\ g \in Host /\ r \in Seq(Host) /\ Top.rest = r
  BY <1>1, WalkFacts
<1>3. r # <<>> /\ h = r[1] /\ Len(r) \in Nat \ {0} /\ r[1] \in Host
  BY <1>2
<1>4. c \in Nat /\ r[1] = config[g][c + 1]
  BY <1>1, <1>3 DEF VisitIsRead
<1>5. c = Len(config[g]) - Len(r) /\ Len(config[g]) \in Nat
  BY <1>1, <1>2, ListFacts DEF NamesRead
<1>6. c + 1 \in 1..Len(config[g])
  BY <1>3, <1>4, <1>5
<1> QED
  BY <1>1, <1>3, <1>4, <1>6

-----------------------------------------------------------------------------
(* A jump is entered *)

\* What is among the hops is not disturbed.
LEMMA JumpKeepsHops ==
  ASSUME NEW h, JumpEntered(h), UNCHANGED config, NEW x, NEW m
  PROVE  Hops' = Hops /\ (Settled(x, m) <=> Settled(x, m)') /\ (HopIsSettled(x) <=> HopIsSettled(x)')
<1>1. walk'.endpoints = walk.endpoints
  BY DEF JumpEntered
<1>2. Hops' = Hops
  BY <1>1 DEF Hops
<1>3. \A y, z : Before(y, z)' <=> Before(y, z)
  BY <1>1 DEF Before
<1>4. \A l : Settled(x, l)' <=> Settled(x, l)
  BY <1>2, <1>3 DEF Settled
<1> QED
  BY <1>2, <1>3, <1>4 DEF HopIsSettled

LEMMA JumpReadsName ==
  ASSUME walk \in Walks, config \in Config, walk.stack # <<>>, Top.rest # <<>>,
         NEW n, n = Len(walk.stack), VisitIsRead(n), NEW h, h = Head(Top.rest),
         JumpEntered(h), UNCHANGED config
  PROVE  /\ \A i \in 1..(n - 1) : NamesRead(i)' = NamesRead(i)
         /\ NamesRead(n)' = NamesRead(n) + 1 /\ NamesRead(n + 1)' = 0
<1>1. PICK g, r : g = walk.stack[n].host /\ r = walk.stack[n].rest
  OBVIOUS
<1>2. n \in Nat \ {0} /\ g \in Host /\ r \in Seq(Host) /\ r # <<>>
  BY <1>1, WalkFacts
<1>3. ASSUME NEW i \in 1..(n - 1) PROVE NamesRead(i)' = NamesRead(i)
  BY DEF JumpEntered, NamesRead
<1>4. NamesRead(n)' = NamesRead(n) + 1
  <2>1. walk'.stack[n].host = g /\ walk'.stack[n].rest = Tail(r)
    BY <1>1 DEF JumpEntered
  <2>2. Len(Tail(r)) = Len(r) - 1 /\ Len(r) \in Nat
    BY <1>2
  <2>3. Len(config[g]) \in Nat
    BY <1>2, ListFacts
  <2>4. NamesRead(n)' = Len(config[g]) - Len(Tail(r)) /\ NamesRead(n) = Len(config[g]) - Len(r)
    BY <1>1, <2>1 DEF NamesRead
  <2>5. \A a, b \in Nat : a - (b - 1) = (a - b) + 1
    OBVIOUS
  <2> QED
    BY <2>2, <2>3, <2>4, <2>5, Zenon
<1>5. NamesRead(n + 1)' = 0
  <2>1. h \in Host
    BY NextName
  <2>2. NamesRead(n + 1)' = Len(config[h]) - Len(config[h])
    BY DEF JumpEntered, NamesRead
  <2> QED
    BY <2>1, <2>2, ListFacts
<1> QED
  BY <1>3, <1>4, <1>5

LEMMA JumpKeepsVisits ==
  ASSUME walk \in Walks, config \in Config, walk.stack # <<>>, Top.rest # <<>>,
         \A i \in DOMAIN walk.stack : VisitIsRead(i),
         JumpEntered(Head(Top.rest)), UNCHANGED config
  PROVE  \A i \in DOMAIN walk'.stack : VisitIsRead(i)'
<1>0. PICK n, g, r, h, c :
        /\ n = Len(walk.stack) /\ g = walk.stack[n].host /\ r = walk.stack[n].rest
        /\ h = Head(Top.rest) /\ c = NamesRead(n)
  OBVIOUS
<1>1. n \in Nat \ {0} /\ DOMAIN walk.stack = 1..n /\ g \in Host /\ r \in Seq(Host)
      /\ Top.rest = r /\ n \in DOMAIN walk.stack
  BY <1>0, WalkFacts
<1>2. walk' \in Walks /\ Len(walk'.stack) = n + 1 /\ DOMAIN walk'.stack = 1..(n + 1)
  <2>1. walk' \in Walks /\ Len(walk'.stack) = n + 1
    BY <1>0 DEF JumpEntered
  <2> QED
    BY <2>1, StackNotEmpty
<1>3. /\ \A i \in 1..(n - 1) : NamesRead(i)' = NamesRead(i)
      /\ NamesRead(n)' = c + 1 /\ NamesRead(n + 1)' = 0
  BY <1>0, <1>1, JumpReadsName
<1>4. /\ \A i \in 1..(n - 1) : walk'.stack[i] = walk.stack[i]
      /\ walk'.stack[n].host = g /\ walk'.stack[n].rest = Tail(r)
      /\ walk'.stack[n + 1].host = h /\ walk'.stack[n + 1].rest = config[h]
  BY <1>0 DEF JumpEntered
<1>5. VisitIsRead(n) /\ c \in Nat /\ Settled(g, c)
      /\ \A k \in 1..Len(r) : r[k] = config[g][c + k]
  BY <1>0, <1>1 DEF VisitIsRead
<1>6. h = config[g][c + 1] /\ h \in Host
  BY <1>0, <1>5, NextName
<1>7. \A x, m : Settled(x, m) => Settled(x, m)'
  BY JumpKeepsHops
<1>8. ASSUME NEW i \in 1..(n - 1) PROVE VisitIsRead(i)'
  <2>1. VisitIsRead(i) /\ i < n /\ i \in 1..n /\ i + 1 \in 1..n
    BY <1>1
  <2>2. walk'.stack[i + 1].host = walk.stack[i + 1].host
    <3>1. i + 1 \in 1..(n - 1) \/ i + 1 = n
      BY <1>1
    <3> QED
      BY <1>0, <1>4, <3>1
  <2>3. ~(i = n + 1) /\ i < n + 1
    BY <1>1
  <2>4. walk'.stack[i] = walk.stack[i] /\ NamesRead(i)' = NamesRead(i)
    BY <1>3, <1>4
  <2> QED
    BY <1>0, <1>2, <1>7, <2>1, <2>2, <2>3, <2>4 DEF VisitIsRead
<1>9. VisitIsRead(n)'
  <2>1. c + 1 \in Nat /\ c + 1 > 0 /\ (c + 1) - 1 = c /\ n < n + 1 /\ n # n + 1
    BY <1>1, <1>5
  <2>2. ASSUME NEW k \in 1..Len(Tail(r)) PROVE Tail(r)[k] = config[g][(c + 1) + k]
    <3>1. r # <<>> /\ Len(Tail(r)) = Len(r) - 1 /\ Tail(r)[k] = r[k + 1] /\ Len(r) \in Nat
      BY <1>1
    <3>2. k + 1 \in 1..Len(r) /\ c + (k + 1) = (c + 1) + k
      BY <1>5, <3>1
    <3> QED
      BY <1>5, <3>1, <3>2
  <2>3. Settled(g, c)'
    BY <1>5, <1>7
  <2> QED
    BY <1>2, <1>3, <1>4, <1>6, <2>1, <2>2, <2>3 DEF VisitIsRead
<1>10. VisitIsRead(n + 1)'
  <2>1. Len(config[h]) \in Nat /\ \A k \in 1..Len(config[h]) : 0 + k = k
    BY <1>6, ListFacts
  <2>2. Settled(h, 0)'
    BY DEF Settled
  <2>3. ~(n + 1 < n + 1)
    BY <1>1
  <2> QED
    BY <1>2, <1>3, <1>4, <2>1, <2>2, <2>3 DEF VisitIsRead
<1>11. \A i \in 1..(n + 1) : i \in 1..(n - 1) \/ i = n \/ i = n + 1
  BY <1>1
<1> QED
  BY <1>2, <1>8, <1>9, <1>10, <1>11

\* The one place that is read.
LEMMA JumpReadsPlace ==
  ASSUME walk \in Walks, config \in Config, walk.stack # <<>>, Top.rest # <<>>,
         NEW n, n = Len(walk.stack), VisitIsRead(n), NEW h, h = Head(Top.rest),
         JumpEntered(h), UNCHANGED config, NEW x, NEW k
  PROVE  IsRead(x, k)' <=> IsRead(x, k) \/ (x = walk.stack[n].host /\ k = NamesRead(n) + 1)
<1>1. PICK g, c : g = walk.stack[n].host /\ c = NamesRead(n)
  OBVIOUS
<1>2. n \in Nat \ {0} /\ DOMAIN walk.stack = 1..n /\ c \in Nat
  BY <1>1, WalkFacts DEF VisitIsRead
<1>3. Len(walk'.stack) = n + 1 /\ DOMAIN walk'.stack = 1..(n + 1)
  <2>1. walk' \in Walks /\ Len(walk'.stack) = n + 1
    BY DEF JumpEntered
  <2> QED
    BY <2>1, StackNotEmpty
<1>4. /\ \A i \in 1..(n - 1) : NamesRead(i)' = NamesRead(i)
      /\ NamesRead(n)' = c + 1 /\ NamesRead(n + 1)' = 0
  BY <1>1, JumpReadsName
<1>5. /\ \A i \in 1..(n - 1) : walk'.stack[i].host = walk.stack[i].host
      /\ walk'.stack[n].host = g
  BY <1>1 DEF JumpEntered
<1>6. Hops' = Hops
  BY JumpKeepsHops
<1>7. ASSUME IsRead(x, k)' PROVE IsRead(x, k) \/ (x = g /\ k = c + 1)
  <2>1. CASE x \in Hops' /\ k \in DOMAIN config'[x]
    BY <1>6, <2>1 DEF IsRead
  <2>2. ASSUME NEW i \in 1..(n + 1), walk'.stack[i].host = x, k \in 1..NamesRead(i)'
        PROVE  IsRead(x, k) \/ (x = g /\ k = c + 1)
    <3>1. i \in 1..(n - 1) \/ i = n \/ i = n + 1
      BY <1>2
    <3>2. CASE i \in 1..(n - 1)
      <4>1. i \in 1..n /\ walk.stack[i].host = x /\ k \in 1..NamesRead(i)
        BY <1>2, <1>4, <1>5, <2>2, <3>2
      <4> QED
        BY <1>2, <4>1 DEF IsRead
    <3>3. CASE i = n
      <4>1. x = g /\ k \in 1..(c + 1) /\ n \in 1..n
        BY <1>2, <1>4, <1>5, <2>2, <3>3
      <4>2. k \in 1..c \/ k = c + 1
        BY <1>2, <4>1
      <4>3. CASE k \in 1..c
        <5>1. IsRead(x, k)
          BY <1>1, <1>2, <4>1, <4>3 DEF IsRead
        <5> QED
          BY <5>1
      <4> QED
        BY <4>1, <4>2, <4>3
    <3>4. ~(i = n + 1)
      BY <1>4, <2>2
    <3> QED
      BY <3>1, <3>2, <3>3, <3>4
  <2> QED
    BY <1>3, <1>7, <2>1, <2>2 DEF IsRead
<1>8. ASSUME IsRead(x, k) PROVE IsRead(x, k)'
  <2>1. CASE x \in Hops /\ k \in DOMAIN config[x]
    BY <1>6, <2>1 DEF IsRead
  <2>2. ASSUME NEW i \in 1..n, walk.stack[i].host = x, k \in 1..NamesRead(i)
        PROVE  IsRead(x, k)'
    <3>1. i \in 1..(n + 1) /\ (i \in 1..(n - 1) \/ i = n)
      BY <1>2
    <3>2. walk'.stack[i].host = x
      BY <1>1, <1>5, <2>2, <3>1
    <3>3. k \in 1..NamesRead(i)'
      BY <1>1, <1>2, <1>4, <2>2, <3>1
    <3> QED
      BY <1>3, <3>1, <3>2, <3>3 DEF IsRead
  <2> QED
    BY <1>2, <1>8, <2>1, <2>2 DEF IsRead
<1>9. ASSUME x = g, k = c + 1 PROVE IsRead(x, k)'
  <2>1. n \in 1..(n + 1) /\ k \in 1..(c + 1)
    BY <1>2, <1>9
  <2> QED
    BY <1>3, <1>4, <1>5, <1>9, <2>1 DEF IsRead
<1> QED
  BY <1>1, <1>7, <1>8, <1>9

LEMMA ReadGrows ==
  ASSUME walk \in Walks, config \in Config, RouteShape, RouteRead, Top.rest # <<>>,
         NEW h, h = Head(Top.rest), ~IsRefused(h), JumpEntered(h), UNCHANGED config
  PROVE  RouteRead'
<1>1. walk.stack # <<>> /\ \A i \in DOMAIN walk.stack : VisitIsRead(i)
  BY DEF RouteShape, RouteRead
<1>2. PICK n, g, c : n = Len(walk.stack) /\ g = walk.stack[n].host /\ c = NamesRead(n)
  OBVIOUS
<1>3. n \in DOMAIN walk.stack /\ VisitIsRead(n) /\ g \in Host /\ c \in Nat
  <2>1. n \in DOMAIN walk.stack /\ g \in Host
    BY <1>1, <1>2, WalkFacts
  <2>2. VisitIsRead(n)
    BY <1>1, <2>1
  <2>3. c \in Nat
    BY <1>2, <2>2 DEF VisitIsRead
  <2> QED
    BY <2>1, <2>2, <2>3
<1>4. h = config[g][c + 1] /\ h \in Host /\ c + 1 \in 1..Len(config[g])
  BY <1>1, <1>2, <1>3, NextName
<1>5. \A x, k : IsRead(x, k)' <=> IsRead(x, k) \/ (x = g /\ k = c + 1)
  BY <1>1, <1>2, <1>3, JumpReadsPlace
<1>6. walk'.jumps = walk.jumps \cup {h} /\ h \notin walk.jumps
  BY DEF JumpEntered, IsRefused
<1>7. \A i \in DOMAIN walk'.stack : VisitIsRead(i)'
  BY <1>1, JumpKeepsVisits
<1>8. \A x \in Hops' : HopIsSettled(x)'
  <2>1. \A x : HopIsSettled(x) => HopIsSettled(x)'
    BY JumpKeepsHops
  <2>2. Hops' = Hops
    BY JumpKeepsHops
  <2> QED
    BY <2>1, <2>2 DEF RouteRead
<1>9. ReadIsTree'
  <2> SUFFICES ASSUME NEW x \in Host, NEW y \in Host, NEW k \in Nat, NEW l \in Nat
               PROVE  /\ IsRead(x, k)' => config[x][k] \in walk.jumps \cup {h}
                      /\ IsRead(x, k)' /\ IsRead(y, l)' /\ config[x][k] = config[y][l] =>
                           x = y /\ k = l
    BY <1>6 DEF ReadIsTree
  <2>1. \A z \in Host, m \in Nat : IsRead(z, m) => config[z][m] \in walk.jumps
    BY DEF RouteRead, ReadIsTree
  <2>2. IsRead(x, k) /\ IsRead(y, l) /\ config[x][k] = config[y][l] => x = y /\ k = l
    BY DEF RouteRead, ReadIsTree
  <2>3. \A z \in Host, m \in Nat :
          IsRead(z, m)' => IsRead(z, m) \/ (z = g /\ m = c + 1 /\ config[z][m] = h)
    BY <1>4, <1>5
  <2> QED
    BY <1>6, <2>1, <2>2, <2>3
<1>10. JumpsAreRead'
  <2> SUFFICES ASSUME NEW j \in walk.jumps \cup {h}
               PROVE  \E x \in Host, k \in Nat : IsRead(x, k)' /\ config[x][k] = j
    BY <1>6 DEF JumpsAreRead
  <2>1. CASE j \in walk.jumps
    BY <1>5, <2>1 DEF RouteRead, JumpsAreRead
  <2>2. CASE j = h
    <3>1. c + 1 \in Nat
      BY <1>3
    <3> QED
      BY <1>3, <1>4, <1>5, <2>2, <3>1
  <2> QED
    BY <2>1, <2>2
<1>11. walk'.jumps \subseteq Reachable'
  <2>1. Reachable' = Reachable
    BY DEF Reachable, Closed, JumpEntered
  <2>2. g \in walk.jumps \cup {walk.alias}
    BY <1>1, <1>2, <1>3, WalkFacts, PathFacts DEF RouteShape
  <2>3. g \in Reachable
    BY <2>2, AliasIsReachable DEF RouteRead
  <2>4. h \in Reachable
    BY <1>3, <1>4, <2>3, ReachableIsClosed, ListFacts
  <2> QED
    BY <1>6, <2>1, <2>4 DEF RouteRead
<1> QED
  BY <1>7, <1>8, <1>9, <1>10, <1>11 DEF RouteRead

-----------------------------------------------------------------------------
(* A hop is listed *)

\* The hops there are stay where they are, and the new one is behind them.
LEMMA ListingKeepsHops ==
  ASSUME walk \in Walks, walk.stack # <<>>, HopListed, UNCHANGED config,
         NEW g, g = walk.stack[Len(walk.stack)].host
  PROVE  /\ Hops' = Hops \cup {g}
         /\ \A x, y : Before(x, y) => Before(x, y)'
         /\ \A x \in Hops : Before(x, g)'
         /\ \A x, m : Settled(x, m) => Settled(x, m)'
         /\ \A x : HopIsSettled(x) => HopIsSettled(x)'
<1>1. PICK m : m = Len(walk.endpoints)
  OBVIOUS
<1>2. m \in Nat /\ DOMAIN walk.endpoints = 1..m
  BY <1>1, WalkFacts
<1>3. DOMAIN walk'.endpoints = 1..(m + 1)
  <2>1. walk' \in Walks /\ Len(walk'.endpoints) = m + 1
    BY <1>1 DEF HopListed
  <2> QED
    BY <2>1, StackNotEmpty
<1>4. /\ \A i \in 1..m : walk'.endpoints[i] = walk.endpoints[i]
      /\ walk'.endpoints[m + 1] = g
  BY <1>1 DEF HopListed
<1>5. Hops' = Hops \cup {g}
  BY DEF HopListed
<1>6. ASSUME NEW x, NEW y, Before(x, y) PROVE Before(x, y)'
  <2>1. PICK i, j \in 1..m : i < j /\ walk.endpoints[i] = x /\ walk.endpoints[j] = y
    BY <1>2, <1>6 DEF Before
  <2>2. i \in 1..(m + 1) /\ j \in 1..(m + 1)
    BY <1>2
  <2> QED
    BY <1>3, <1>4, <2>1, <2>2 DEF Before
<1>7. ASSUME NEW x \in Hops PROVE Before(x, g)'
  <2>1. PICK i \in 1..m : walk.endpoints[i] = x
    BY <1>2, <1>7 DEF Hops, Range
  <2>2. i \in 1..(m + 1) /\ m + 1 \in 1..(m + 1) /\ i < m + 1
    BY <1>2
  <2> QED
    BY <1>3, <1>4, <2>1, <2>2 DEF Before
<1>8. ASSUME NEW x, NEW k, Settled(x, k) PROVE Settled(x, k)'
  BY <1>5, <1>6, <1>8 DEF Settled
<1>9. ASSUME NEW x, HopIsSettled(x) PROVE HopIsSettled(x)'
  BY <1>6, <1>8, <1>9 DEF HopIsSettled
<1> QED
  BY <1>5, <1>6, <1>7, <1>8, <1>9

\* The list of the innermost visit has been read to its end.
LEMMA ListIsDone ==
  ASSUME walk \in Walks, config \in Config, walk.stack # <<>>, Top.rest = <<>>,
         NEW n, n = Len(walk.stack), VisitIsRead(n)
  PROVE  /\ NamesRead(n) = Len(config[walk.stack[n].host])
         /\ Settled(walk.stack[n].host, Len(config[walk.stack[n].host]))
<1>1. PICK g : g = walk.stack[n].host
  OBVIOUS
<1>2. g \in Host /\ walk.stack[n].rest = <<>>
  BY <1>1, WalkFacts
<1>3. Len(config[g]) \in Nat /\ Len(walk.stack[n].rest) = 0
  BY <1>2, ListFacts
<1>4. NamesRead(n) = Len(config[g])
  BY <1>1, <1>3 DEF NamesRead
<1> QED
  BY <1>1, <1>4 DEF VisitIsRead

LEMMA ListingKeepsVisits ==
  ASSUME walk \in Walks, config \in Config, walk.stack # <<>>, Top.rest = <<>>,
         \A i \in DOMAIN walk.stack : VisitIsRead(i), HopListed, UNCHANGED config
  PROVE  \A i \in DOMAIN walk'.stack : VisitIsRead(i)'
<1>1. PICK n, g : n = Len(walk.stack) /\ g = walk.stack[n].host
  OBVIOUS
<1>2. n \in Nat \ {0} /\ DOMAIN walk.stack = 1..n
  BY <1>1, WalkFacts
<1>3. Len(walk'.stack) = n - 1 /\ DOMAIN walk'.stack = 1..(n - 1)
  <2>1. walk' \in Walks /\ Len(walk'.stack) = n - 1
    BY <1>1 DEF HopListed
  <2> QED
    BY <2>1, StackNotEmpty
<1>4. \A i \in 1..(n - 1) : walk'.stack[i] = walk.stack[i]
  BY <1>1 DEF HopListed
<1>5. \A i \in 1..(n - 1) : NamesRead(i)' = NamesRead(i)
  BY <1>4 DEF NamesRead
<1>6. /\ Hops' = Hops \cup {g} /\ \A x \in Hops : Before(x, g)'
      /\ \A x, y : Before(x, y) => Before(x, y)'
      /\ \A x, m : Settled(x, m) => Settled(x, m)'
  BY <1>1, ListingKeepsHops
<1>7. ASSUME NEW i \in 1..(n - 1), i < n - 1 PROVE VisitIsRead(i)'
  <2>1. VisitIsRead(i) /\ i < n /\ i + 1 \in 1..(n - 1) /\ i # n - 1
    BY <1>2, <1>7
  <2>2. walk'.stack[i] = walk.stack[i] /\ walk'.stack[i + 1] = walk.stack[i + 1]
        /\ NamesRead(i)' = NamesRead(i)
    BY <1>4, <1>5, <2>1
  <2> QED
    BY <1>1, <1>3, <1>6, <2>1, <2>2 DEF VisitIsRead
<1>8. ASSUME NEW i \in 1..(n - 1), i = n - 1 PROVE VisitIsRead(i)'
  <2>1. PICK x, c : x = walk.stack[i].host /\ c = NamesRead(i)
    OBVIOUS
  <2>2. VisitIsRead(i) /\ i < n /\ i + 1 = n /\ ~(i < n - 1)
    BY <1>2, <1>8
  <2>3. c \in Nat \ {0} /\ config[x][c] = g /\ Settled(x, c - 1)
    BY <1>1, <2>1, <2>2 DEF VisitIsRead
  <2>4. Settled(x, c)'
    <3>1. ASSUME NEW k \in 1..c
          PROVE  config[x][k] \in Hops' /\ (k < c => Before(config[x][k], config[x][k + 1])')
      <4>1. k = c \/ k \in 1..(c - 1)
        BY <2>3
      <4>2. CASE k = c
        BY <1>6, <2>3, <4>2
      <4>3. CASE k \in 1..(c - 1)
        <5>1. config[x][k] \in Hops /\ (k < c - 1 => Before(config[x][k], config[x][k + 1]))
          BY <2>3, <4>3 DEF Settled
        <5>2. k < c - 1 \/ k + 1 = c
          BY <2>3, <4>3
        <5> QED
          BY <1>6, <2>3, <5>1, <5>2
      <4> QED
        BY <4>1, <4>2, <4>3
    <3> QED
      BY <3>1 DEF Settled
  <2>5. walk'.stack[i] = walk.stack[i] /\ NamesRead(i)' = c
    BY <1>4, <1>5, <2>1
  <2>6. \A k \in 1..Len(walk.stack[i].rest) : walk.stack[i].rest[k] = config[x][c + k]
    BY <2>1, <2>2 DEF VisitIsRead
  <2> QED
    BY <1>3, <2>1, <2>2, <2>3, <2>4, <2>5, <2>6 DEF VisitIsRead
<1>9. \A i \in 1..(n - 1) : i < n - 1 \/ i = n - 1
  BY <1>2
<1> QED
  BY <1>3, <1>7, <1>8, <1>9

\* No place is read.
LEMMA ListingReadsNothing ==
  ASSUME walk \in Walks, config \in Config, walk.stack # <<>>, Top.rest = <<>>,
         NEW n, n = Len(walk.stack), VisitIsRead(n), HopListed, UNCHANGED config,
         NEW x, NEW k
  PROVE  IsRead(x, k)' <=> IsRead(x, k)
<1>1. PICK g : g = walk.stack[n].host
  OBVIOUS
<1>2. n \in Nat \ {0} /\ DOMAIN walk.stack = 1..n /\ g \in Host
  BY <1>1, WalkFacts
<1>3. DOMAIN walk'.stack = 1..(n - 1)
  <2>1. walk' \in Walks /\ Len(walk'.stack) = n - 1
    BY DEF HopListed
  <2> QED
    BY <2>1, StackNotEmpty
<1>4. \A i \in 1..(n - 1) : walk'.stack[i] = walk.stack[i] /\ NamesRead(i)' = NamesRead(i)
  BY DEF HopListed, NamesRead
<1>5. Hops' = Hops \cup {g}
  BY <1>1 DEF HopListed
<1>6. 1..NamesRead(n) = DOMAIN config[g]
  BY <1>1, <1>2, ListIsDone, ListFacts
<1>7. ASSUME IsRead(x, k)' PROVE IsRead(x, k)
  <2>1. CASE x \in Hops' /\ k \in DOMAIN config'[x]
    <3>1. CASE x \in Hops
      BY <2>1, <3>1 DEF IsRead
    <3>2. CASE x = g
      <4>1. k \in DOMAIN config[g]
        BY <2>1, <3>2
      <4>2. k \in 1..NamesRead(n)
        BY <1>6, <4>1, Zenon
      <4>3. n \in 1..n
        BY <1>2
      <4> QED
        BY <1>1, <1>2, <3>2, <4>2, <4>3 DEF IsRead
    <3> QED
      BY <1>5, <2>1, <3>1, <3>2
  <2>2. ASSUME NEW i \in 1..(n - 1), walk'.stack[i].host = x, k \in 1..NamesRead(i)'
        PROVE  IsRead(x, k)
    <3>1. i \in 1..n /\ walk.stack[i].host = x /\ k \in 1..NamesRead(i)
      BY <1>2, <1>4, <2>2
    <3> QED
      BY <1>2, <3>1 DEF IsRead
  <2> QED
    BY <1>3, <1>7, <2>1, <2>2 DEF IsRead
<1>8. ASSUME IsRead(x, k) PROVE IsRead(x, k)'
  <2>1. CASE x \in Hops /\ k \in DOMAIN config[x]
    BY <1>5, <2>1 DEF IsRead
  <2>2. ASSUME NEW i \in 1..n, walk.stack[i].host = x, k \in 1..NamesRead(i)
        PROVE  IsRead(x, k)'
    <3>1. i \in 1..(n - 1) \/ i = n
      BY <1>2
    <3>2. CASE i \in 1..(n - 1)
      <4>1. walk'.stack[i].host = x /\ k \in 1..NamesRead(i)'
        BY <1>4, <2>2, <3>2
      <4> QED
        BY <1>3, <3>2, <4>1 DEF IsRead
    <3>3. CASE i = n
      <4>1. x \in Hops' /\ k \in DOMAIN config'[x]
        BY <1>1, <1>5, <1>6, <2>2, <3>3
      <4> QED
        BY <4>1 DEF IsRead
    <3> QED
      BY <3>1, <3>2, <3>3
  <2> QED
    BY <1>2, <1>8, <2>1, <2>2 DEF IsRead
<1> QED
  BY <1>7, <1>8

LEMMA ReadStays ==
  ASSUME walk \in Walks, config \in Config, RouteShape, RouteRead, Top.rest = <<>>,
         HopListed, UNCHANGED config
  PROVE  RouteRead'
<1>1. walk.stack # <<>> /\ \A i \in DOMAIN walk.stack : VisitIsRead(i)
  BY DEF RouteShape, RouteRead
<1>2. PICK n, g : n = Len(walk.stack) /\ g = walk.stack[n].host
  OBVIOUS
<1>3. n \in DOMAIN walk.stack /\ VisitIsRead(n) /\ g \in Host
  BY <1>1, <1>2, WalkFacts
<1>4. \A x, k : IsRead(x, k)' <=> IsRead(x, k)
  BY <1>1, <1>2, <1>3, ListingReadsNothing
<1>5. walk'.jumps = walk.jumps
  BY DEF HopListed
<1>6. \A i \in DOMAIN walk'.stack : VisitIsRead(i)'
  BY <1>1, ListingKeepsVisits
<1>7. \A x \in Hops' : HopIsSettled(x)'
  <2>1. /\ Hops' = Hops \cup {g} /\ \A x : HopIsSettled(x) => HopIsSettled(x)'
        /\ \A x, m : Settled(x, m) => Settled(x, m)'
        /\ \A x \in Hops : Before(x, g)'
    BY <1>1, <1>2, ListingKeepsHops
  <2>2. Settled(g, Len(config[g]))
    BY <1>1, <1>2, <1>3, ListIsDone
  <2>3. config[g] # <<>> => Last(config[g]) \in Hops
    BY <1>3, <2>2, ListFacts DEF Settled, Last
  <2>4. HopIsSettled(g)'
    BY <2>1, <2>2, <2>3 DEF HopIsSettled
  <2> QED
    BY <2>1, <2>4 DEF RouteRead
<1>8. ReadIsTree' /\ JumpsAreRead'
  BY <1>4, <1>5 DEF RouteRead, ReadIsTree, JumpsAreRead
<1>9. walk'.jumps \subseteq Reachable'
  BY <1>5 DEF RouteRead, Reachable, Closed, HopListed
<1> QED
  BY <1>6, <1>7, <1>8, <1>9 DEF RouteRead

-----------------------------------------------------------------------------
(* What a route that is done, or refused, says of the lists *)

LEMMA PositionsFollowOrder ==
  ASSUME walk \in Walks, IsInjective(walk.endpoints), NEW x, NEW y, Before(x, y)
  PROVE  Position(x) < Position(y)
<1>1. PICK m, n \in DOMAIN walk.endpoints :
        m < n /\ walk.endpoints[m] = x /\ walk.endpoints[n] = y
  BY DEF Before
<1>2. \A i \in DOMAIN walk.endpoints : walk.endpoints[i] = x => i = m
  BY <1>1 DEF IsInjective
<1>3. \A i \in DOMAIN walk.endpoints : walk.endpoints[i] = y => i = n
  BY <1>1 DEF IsInjective
<1>4. Position(x) = m
  BY <1>1, <1>2 DEF Position
<1>5. Position(y) = n
  BY <1>1, <1>3 DEF Position
<1> QED
  BY <1>1, <1>4, <1>5

LEMMA PlaceFacts ==
  ASSUME NEW h \in Reachable, NEW k \in DOMAIN config[h]
  PROVE  <<h, k>> \in Places /\ Named(<<h, k>>) = config[h][k]
BY DEF Places, Named

LEMMA PlacesAre ==
  ASSUME NEW p \in Places
  PROVE  \E h \in Reachable : \E k \in DOMAIN config[h] : p = <<h, k>>
BY DEF Places

LEMMA DoneIsRight ==
  ASSUME walk \in Walks, config \in Config, RouteDone, RouteRead
  PROVE  Fits /\ Range(walk.endpoints) = Reachable /\ InsideOut
<1>1. walk.alias \in Host /\ Hops \subseteq Host /\ Reachable \subseteq Host
  BY HopAssumption, AliasIsReachable DEF Walks, Hops, Range
<1>2. \A h \in Hops, k \in Nat : k \in DOMAIN config[h] => IsRead(h, k)
  BY DEF IsRead
<1>3. Hops = Reachable
  <2>1. Hops \subseteq Reachable
    BY AliasIsReachable DEF RouteDone, RouteRead
  <2>2. Closed(Hops)
    <3>1. ASSUME NEW h \in Hops, NEW k \in DOMAIN config[h] PROVE config[h][k] \in Hops
      <4>1. Settled(h, Len(config[h])) /\ k \in 1..Len(config[h])
        BY <1>1, ListFacts DEF RouteRead, HopIsSettled
      <4> QED
        BY <4>1 DEF Settled
    <3> QED
      BY <3>1 DEF Closed, Range
  <2>3. walk.alias \in Hops
    BY DEF RouteDone
  <2>4. Reachable \subseteq Hops
    BY <1>1, <2>2, <2>3 DEF Reachable
  <2> QED
    BY <2>1, <2>4
<1>4. \A h \in Reachable : \A k \in DOMAIN config[h] : k \in Nat /\ IsRead(h, k) /\ h \in Host
  BY <1>1, <1>2, <1>3, ListFacts
<1>5. IsTree
  <2>1. ASSUME NEW p \in Places PROVE Named(p) # walk.alias
    <3>1. PICK h, k : h \in Reachable /\ k \in DOMAIN config[h] /\ p = <<h, k>>
      BY <2>1, PlacesAre
    <3>2. config[h][k] \in walk.jumps
      BY <1>4, <3>1 DEF RouteRead, ReadIsTree
    <3> QED
      BY <3>1, <3>2, PlaceFacts DEF RouteDone
  <2>2. ASSUME NEW p \in Places, NEW q \in Places, Named(p) = Named(q) PROVE p = q
    <3>1. PICK g, k : g \in Reachable /\ k \in DOMAIN config[g] /\ p = <<g, k>>
      BY <2>2, PlacesAre
    <3>2. PICK h, l : h \in Reachable /\ l \in DOMAIN config[h] /\ q = <<h, l>>
      BY <2>2, PlacesAre
    <3>3. config[g][k] = config[h][l]
      BY <2>2, <3>1, <3>2, PlaceFacts
    <3>4. g = h /\ k = l
      BY <1>4, <3>1, <3>2, <3>3 DEF RouteRead, ReadIsTree
    <3> QED
      BY <3>1, <3>2, <3>4
  <2> QED
    BY <2>1, <2>2 DEF IsTree
<1>6. Cardinality(Reachable) <= MaxHops + 1
  <2>1. Cardinality(Reachable) = Cardinality(walk.jumps) + 1
    BY <1>3, FS_AddElement DEF RouteDone
  <2>2. Cardinality(walk.jumps) \in Nat /\ Cardinality(walk.jumps) <= MaxHops
    BY FS_CardinalityType DEF RouteDone
  <2> QED
    BY <2>1, <2>2, HopAssumption
<1>7. InsideOut
  <2>1. ASSUME NEW h \in Reachable, NEW i \in DOMAIN config[h]
        PROVE  Before(config[h][i], IF i = Len(config[h]) THEN h ELSE config[h][i + 1])
    <3>1. /\ HopIsSettled(h) /\ Len(config[h]) \in Nat /\ i \in 1..Len(config[h])
          /\ config[h] # <<>>
      BY <1>1, <1>3, ListFacts DEF RouteRead
    <3>2. CASE i = Len(config[h])
      BY <3>1, <3>2 DEF HopIsSettled, Last
    <3>3. CASE i # Len(config[h])
      <4>1. i < Len(config[h])
        BY <3>1, <3>3
      <4> QED
        BY <3>1, <3>3, <4>1 DEF HopIsSettled, Settled
    <3> QED
      BY <3>2, <3>3
  <2> QED
    BY <2>1, PositionsFollowOrder DEF InsideOut, RouteDone
<1> QED
  BY <1>3, <1>5, <1>6, <1>7 DEF Fits, Hops

\* A place that is read is a place in the lists.
LEMMA ReadPlacesAre ==
  ASSUME walk \in Walks, config \in Config, RouteShape, RouteRead, NEW x, NEW k, IsRead(x, k)
  PROVE  x \in Reachable /\ k \in DOMAIN config[x]
<1>1. walk.stack # <<>> /\ Path \cup Hops = walk.jumps \cup {walk.alias}
  BY DEF RouteShape
<1>2. Path \cup Hops \subseteq Reachable
  BY <1>1, AliasIsReachable DEF RouteRead
<1>3. CASE x \in Hops /\ k \in DOMAIN config[x]
  BY <1>2, <1>3
<1>4. ASSUME NEW i \in DOMAIN walk.stack, walk.stack[i].host = x, k \in 1..NamesRead(i)
      PROVE  x \in Reachable /\ k \in DOMAIN config[x]
  <2>1. x \in Path /\ x \in Host
    BY <1>1, <1>4, WalkFacts, PathFacts
  <2>2. NamesRead(i) = Len(config[x]) - Len(walk.stack[i].rest) /\ NamesRead(i) \in Nat
    BY <1>4 DEF NamesRead, RouteRead, VisitIsRead
  <2>3. Len(walk.stack[i].rest) \in Nat /\ Len(config[x]) \in Nat
        /\ DOMAIN config[x] = 1..Len(config[x])
    BY <1>1, <1>4, <2>1, WalkFacts, ListFacts
  <2>4. \A a, b, c \in Nat : c = a - b /\ k \in 1..c => k \in 1..a
    OBVIOUS
  <2>5. k \in 1..Len(config[x])
    BY <1>4, <2>2, <2>3, <2>4
  <2> QED
    BY <1>2, <2>1, <2>3, <2>5
<1> QED
  BY <1>3, <1>4 DEF IsRead

LEMMA RefusedIsRight ==
  ASSUME walk \in Walks, config \in Config, RouteShape, RouteRead, Top.rest # <<>>,
         IsRefused(Head(Top.rest)), Fits
  PROVE  FALSE
<1>1. walk.stack # <<>> /\ Path \cup Hops = walk.jumps \cup {walk.alias}
  BY DEF RouteShape
<1>2. PICK n, g, c, h : /\ n = Len(walk.stack) /\ g = walk.stack[n].host /\ c = NamesRead(n)
                        /\ h = Head(Top.rest)
  OBVIOUS
<1>3. n \in DOMAIN walk.stack /\ VisitIsRead(n) /\ g \in Path /\ g \in Host /\ c \in Nat
  <2>1. n \in DOMAIN walk.stack /\ g \in Path /\ g \in Host
    BY <1>1, <1>2, WalkFacts, PathFacts
  <2>2. VisitIsRead(n)
    BY <2>1 DEF RouteRead
  <2> QED
    BY <1>2, <2>1, <2>2 DEF VisitIsRead
<1>4. h = config[g][c + 1] /\ c + 1 \in DOMAIN config[g] /\ g \in Reachable
  <2>1. h = config[g][c + 1] /\ c + 1 \in 1..Len(config[g])
    BY <1>1, <1>2, <1>3, NextName
  <2> QED
    BY <1>1, <1>3, <2>1, AliasIsReachable, ListFacts DEF RouteRead
<1>5. h \in Reachable /\ h # walk.alias /\ <<g, c + 1>> \in Places /\ Named(<<g, c + 1>>) = h
  <2>1. PICK k : k = c + 1
    OBVIOUS
  <2>2. h \in Reachable /\ <<g, k>> \in Places /\ Named(<<g, k>>) = h
    BY <1>4, <2>1, ReachableIsClosed, PlaceFacts
  <2> QED
    BY <2>1, <2>2 DEF Fits, IsTree
<1>6. h \notin walk.jumps
  <2> SUFFICES ASSUME h \in walk.jumps PROVE FALSE
    OBVIOUS
  <2>1. PICK x \in Host, k \in Nat : IsRead(x, k) /\ config[x][k] = h
    BY DEF RouteRead, JumpsAreRead
  <2>2. <<x, k>> \in Places /\ Named(<<x, k>>) = h
    BY <2>1, ReadPlacesAre, PlaceFacts
  <2>3. x = g /\ k = c + 1
    BY <1>5, <2>2 DEF Fits, IsTree
  <2>4. g \notin Hops
    BY <1>3 DEF RouteShape
  <2>5. PICK i \in DOMAIN walk.stack : walk.stack[i].host = g /\ c + 1 \in 1..NamesRead(i)
    BY <2>1, <2>3, <2>4 DEF IsRead
  <2>6. i = n
    BY <1>2, <1>3, <2>5 DEF RouteShape
  <2> QED
    BY <1>2, <1>3, <2>5, <2>6
<1>7. ~(h \in Path) /\ Cardinality(walk.jumps) >= MaxHops
  BY <1>1, <1>2, <1>5, <1>6 DEF IsRefused
<1> DEFINE S == (walk.jumps \cup {walk.alias}) \cup {h}
<1>8. /\ IsFiniteSet(walk.jumps) /\ walk.alias \notin walk.jumps
      /\ Cardinality(walk.jumps) \in Nat
  BY FS_CardinalityType DEF RouteShape
<1>9. Cardinality(S) = Cardinality(walk.jumps) + 2 /\ S \subseteq Reachable
  <2>1. /\ IsFiniteSet(walk.jumps \cup {walk.alias})
        /\ Cardinality(walk.jumps \cup {walk.alias}) = Cardinality(walk.jumps) + 1
    BY <1>8, FS_AddElement
  <2>2. h \notin walk.jumps \cup {walk.alias}
    BY <1>5, <1>6
  <2>3. Cardinality(S) = Cardinality(walk.jumps \cup {walk.alias}) + 1
    BY <2>1, <2>2, FS_AddElement
  <2>4. S \subseteq Reachable
    BY <1>5, AliasIsReachable DEF RouteRead
  <2> QED
    BY <1>8, <2>1, <2>3, <2>4
<1>10. Cardinality(S) <= Cardinality(Reachable) /\ Cardinality(Reachable) \in Nat
  <2>1. IsFiniteSet(Reachable)
    BY AliasIsReachable, HopAssumption, FS_Subset
  <2> QED
    BY <1>9, <2>1, FS_Subset, FS_CardinalityType
<1>11. Cardinality(Reachable) <= MaxHops + 1
  BY DEF Fits
<1> QED
  BY <1>7, <1>8, <1>9, <1>10, <1>11, HopAssumption

LEMMA RouteInvIsSafe ==
  ASSUME RouteInv PROVE RouteIsSafe
<1>1. CASE WalkAt("done")
  <2>1. walk \in Walks /\ config \in Config /\ RouteDone /\ (~walk.changed => RouteRead)
    BY <1>1, WalkTypes DEF RouteInv, WalkAt
  <2>2. ~walk.changed => Fits /\ Range(walk.endpoints) = Reachable /\ InsideOut
    BY <2>1, DoneIsRight
  <2>3. ~WalkAt("refused")
    BY <1>1 DEF WalkAt
  <2> QED
    BY <2>1, <2>2, <2>3 DEF RouteIsSafe, RouteDone
<1>2. CASE WalkAt("refused")
  <2>1. /\ walk \in Walks /\ config \in Config /\ RouteShape /\ (~walk.changed => RouteRead)
        /\ Top.rest # <<>> /\ IsRefused(Head(Top.rest))
    BY <1>2, WalkTypes DEF RouteInv, WalkAt
  <2>2. ~walk.changed => ~Fits
    BY <2>1, RefusedIsRight
  <2>3. ~WalkAt("done")
    BY <1>2 DEF WalkAt
  <2> QED
    BY <2>2, <2>3 DEF RouteIsSafe
<1> QED
  BY <1>1, <1>2 DEF RouteIsSafe

-----------------------------------------------------------------------------
(* Every step *)

\* Nothing that RouteInv speaks of changes, but which process runs.
LEMMA RouteKept ==
  ASSUME RouteInv, UNCHANGED <<config, walk>>, WalkAt("idle") \/ (Running => Running')
  PROVE  RouteInv'
<1>1. Reachable' = Reachable
  BY DEF Reachable, Closed
<1>2. Hops' = Hops /\ Path' = Path
  BY DEF Hops, Path
<1>3. \A x, y : Before(x, y)' <=> Before(x, y)
  BY DEF Before
<1>4. \A x, m : Settled(x, m)' <=> Settled(x, m)
  BY <1>2, <1>3 DEF Settled
<1>5. \A i : VisitIsRead(i)' <=> VisitIsRead(i)
  BY <1>4 DEF VisitIsRead, NamesRead
<1>6. \A x : HopIsSettled(x)' <=> HopIsSettled(x)
  BY <1>3, <1>4 DEF HopIsSettled
<1>7. \A x, k : IsRead(x, k)' <=> IsRead(x, k)
  BY <1>2 DEF IsRead, NamesRead
<1>8. RouteRead' <=> RouteRead
  BY <1>1, <1>2, <1>5, <1>6, <1>7 DEF RouteRead, ReadIsTree, JumpsAreRead
<1>9. (RouteShape' <=> RouteShape) /\ (RouteDone' <=> RouteDone)
  BY <1>2 DEF RouteShape, RouteDone
<1>10. /\ WalkTypeOK' <=> WalkTypeOK
       /\ \A pc : WalkAt(pc)' <=> WalkAt(pc)
       /\ Top' = Top /\ \A h : IsRefused(h)' <=> IsRefused(h)
  BY <1>2 DEF WalkTypeOK, WalkAt, Top, IsRefused
<1> QED
  BY <1>8, <1>9, <1>10 DEF RouteInv

LEMMA NoRoute ==
  ASSUME walk' = NoWalk
  PROVE  RouteInv'
BY DEF RouteInv, WalkTypeOK, WalkAt, NoWalk

LEMMA ResolvesKeeps ==
  ASSUME FilesInv, Running, Resolves, UNCHANGED <<config, lifeVars>>
  PROVE  RouteInv'
<1>1. PICK alias \in Alias : walk' = WalkOf(alias, Visit(alias))
  BY DEF Resolves
<1>2. config \in Config /\ alias \in Host
  BY HopAssumption DEF FilesInv, ConfigTypeOK, Resolves
<1>3. config[alias] \in Seq(Host) /\ Len(config[alias]) \in Nat
  BY <1>2, ListFacts
<1>4. PICK v : v = [host |-> alias, rest |-> config[alias]]
  OBVIOUS
<1>5. v \in Visits /\ v.host = alias /\ v.rest = config[alias]
  BY <1>2, <1>3, <1>4 DEF Visits
<1>6. <<v>> \in Seq(Visits) /\ Len(<<v>>) = 1 /\ <<v>>[1] = v /\ <<v>> # <<>>
  BY <1>5
<1>7. /\ walk' = [pc |-> "visit", alias |-> alias, stack |-> <<v>>, jumps |-> {},
                  endpoints |-> <<>>, changed |-> FALSE]
  BY <1>1, <1>4 DEF WalkOf, Visit
<1>8. /\ walk'.pc = "visit" /\ walk'.alias = alias /\ walk'.stack = <<v>>
      /\ walk'.jumps = {} /\ walk'.endpoints = <<>>
  BY <1>7
<1>9. walk' \in Walks
  <2>1. <<>> \in Seq(Host) /\ {} \in SUBSET Host
    OBVIOUS
  <2> QED
    BY <1>6, <1>7, <2>1 DEF Walks
<1>10. /\ DOMAIN walk'.stack = 1..1 /\ DOMAIN walk'.endpoints = {} /\ Len(walk'.endpoints) = 0
       /\ walk'.stack[1] = v /\ Len(walk'.stack) = 1
  BY <1>6, <1>8
<1>11. Hops' = {} /\ Path' = {alias}
  <2>1. Hops' = {}
    BY <1>10 DEF Hops, Range
  <2>2. Path' = {walk'.stack[i].host : i \in {1}}
    BY <1>10 DEF Path
  <2> QED
    BY <1>5, <1>10, <2>1, <2>2
<1>12. RouteShape'
  <2>1. \A i, j \in 1..1 : i = j
    OBVIOUS
  <2>2. IsInjective(walk'.endpoints)
    BY <1>10 DEF IsInjective
  <2>3. IsFiniteSet({}) /\ Cardinality({}) = 0 /\ 0 + 1 = 0 + 1 /\ 0 <= MaxHops
    BY FS_EmptySet, HopAssumption
  <2> QED
    BY <1>5, <1>6, <1>8, <1>10, <1>11, <2>1, <2>2, <2>3 DEF RouteShape
<1>13. RouteRead'
  <2>1. config' = config
    OBVIOUS
  <2>2. NamesRead(1)' = 0
    <3>1. NamesRead(1)' = Len(config[alias]) - Len(config[alias])
      BY <1>5, <1>10, <2>1 DEF NamesRead
    <3> QED
      BY <1>3, <3>1
  <2>3. \A x : Settled(x, 0)'
    BY DEF Settled
  <2>4. VisitIsRead(1)'
    <3>1. \A k \in 1..Len(config[alias]) : 0 + k = k
      BY <1>3
    <3> QED
      BY <1>5, <1>10, <2>1, <2>2, <2>3, <3>1 DEF VisitIsRead
  <2>5. \A i \in DOMAIN walk'.stack : VisitIsRead(i)'
    BY <1>10, <2>4
  <2>6. \A x, k : ~IsRead(x, k)'
    <3>1. \A i \in 1..1 : 1..NamesRead(i)' = {}
      BY <2>2
    <3> QED
      BY <1>10, <1>11, <3>1 DEF IsRead
  <2> QED
    BY <1>8, <1>11, <2>5, <2>6 DEF RouteRead, ReadIsTree, JumpsAreRead
<1>14. Running' /\ config' \in Config
  BY <1>2 DEF Running, lifeVars
<1>15. WalkTypeOK'
  BY <1>9 DEF WalkTypeOK, Walks, Visits
<1> QED
  BY <1>8, <1>12, <1>13, <1>14, <1>15 DEF RouteInv, WalkAt

LEMMA VisitsJumpKeeps ==
  ASSUME RouteInv, Running, VisitsJump, UNCHANGED <<config, lifeVars>>
  PROVE  RouteInv'
<1>1. walk.pc = "visit" /\ walk \in Walks /\ config \in Config /\ RouteShape /\ walk.stack # <<>>
      /\ Top.rest # <<>> /\ (~walk.changed => RouteRead)
  BY WalkTypes DEF VisitsJump, WalkAt, RouteInv, RouteShape
<1>2. PICK h : h = Head(Top.rest)
  OBVIOUS
<1>3. Running' /\ config' \in Config
  BY <1>1 DEF Running, lifeVars
<1>4. CASE IsRefused(h)
  <2>1. walk' = [walk EXCEPT !.pc = "refused"]
    BY <1>2, <1>4 DEF VisitsJump
  <2>2. /\ walk' \in Walks /\ walk'.pc = "refused" /\ walk'.alias = walk.alias
        /\ walk'.stack = walk.stack /\ walk'.jumps = walk.jumps
        /\ walk'.endpoints = walk.endpoints /\ walk'.changed = walk.changed
    BY <1>1, <2>1 DEF Walks
  <2>3. Hops' = Hops /\ Path' = Path /\ Top' = Top /\ Reachable' = Reachable
    BY <2>2 DEF Hops, Path, Top, Reachable, Closed
  <2>4. RouteShape' <=> RouteShape
    BY <2>2, <2>3 DEF RouteShape
  <2>5. RouteRead' <=> RouteRead
    <3>1. \A x, y : Before(x, y)' <=> Before(x, y)
      BY <2>2 DEF Before
    <3>2. \A x, m : Settled(x, m)' <=> Settled(x, m)
      BY <2>3, <3>1 DEF Settled
    <3>3. \A i : VisitIsRead(i)' <=> VisitIsRead(i)
      BY <2>2, <3>2 DEF VisitIsRead, NamesRead
    <3>4. \A x : HopIsSettled(x)' <=> HopIsSettled(x)
      BY <3>1, <3>2 DEF HopIsSettled
    <3>5. \A x, k : IsRead(x, k)' <=> IsRead(x, k)
      BY <2>2, <2>3 DEF IsRead, NamesRead
    <3> QED
      BY <2>2, <2>3, <3>3, <3>4, <3>5 DEF RouteRead, ReadIsTree, JumpsAreRead
  <2>6. IsRefused(h)' <=> IsRefused(h)
    BY <2>2, <2>3 DEF IsRefused
  <2>7. WalkTypeOK'
    BY <2>2 DEF WalkTypeOK, Walks, Visits
  <2>8. Top'.rest # <<>> /\ IsRefused(Head(Top.rest))'
    BY <1>1, <1>2, <1>4, <2>3, <2>6
  <2> QED
    BY <1>1, <1>3, <2>2, <2>4, <2>5, <2>7, <2>8 DEF RouteInv, WalkAt
<1>5. CASE ~IsRefused(h)
  <2>1. JumpEntered(h)
    BY <1>1, <1>2, <1>5, VisitsEntersJump
  <2>2. h \in Host
    <3>1. Top.rest \in Seq(Host)
      BY <1>1, WalkFacts
    <3> QED
      BY <1>1, <1>2, <3>1
  <2>3. RouteShape'
    BY <1>1, <1>5, <2>1, <2>2, ShapeGrows
  <2>4. walk.changed = walk'.changed /\ walk'.pc = "visit" /\ walk' \in Walks
    BY <2>1 DEF JumpEntered
  <2>5. ~walk'.changed => RouteRead'
    BY <1>1, <1>2, <1>5, <2>1, <2>4, ReadGrows
  <2>6. WalkTypeOK'
    BY <2>4 DEF WalkTypeOK, Walks, Visits
  <2> QED
    BY <1>3, <2>3, <2>4, <2>5, <2>6 DEF RouteInv, WalkAt
<1> QED
  BY <1>4, <1>5

LEMMA ListsHopKeeps ==
  ASSUME RouteInv, Running, ListsHop, UNCHANGED <<config, lifeVars>>
  PROVE  RouteInv'
<1>1. walk \in Walks /\ config \in Config /\ RouteShape /\ walk.stack # <<>>
      /\ Top.rest = <<>> /\ (~walk.changed => RouteRead)
  BY WalkTypes DEF ListsHop, WalkAt, RouteInv, RouteShape
<1>2. PICK n : n = Len(walk.stack)
  OBVIOUS
<1>3. Running' /\ config' \in Config
  BY <1>1 DEF Running, lifeVars
<1>4. HopListed
  BY <1>1, ListsListsHop
<1>5. /\ walk' \in Walks /\ walk'.changed = walk.changed /\ walk'.alias = walk.alias
      /\ walk'.pc = (IF n = 1 THEN "done" ELSE "visit") /\ walk'.jumps = walk.jumps
      /\ Len(walk'.stack) = n - 1
  BY <1>2, <1>4 DEF HopListed
<1>6. ~walk'.changed => RouteRead'
  BY <1>1, <1>4, <1>5, ReadStays
<1>7. WalkTypeOK'
  BY <1>5 DEF WalkTypeOK, Walks, Visits
<1>8. n \in Nat \ {0}
  BY <1>1, <1>2, WalkFacts
<1>9. CASE n = 1
  <2>1. walk'.stack = <<>>
    BY <1>5, <1>9, StackNotEmpty
  <2>2. /\ IsInjective(walk'.endpoints) /\ Last(walk'.endpoints) = walk'.alias
        /\ Len(walk'.endpoints) <= MaxHops + 1 /\ Hops' = walk'.jumps \cup {walk'.alias}
    BY <1>1, <1>2, <1>4, <1>5, <1>9, ShapeShrinks
  <2>3. RouteDone'
    BY <1>1, <1>5, <2>1, <2>2 DEF RouteDone, RouteShape
  <2> QED
    BY <1>3, <1>5, <1>6, <1>7, <1>9, <2>3 DEF RouteInv, WalkAt
<1>10. CASE n > 1
  <2>1. RouteShape'
    BY <1>1, <1>2, <1>4, <1>10, ShapeShrinks
  <2>2. walk'.pc = "visit"
    BY <1>5, <1>10
  <2> QED
    BY <1>3, <1>6, <1>7, <2>1, <2>2 DEF RouteInv, WalkAt
<1> QED
  BY <1>8, <1>9, <1>10

\* A save marks the walk it falls into.
LEMMA SaveKeeps ==
  ASSUME RouteInv, SeesChange, config' \in Config, UNCHANGED lifeVars
  PROVE  RouteInv'
<1>1. CASE WalkAt("idle")
  <2>1. walk' = NoWalk
    BY <1>1 DEF SeesChange, RouteInv, WalkTypeOK, WalkAt
  <2> QED
    BY <2>1, NoRoute
<1>2. CASE ~WalkAt("idle")
  <2>1. walk \in Walks /\ Running
    BY <1>2, WalkTypes DEF RouteInv
  <2>2. walk' = [walk EXCEPT !.changed = TRUE]
    BY <1>2 DEF SeesChange
  <2>3. /\ walk' \in Walks /\ walk'.changed /\ walk'.pc = walk.pc /\ walk'.alias = walk.alias
        /\ walk'.stack = walk.stack /\ walk'.jumps = walk.jumps
        /\ walk'.endpoints = walk.endpoints
    BY <2>1, <2>2 DEF Walks
  <2>4. Hops' = Hops /\ Path' = Path /\ Top' = Top
    BY <2>3 DEF Hops, Path, Top
  <2>5. (RouteShape' <=> RouteShape) /\ (RouteDone' <=> RouteDone)
    BY <2>3, <2>4 DEF RouteShape, RouteDone
  <2>6. \A h : IsRefused(h)' <=> IsRefused(h)
    BY <2>3, <2>4 DEF IsRefused
  <2>7. WalkTypeOK'
    BY <2>3 DEF WalkTypeOK, Walks, Visits
  <2>8. Running'
    BY <2>1 DEF Running, lifeVars
  <2> QED
    BY <2>3, <2>4, <2>5, <2>6, <2>7, <2>8 DEF RouteInv, WalkAt
<1> QED
  BY <1>1, <1>2

LEMMA ProcessStepKeepsRoute ==
  ASSUME FilesInv, RouteInv, NEW p \in Process, ProcessStep(p)
  PROVE  RouteInv'
<1>1. CASE Starts(p) \/ LoadsOrAborts(p) \/ Proceeds(p)
  <2>1. phase'[p] # "down"
    BY <1>1 DEF FilesInv, LifespanTypeOK, Starts, LoadsOrAborts, Proceeds, Acquires, OpensDatabase,
                StartupFails, Serves, ClosesDatabase, Moves
  <2>2. UNCHANGED <<config, walk>>
    BY <1>1 DEF Starts, LoadsOrAborts, LoadsCatalog, Proceeds, configVars
  <2> QED
    BY <2>1, <2>2, RouteKept DEF Running
<1>2. CASE ShutsDown(p) \/ Exits(p) \/ Crashes(p)
  BY <1>2, NoRoute DEF ShutsDown, Exits, Crashes, MemoryIsLost
<1> QED
  BY <1>1, <1>2 DEF ProcessStep

LEMMA StepKeepsRoute ==
  ASSUME FilesInv, RouteInv, [Next]_vars
  PROVE  RouteInv'
<1>1. ASSUME NEW p \in Process, ProcessStep(p) PROVE RouteInv'
  BY <1>1, ProcessStepKeepsRoute
<1>2. ASSUME NEW c \in Request, KeyRequest(c) PROVE RouteInv'
  BY <1>2, RouteKept DEF KeyRequest, lifeVars, configVars, Running
<1>3. ASSUME NEW e \in Editor, ConfigRequest(e) PROVE RouteInv'
  <2>1. CASE ReadsConfig(e) /\ UNCHANGED walk
    BY <1>3, <2>1, RouteKept DEF ConfigRequest, ReadsConfig, lifeVars, Running
  <2>2. ASSUME NEW text \in Config, Saves(e, text) \/ SaveFailsLate(e, text), SeesChange
        PROVE  RouteInv'
    BY <1>3, <2>2, SaveKeeps DEF ConfigRequest, Saves, SaveFailsLate
  <2> QED
    BY <1>3, <2>1, <2>2 DEF ConfigRequest
<1>4. CASE Connects
  <2>1. Running /\ UNCHANGED <<config, lifeVars>>
    BY <1>4 DEF Connects, Connecting, Running, configVars
  <2>2. CASE WalkEnds \/ WalkDropped
    BY <2>2, NoRoute DEF WalkEnds, WalkDropped
  <2> QED
    BY <1>4, <2>1, <2>2, ResolvesKeeps, VisitsJumpKeeps, ListsHopKeeps DEF Connects, WalkStep
<1>5. CASE Provisioned
  <2>1. walk = NoWalk
    BY <1>5, WalkTypes DEF Provisioned, RouteInv, WalkAt, WalkTypeOK, NoWalk
  <2> QED
    BY <1>5, <2>1, NoRoute DEF Provisioned
<1>6. CASE UNCHANGED vars
  BY <1>6, RouteKept DEF vars, lifeVars, configVars, Running
<1> QED
  BY <1>1, <1>2, <1>3, <1>4, <1>5, <1>6 DEF Next

\* The inductive invariant of a walk.
THEOREM RouteInvariant == Spec => []RouteInv
<1>1. Init => RouteInv
  BY DEF Init, RouteInv, WalkTypeOK, WalkAt, NoWalk
<1>2. FilesInv /\ RouteInv /\ [Next]_vars => RouteInv'
  BY StepKeepsRoute
<1> QED
  BY <1>1, <1>2, FilesInvariant, PTL DEF Spec

\* _resolve_route, for every set of lists: no save, however it falls into a walk,
\* makes a route that comes to a host twice or is too long, and a walk that no
\* save fell into accepts exactly the trees of at most MaxHops jumps and lists
\* them inside out.
THEOREM RoutesAreSafe == Spec => []RouteIsSafe
<1>1. RouteInv => RouteIsSafe
  BY RouteInvIsSafe
<1> QED
  BY <1>1, RouteInvariant, PTL

\* The variables of processes, keys, config and walks keep their types.
THEOREM FilesTypes == Spec => []TypeOK
<1>1. FilesInv /\ RouteInv => TypeOK
  BY DEF FilesInv, KeysInv, RouteInv, TypeOK
<1> QED
  BY <1>1, FilesInvariant, RouteInvariant, PTL
=============================================================================
