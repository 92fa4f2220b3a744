----------------------------- MODULE GatewayFiles -----------------------------
(***************************************************************************)
(* The files of the state directory and the processes that write them:     *)
(* the lifespan of Lifespan, the key slot of SshKeys, and the config of    *)
(* SshConfig with the route resolution of ProxyRoute, which reads it.      *)
(***************************************************************************)
EXTENDS Lifespan, SshKeys, ProxyRoute

vars == <<lifeVars, keyVars, configVars, walk>>

Serving == \E p \in Process : phase[p] = "serving"
Connecting == \E p \in Process : phase[p] \in {"recovery", "serving"}
Running == \E p \in Process : phase[p] # "down"

\* What a process that ends leaves behind: files and rows.
MemoryIsLost ==
  /\ op' = [c \in Request |-> Idle] /\ snapshot' = NoConfig /\ unpublished' = FALSE
  /\ walk' = NoWalk

-----------------------------------------------------------------------------
(* The process *)
Starts(p) ==
  /\ Acquires(p) \/ OpensDatabase(p)
  /\ UNCHANGED <<keyVars, configVars, walk>>

\* catalog.refresh, and the RuntimeError of a config that is not valid, for
\* which lifespan has its services already.
LoadsOrAborts(p) ==
  /\ Moves(p, "database", IF config = NoConfig THEN "stopping" ELSE "recovery")
  /\ LoadsCatalog
  /\ UNCHANGED <<holder, keyVars, walk>>

Proceeds(p) ==
  /\ StartupFails(p) \/ Serves(p) \/ ClosesDatabase(p)
  /\ UNCHANGED <<keyVars, configVars, walk>>

\* Uvicorn lets the requests end; the background tasks are cancelled.
ShutsDown(p) ==
  /\ LockIsFree /\ Stops(p) /\ walk' = NoWalk
  /\ UNCHANGED <<keyVars, configVars>>

Exits(p) ==
  /\ Releases(p) /\ MemoryIsLost
  /\ UNCHANGED <<slotVars, config, seen>>

Crashes(p) ==
  /\ Dies(p) /\ MemoryIsLost
  /\ UNCHANGED <<slotVars, config, seen>>

ProcessStep(p) ==
  Starts(p) \/ LoadsOrAborts(p) \/ Proceeds(p) \/ ShutsDown(p) \/ Exits(p) \/ Crashes(p)

-----------------------------------------------------------------------------
(* Requests, which only a serving process has, and connections *)
KeyRequest(c) ==
  /\ Serving /\ (Enters(c) \/ KeyStep(c))
  /\ UNCHANGED <<lifeVars, configVars, walk>>

ConfigRequest(e) ==
  /\ Serving
  /\ \/ ReadsConfig(e) /\ UNCHANGED walk
     \/ \E text \in Config : (Saves(e, text) \/ SaveFailsLate(e, text)) /\ SeesChange
  /\ UNCHANGED <<lifeVars, keyVars>>

Connects ==
  /\ Connecting /\ WalkStep
  /\ UNCHANGED <<lifeVars, keyVars, configVars>>

Provisioned ==
  /\ ~Running /\ Provisions
  /\ UNCHANGED <<lifeVars, keyVars, walk>>

Init == LifespanInit /\ KeysInit /\ ConfigInit /\ walk = NoWalk

Next ==
  \/ \E p \in Process : ProcessStep(p)
  \/ \E c \in Request : KeyRequest(c)
  \/ \E e \in Editor : ConfigRequest(e)
  \/ Connects \/ Provisioned

Spec == Init /\ [][Next]_vars

-----------------------------------------------------------------------------
TypeOK == LifespanTypeOK /\ KeysTypeOK /\ ConfigTypeOK /\ WalkTypeOK

\* Whoever has opened the database or is still closing it holds the lock, so
\* there is never a second process that does: on no way in and on no way out.
OneWriter == \A p \in Process : phase[p] # "down" => holder = p

\* A private key is never replaced: an upload that meets the file of an
\* earlier one, also one that a crash or an error left without a row, does
\* not touch it; the file must have been deleted first.
KeyIsNotReplaced == [][private # None => private' \in {None, private}]_vars

\* The row of a slot describes its files: a file that is there is the one of
\* the key in the row, after any uploads, deletions, errors and crashes.
RowTellsTruth == row # None => private \in {None, row} /\ public \in {None, row}

\* The aliases a serving gateway publishes are those of the file it has, which
\* the next process will load, unless a save has reported a failure.
CatalogTellsFile == Serving => snapshot = config \/ unpublished

\* A save that is answered has overwritten the very text its editor had seen,
\* if it had seen any, whatever others have saved meanwhile.
NoLostSave ==
  [][\A e \in Editor : config' # config /\ seen'[e] # seen[e] =>
       seen[e] \in {NoConfig, config}]_vars

=============================================================================
