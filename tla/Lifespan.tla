------------------------------- MODULE Lifespan -------------------------------
(***************************************************************************)
(* lockfile.py and lifespan of app.py: gateway processes on one state      *)
(* directory.  A process takes the lock before it opens anything and gives *)
(* it back last, on every way out; the operating system takes it from a    *)
(* process that dies.                                                      *)
(***************************************************************************)
CONSTANTS
  Process,   \* processes started on the state directory
  Nobody     \* nobody holds the lock

ASSUME NobodyAssumption == Nobody \notin Process

VARIABLES
  phase,    \* how far each process is
  holder    \* the process with the lock on gateway.lock

lifeVars == <<phase, holder>>

\* down; the lock taken; the database open; the catalog loaded and sessions
\* recovered; serving; services shut down; the database closed.
Phase == {"down", "locked", "database", "recovery", "serving", "stopping", "closed"}

Moves(p, from, to) == phase[p] = from /\ phase' = [phase EXCEPT ![p] = to]

\* ProcessLock.acquire: flock with LOCK_EX and LOCK_NB.  A process that does
\* not get it exits, and its release is none, for it has no descriptor.
Acquires(p) ==
  /\ holder = Nobody /\ Moves(p, "down", "locked") /\ holder' = p

\* open_database and run_migrations.
OpensDatabase(p) == Moves(p, "locked", "database") /\ UNCHANGED holder

Serves(p) == Moves(p, "recovery", "serving") /\ UNCHANGED holder

\* _build_services fails, and closes what it has opened; or what comes after.
StartupFails(p) ==
  /\ \/ Moves(p, "locked", "closed") \/ Moves(p, "database", "closed")
     \/ Moves(p, "recovery", "stopping")
  /\ UNCHANGED holder

\* A mutant: the lock is given back before the services are shut down.
StopsUnlocked(p) == Moves(p, "serving", "stopping") /\ holder' = Nobody

\* Uvicorn has been told to stop and its requests are answered.
Stops(p) == Moves(p, "serving", "stopping") /\ UNCHANGED holder

\* Tasks, sessions, HTTP client and database, each whatever the others did.
ClosesDatabase(p) == Moves(p, "stopping", "closed") /\ UNCHANGED holder

Releases(p) == Moves(p, "closed", "down") /\ holder' = Nobody

Dies(p) ==
  /\ phase[p] # "down" /\ phase' = [phase EXCEPT ![p] = "down"]
  /\ holder' = IF holder = p THEN Nobody ELSE holder

LifespanInit == phase = [p \in Process |-> "down"] /\ holder = Nobody

LifespanTypeOK == phase \in [Process -> Phase] /\ holder \in Process \cup {Nobody}

=============================================================================
