------------------------------ MODULE SshConfig ------------------------------
(***************************************************************************)
(* ssh_config.py with its routes: the config file, the snapshot of its     *)
(* aliases in memory, and the editors that read and save it.  A text that  *)
(* passes _validate_config_text is the map of its ProxyJump lists, which   *)
(* is all the rest of the model looks at; its revision is the text itself. *)
(***************************************************************************)
CONSTANTS
  Config,    \* valid texts
  Editor,    \* pages on which the config is edited
  NoConfig   \* no file, or an invalid one; no snapshot; no revision

ASSUME NoConfigAssumption == NoConfig \notin Config

VARIABLES
  config,      \* the file
  snapshot,    \* SshCatalog._snapshot
  seen,        \* the revision each editor sends along
  unpublished  \* history: a save has failed after it replaced the file

configVars == <<config, snapshot, seen, unpublished>>

\* get_ssh_config.
ReadsConfig(e) ==
  /\ seen' = [seen EXCEPT ![e] = config]
  /\ UNCHANGED <<config, snapshot, unpublished>>

\* A mutant: the revision is not compared.
AnyRevision(e) == TRUE

\* Without a revision, or without a file, nothing is compared.
RevisionFits(e) == seen[e] = NoConfig \/ config = NoConfig \/ seen[e] = config

\* A mutant: put_ssh_config forgets set_snapshot.
SavesOnly(e, text) ==
  /\ RevisionFits(e)
  /\ config' = text /\ seen' = [seen EXCEPT ![e] = text] /\ unpublished' = FALSE
  /\ UNCHANGED snapshot

\* put_ssh_config, of which nothing is awaited but a free lock: compare,
\* replace, publish, answer with the new revision.
Saves(e, text) ==
  /\ RevisionFits(e)
  /\ config' = text /\ snapshot' = text /\ unpublished' = FALSE
  /\ seen' = [seen EXCEPT ![e] = text]

\* The fsync of the directory or the second read of the file fails.
SaveFailsLate(e, text) ==
  /\ RevisionFits(e)
  /\ config' = text /\ unpublished' = TRUE
  /\ UNCHANGED <<snapshot, seen>>

\* SshCatalog.refresh, which only startup calls.
LoadsCatalog ==
  /\ snapshot' = config /\ unpublished' = FALSE
  /\ UNCHANGED <<config, seen>>

\* The file is provisioned or damaged from outside, with no gateway running
\* (external).
Provisions ==
  /\ config' \in Config \cup {NoConfig}
  /\ UNCHANGED <<snapshot, seen, unpublished>>

ConfigInit ==
  /\ config \in Config
  /\ snapshot = NoConfig
  /\ seen = [e \in Editor |-> NoConfig]
  /\ unpublished = FALSE

ConfigTypeOK ==
  /\ {config, snapshot} \subseteq Config \cup {NoConfig}
  /\ seen \in [Editor -> Config \cup {NoConfig}]
  /\ unpublished \in BOOLEAN

=============================================================================
