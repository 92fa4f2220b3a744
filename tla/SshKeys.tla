------------------------------- MODULE SshKeys -------------------------------
(***************************************************************************)
(* ssh_keys.py: one key slot of the gateway, that is its private and       *)
(* public key file and its row in ssh_keys.  The slots of the key types    *)
(* share nothing but the lock.  The files and the row cannot be changed    *)
(* together: every write is a step of its own, and a crash or an error may *)
(* come between any two, although no other coroutine does between the      *)
(* writes of a pair.                                                       *)
(***************************************************************************)
CONSTANTS
  Request,   \* uploads and deletions at work at a time
  Key,       \* private keys (each has one public key)
  None

ASSUME NoKeyAssumption == None \notin Key

VARIABLES
  private,   \* the private key file
  public,    \* the key whose public key is in the public key file
  row,       \* the key described by the ssh_keys row
  op         \* what each request is at

keyVars == <<private, public, row, op>>
slotVars == <<private, public, row>>

Idle == [pc |-> "idle"]
OpPc == {"row", "private", "public", "insert", "drop", "drop_public", "delete"}
Kind == {"import", "delete"}
OpState == {Idle} \cup [pc: OpPc, kind: Kind, key: Key \cup {None}]

OpAt(c, pc) == op[c].pc = pc
OpGoes(c, pc) == op' = [op EXCEPT ![c].pc = pc]

\* A mutant: a request that has ended still holds the lock.
KeepsLock(c) == op' = [op EXCEPT ![c].pc = "idle"]

OpEnds(c) == op' = [op EXCEPT ![c] = Idle]

\* A mutant: mutations are not serialized.
NoLock == TRUE

\* _mutation_lock; a request that waits for it is one that comes later.
LockIsFree == \A c \in Request : op[c] = Idle

-----------------------------------------------------------------------------
\* import_upload of a valid key, and delete_key, up to the read of the row.
Enters(c) ==
  /\ OpAt(c, "idle") /\ LockIsFree
  /\ \/ \E k \in Key : op' = [op EXCEPT ![c] = [pc |-> "row", kind |-> "import", key |-> k]]
     \/ op' = [op EXCEPT ![c] = [pc |-> "row", kind |-> "delete", key |-> None]]
  /\ UNCHANGED slotVars

\* A mutant: only the file is looked at.
NoFile == private = None

SlotIsFree == row = None /\ private = None

ImportChecks(c) ==
  /\ OpAt(c, "row") /\ op[c].kind = "import"
  /\ IF SlotIsFree THEN OpGoes(c, "private") ELSE OpEnds(c)
  /\ UNCHANGED slotVars

DeleteChecks(c) ==
  /\ OpAt(c, "row") /\ op[c].kind = "delete"
  /\ IF row = None /\ private = None THEN OpEnds(c) ELSE OpGoes(c, "drop")
  /\ UNCHANGED slotVars

\* _atomic_write_pair: the first os.replace, and the second.
WritesPrivate(c) ==
  /\ OpAt(c, "private") /\ private' = op[c].key /\ OpGoes(c, "public")
  /\ UNCHANGED <<public, row>>

WritesPublic(c) ==
  /\ OpAt(c, "public") /\ public' = op[c].key /\ OpGoes(c, "insert")
  /\ UNCHANGED <<private, row>>

\* An OSError in the pair: temporary files go, what was replaced stays.
WriteFails(c) ==
  /\ op[c].pc \in {"private", "public"} /\ OpEnds(c)
  /\ UNCHANGED slotVars

Inserts(c) ==
  /\ OpAt(c, "insert") /\ row' = op[c].key /\ OpEnds(c)
  /\ UNCHANGED <<private, public>>

InsertFails(c) ==
  /\ OpAt(c, "insert") /\ OpGoes(c, "drop")
  /\ UNCHANGED slotVars

\* _unlink_pair, of a deletion or of an import that failed; an unlink that
\* fails is passed over.
UnlinksPrivate(c) ==
  /\ OpAt(c, "drop") /\ private' \in {None, private} /\ OpGoes(c, "drop_public")
  /\ UNCHANGED <<public, row>>

UnlinksPublic(c) ==
  /\ OpAt(c, "drop_public") /\ public' \in {None, public}
  /\ IF op[c].kind = "delete" THEN OpGoes(c, "delete") ELSE OpEnds(c)
  /\ UNCHANGED <<private, row>>

\* delete_ssh_key_metadata, or its failure.
DeletesRow(c) ==
  /\ OpAt(c, "delete") /\ row' \in {None, row} /\ OpEnds(c)
  /\ UNCHANGED <<private, public>>

KeyStep(c) ==
  \/ ImportChecks(c) \/ DeleteChecks(c) \/ WritesPrivate(c) \/ WritesPublic(c)
  \/ WriteFails(c) \/ Inserts(c) \/ InsertFails(c) \/ UnlinksPrivate(c)
  \/ UnlinksPublic(c) \/ DeletesRow(c)

KeysInit == private = None /\ public = None /\ row = None /\ op = [c \in Request |-> Idle]

KeysTypeOK ==
  /\ {private, public, row} \subseteq Key \cup {None}
  /\ op \in [Request -> OpState]

=============================================================================
