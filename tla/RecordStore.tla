----------------------------- MODULE RecordStore -----------------------------
(***************************************************************************)
(* internal/store: the saved connections and SSH profiles, in memory and   *)
(* in their JSON files, and the encrypted secrets, one file each.          *)
(*                                                                         *)
(* A save changes the map, writes the whole file beside the old one and    *)
(* renames it, all under Store.mu; readers need that mutex, so they never  *)
(* see a save half done and it is one step here.  When the write fails the *)
(* map is put back.  Secrets are files without any mutex.                  *)
(* The two kinds of records live in separate maps and files; their ids are *)
(* disjoint and a save touches one record, so one map stands for both.     *)
(***************************************************************************)
EXTENDS Naturals

CONSTANTS
  Ids,       \* ids of connections and SSH profiles, never used again
  None       \* no such record

ASSUME NoneIsNoId == None \notin Ids

VARIABLES
  records,   \* Store.connections and Store.sshProfiles
  file,      \* connections.json and ssh_profiles.json
  secrets    \* the files in the secrets directory

storeVars == <<records, file, secrets>>

\* Mutant: the map keeps what could not be written.
AfterFailureKept(updated) == updated

\* The map after a failed write: the previous record is put back.
AfterFailure(updated) == records

\* The locked part of a save or delete that turns the map into updated.
Write(updated, ok) ==
  /\ records' = IF ok THEN updated ELSE AfterFailure(updated)
  /\ file' = IF ok THEN updated ELSE file

SaveRecord(id, record, ok) == Write([records EXCEPT ![id] = record], ok)

\* Deleting what is not there is os.ErrNotExist.
DeleteRecord(id, ok) ==
  /\ ok => records[id] # None
  /\ Write([records EXCEPT ![id] = None], ok)

PutSecret(s) == secrets' = secrets \cup {s}

\* Deleting a secret that is not there succeeds; the callers ignore a failure.
DeleteSecret(s, ok) == secrets' = IF ok THEN secrets \ {s} ELSE secrets

\* Open, after a restart: the map is read from the files.
Reopen ==
  /\ records' = file
  /\ UNCHANGED <<file, secrets>>
=============================================================================
