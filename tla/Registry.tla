------------------------------- MODULE Registry -------------------------------
(***************************************************************************)
(* The handlers of internal/server that keep connections and SSH profiles: *)
(* create, test of a draft, PATCH, DELETE, and the access check of the     *)
(* Docker actions.  Each runs on a goroutine of its own and takes the      *)
(* store's mutex for single calls only, so the handlers interleave between *)
(* those calls; the process may be killed between any two of them.         *)
(*                                                                         *)
(* A record is reduced to its access mode and the ids of its secrets; what *)
(* its name is makes no difference to anything.                            *)
(***************************************************************************)
EXTENDS RecordStore, FiniteSets, Sequences

CONSTANTS
  Requests,     \* bound: HTTP requests, each handled once
  Saved,        \* ids of the connections saved by an earlier run
  Managed,      \* those of them saved with access mode manage
  MaxSecrets    \* bound: secrets of one record

ASSUME RequestsAssumption ==
  /\ Managed \subseteq Saved
  /\ Saved \subseteq Ids
  /\ Requests \subseteq Ids          \* a new record is named after its request
  /\ Saved \cap Requests = {}
  /\ MaxSecrets \in Nat \ {0}

VARIABLES
  op,        \* what each request asks for
  pc,        \* where its handler is
  target,    \* the id it works on
  asked,     \* the access mode in its body, None if there is none
  draft,     \* its own copy of the record
  answer,    \* "none", "ok", "error", or "lost" with the process
  \* History:
  acted,     \* requests that changed a runtime
  strays,    \* secrets left behind by a crash or by a failing file system
  saves,     \* the saves and deletes of records that took effect, in order
  begun      \* how many there were when a PATCH or an action took its copy

requestVars == <<op, pc, target, asked, draft, answer>>
history     == <<acted, strays, saves, begun>>
vars        == <<storeVars, requestVars, history>>

Modes == {"read_only", "manage"}

Secrets == Ids \X (1 .. MaxSecrets)
Record  == [kind : {"connection", "profile"}, access : Modes,
            secrets : SUBSET Secrets]

ASSUME NoneAssumption == None \notin Modes /\ None \notin Record

Histories == Seq(Requests)

InFlight == {"building", "testing", "saving", "discarding", "updating",
             "clearing", "dropping", "acting", "answering"}

TypeOK ==
  /\ records \in [Ids -> Record \cup {None}]
  /\ file \in [Ids -> Record \cup {None}]
  /\ secrets \subseteq Secrets
  /\ op \in [Requests -> {"none", "create", "test", "update", "delete", "act"}]
  /\ pc \in [Requests -> {"idle", "done"} \cup InFlight]
  /\ target \in [Requests -> Ids \cup {None}]
  /\ asked \in [Requests -> Modes \cup {None}]
  /\ draft \in [Requests -> Record \cup {None}]
  /\ answer \in [Requests -> {"none", "ok", "error", "lost"}]
  /\ acted \subseteq Requests
  /\ strays \subseteq Secrets
  /\ saves \in Histories
  /\ begun \in [Requests -> Nat]

Init ==
  /\ records = [id \in Ids |->
       IF id \in Saved
       THEN [kind |-> "connection", secrets |-> {<<id, 1>>},
             access |-> IF id \in Managed THEN "manage" ELSE "read_only"]
       ELSE None]
  /\ file = records
  /\ secrets = {<<id, 1>> : id \in Saved}
  /\ op = [q \in Requests |-> "none"]
  /\ pc = [q \in Requests |-> "idle"]
  /\ target = [q \in Requests |-> None]
  /\ asked = [q \in Requests |-> None]
  /\ draft = [q \in Requests |-> None]
  /\ answer = [q \in Requests |-> "none"]
  /\ acted = {}
  /\ strays = {}
  /\ saves = <<>>
  /\ begun = [q \in Requests |-> 0]

GoTo(q, place) == pc' = [pc EXCEPT ![q] = place]

Answer(q, value) ==
  /\ GoTo(q, "done")
  /\ answer' = [answer EXCEPT ![q] = value]

\* Nothing but the answer is left to do.
ToAnswer(q) == GoTo(q, "answering") /\ UNCHANGED answer

\* A save or delete that succeeds is one more in the history.
Logged(q, ok) == saves' = IF ok THEN Append(saves, q) ELSE saves

\* The request, with access mode mode in its body, begins with the copy of a
\* record or with a new one.  One that names no record is answered with an
\* error and changes nothing.
Begin(q, what, id, mode, copy, place) ==
  /\ pc[q] = "idle"
  /\ op' = [op EXCEPT ![q] = what]
  /\ target' = [target EXCEPT ![q] = id]
  /\ asked' = [asked EXCEPT ![q] = mode]
  /\ draft' = [draft EXCEPT ![q] = copy]
  /\ begun' = [begun EXCEPT ![q] = IF what \in {"update", "act"} THEN Len(saves) ELSE 0]
  /\ GoTo(q, place)
  /\ UNCHANGED <<storeVars, answer, acted, strays, saves>>

-----------------------------------------------------------------------------
(* POST: create a connection or profile, or test the draft of a connection *)

\* Mutant: a connection without an access mode may be managed.
AccessOrManage(mode) == IF mode = None THEN "manage" ELSE mode

\* Mutant: the default is missing.
AccessUnset(mode) == mode

\* dockerAccessMode: read-only unless the request says otherwise.
AccessMode(mode) == IF mode = None THEN "read_only" ELSE mode

BeginCreate(q, kind, what, mode) ==
  /\ what = "test" => kind = "connection"
  /\ kind = "profile" \/ what = "test" => mode = None
  /\ Begin(q, what, q, mode,
           [kind |-> kind, access |-> AccessMode(mode), secrets |-> {}],
           "building")

\* A profile has no secret but its private key, which is checked before.
MayHoldMore(record) == record.kind = "profile" => record.secrets = {}

\* One more credential of the request is encrypted and written.
StoreSecret(q) ==
  /\ pc[q] = "building"
  /\ MayHoldMore(draft[q])
  /\ LET s == <<q, Cardinality(draft[q].secrets) + 1>> IN
       /\ s \in Secrets
       /\ PutSecret(s)
       /\ draft' = [draft EXCEPT ![q].secrets = @ \cup {s}]
  /\ UNCHANGED <<records, file, op, pc, target, asked, answer, history>>

\* A credential is invalid or cannot be written (its file is then taken not to
\* exist): what was written before is removed.
BuildFails(q) ==
  /\ pc[q] = "building"
  /\ MayHoldMore(draft[q])
  /\ GoTo(q, "discarding")
  /\ UNCHANGED <<storeVars, op, target, asked, draft, answer, history>>

\* Profiles are saved without a test; skip_test does it for connections.
Build(q) ==
  /\ pc[q] = "building"
  /\ GoTo(q, IF draft[q].kind = "profile" THEN "saving" ELSE "testing")
  /\ UNCHANGED <<storeVars, op, target, asked, draft, answer, history>>

\* The provider is asked; a draft is discarded whatever it answers.
Test(q) ==
  /\ pc[q] = "testing"
  /\ \E ok \in BOOLEAN :
       GoTo(q, IF ok /\ op[q] = "create" THEN "saving" ELSE "discarding")
  /\ UNCHANGED <<storeVars, op, target, asked, draft, answer, history>>

\* Mutant: the deferred cleanup is not switched off.
CreatedThenDiscarded(q) == GoTo(q, "discarding") /\ UNCHANGED answer

Created(q) == ToAnswer(q)

\* From here on every other request sees the record, answered or not.
SaveCreated(q) ==
  /\ pc[q] = "saving"
  /\ \E ok \in BOOLEAN :
       /\ SaveRecord(q, draft[q], ok)
       /\ Logged(q, ok)
       /\ IF ok THEN Created(q) ELSE GoTo(q, "discarding") /\ UNCHANGED answer
  /\ UNCHANGED <<secrets, op, target, asked, draft, acted, strays, begun>>

\* A secret is removed from the directory; if that fails nobody tries again.
RemoveSecret(q, s) ==
  /\ draft' = [draft EXCEPT ![q].secrets = @ \ {s}]
  /\ \E ok \in BOOLEAN :
       /\ DeleteSecret(s, ok)
       /\ strays' = IF ok THEN strays ELSE strays \cup {s}
  /\ UNCHANGED <<records, file, op, pc, target, asked, answer, acted, saves, begun>>

\* Mutant: only the first secret is removed.
LeftToDiscardFirst(q) == {s \in draft[q].secrets : s[2] = 1}

LeftToDiscard(q) == draft[q].secrets

Discard(q) ==
  /\ pc[q] = "discarding"
  /\ \E s \in LeftToDiscard(q) : RemoveSecret(q, s)

Discarded(q) ==
  /\ pc[q] = "discarding"
  /\ LeftToDiscard(q) = {}
  /\ \E value \in {"ok", "error"} :
       /\ op[q] = "create" => value = "error"
       /\ op[q] = "delete" => value = "ok"
       /\ Answer(q, value)
  /\ UNCHANGED <<storeVars, op, target, asked, draft, history>>

-----------------------------------------------------------------------------
(* PATCH: rename, and change the access mode if the request has one *)

\* The record with the new name, and with access mode mode if there is one.
Updated(record, mode) ==
  [record EXCEPT !.access = IF mode = None THEN @ ELSE mode]

\* The handler copies the record; only then does it read the request's body.
BeginUpdate(q, id, mode) ==
  /\ records[id] # None
  /\ records[id].kind = "connection"
  /\ Begin(q, "update", id, mode, Updated(records[id], mode), "updating")

\* The copy is saved over whatever the record is by now.
SaveUpdate(q) ==
  /\ pc[q] = "updating"
  /\ \E ok \in BOOLEAN :
       /\ SaveRecord(target[q], draft[q], ok)
       /\ Logged(q, ok)
       /\ IF ok THEN ToAnswer(q) ELSE Answer(q, "error")
  /\ UNCHANGED <<secrets, op, target, asked, draft, acted, strays, begun>>

-----------------------------------------------------------------------------
(* DELETE *)

\* The secrets of a connection are deleted before its record, those of a
\* profile after it.
FirstDeleted(kind) == IF kind = "connection" THEN "clearing" ELSE "dropping"

BeginDelete(q, id) ==
  /\ records[id] # None
  /\ Begin(q, "delete", id, None, records[id], FirstDeleted(records[id].kind))

\* deleteConnectionSecrets, from the handler's copy of the record.
ClearSecret(q) ==
  /\ pc[q] = "clearing"
  /\ \E s \in draft[q].secrets : RemoveSecret(q, s)

Cleared(q) ==
  /\ pc[q] = "clearing"
  /\ draft[q].secrets = {}
  /\ GoTo(q, "dropping")
  /\ UNCHANGED <<storeVars, op, target, asked, draft, answer, history>>

\* DeleteConnection or DeleteSSHProfile: fails if another request was faster,
\* or if the file cannot be written.
DropRecord(q) ==
  /\ pc[q] = "dropping"
  /\ \E ok \in BOOLEAN :
       /\ DeleteRecord(target[q], ok)
       /\ Logged(q, ok)
       /\ IF ~ok THEN Answer(q, "error")
          ELSE IF draft[q].kind = "profile" THEN GoTo(q, "discarding") /\ UNCHANGED answer
          ELSE ToAnswer(q)
  /\ UNCHANGED <<secrets, op, target, asked, draft, acted, strays, begun>>

-----------------------------------------------------------------------------
(* Docker actions *)

\* Connection.CanManageDocker
MayManage(record) == record.access = "manage"

\* dockerController: the handler checks a copy of the connection.
BeginAction(q, id) ==
  /\ records[id] # None
  /\ records[id].kind = "connection"
  /\ MayManage(records[id])
  /\ Begin(q, "act", id, None, records[id], "acting")

\* The runtime does it, or fails.
Act(q) ==
  /\ pc[q] = "acting"
  /\ \/ ToAnswer(q) /\ acted' = acted \cup {q}
     \/ Answer(q, "error") /\ UNCHANGED acted
  /\ UNCHANGED <<storeVars, op, target, asked, draft, strays, saves, begun>>

-----------------------------------------------------------------------------
\* The answer of a handler that succeeded, after the caches of the connection
\* are dropped (SnapshotCache, WorkloadService).
Respond(q) ==
  /\ pc[q] = "answering"
  /\ Answer(q, "ok")
  /\ UNCHANGED <<storeVars, op, target, asked, draft, history>>

-----------------------------------------------------------------------------
\* Requests that hold secrets which belong to no record.
Holding == {q \in Requests : pc[q] \in {"building", "testing", "saving", "discarding"}}

\* The process is killed and started again: handlers are gone, and what they
\* would have cleaned up stays.
Restart ==
  /\ Reopen
  /\ pc' = [q \in Requests |-> IF pc[q] \in InFlight THEN "done" ELSE pc[q]]
  /\ answer' = [q \in Requests |-> IF pc[q] \in InFlight THEN "lost" ELSE answer[q]]
  /\ strays' = strays \cup UNION {draft[q].secrets : q \in Holding}
  /\ UNCHANGED <<op, target, asked, draft, acted, saves, begun>>

Handle(q) ==
  \/ \E mode \in Modes \cup {None}, kind \in {"connection", "profile"},
        what \in {"create", "test"} : BeginCreate(q, kind, what, mode)
  \/ StoreSecret(q) \/ BuildFails(q) \/ Build(q) \/ Test(q) \/ SaveCreated(q)
  \/ Discard(q) \/ Discarded(q)
  \/ \E id \in Ids, mode \in Modes \cup {None} : BeginUpdate(q, id, mode)
  \/ SaveUpdate(q)
  \/ \E id \in Ids : BeginDelete(q, id) \/ BeginAction(q, id)
  \/ ClearSecret(q) \/ Cleared(q) \/ DropRecord(q)
  \/ Act(q) \/ Respond(q)

Next == Restart \/ \E q \in Requests : Handle(q)

Spec == Init /\ [][Next]_vars

-----------------------------------------------------------------------------
(* Safety *)

\* A restart finds exactly the records that requests saw before it, also after
\* saves that failed (store.go:77-85, 95-98, 258-271).
RestartFindsAll == records = file

Owned == UNION {records[id].secrets : id \in {i \in Ids : records[i] # None}}

\* No secret is left behind: whatever fails or overlaps, each belongs to a
\* record or to a request that still has to clean up, except those a crash or
\* the file system itself left (connections.go:143-150, 183-187, 329-338, 393-410;
\* ssh_profiles.go:56, 74).
NoOrphanSecret ==
  secrets \subseteq strays \cup Owned \cup UNION {draft[q].secrets : q \in Holding}

\* A record keeps its secrets: a profile as long as it is stored, a connection
\* until somebody asks to delete it (connections.go:170, 242; ssh_profiles.go:70-74).
RecordKeepsSecrets ==
  \A id \in Ids : records[id] # None =>
    \/ records[id].secrets \subseteq secrets
    \/ /\ records[id].kind = "connection"
       /\ \E q \in Requests : op[q] = "delete" /\ target[q] = id

\* Save n is one of connection id; there is none with number 0.
About(n, id) == n > 0 /\ target[saves[n]] = id

\* Connection id has access mode manage from an earlier run, or save n asks for it.
Grants(n, id) ==
  \/ n = 0 /\ id \in Managed
  \/ About(n, id) /\ asked[saves[n]] = "manage"

\* Save n takes access mode manage from connection id.
Revokes(n, id) ==
  About(n, id) /\ (asked[saves[n]] = "read_only" \/ op[saves[n]] = "delete")

\* Save n puts back what save i replaced: a PATCH without an access mode that had
\* copied the connection before save i.
PutsBack(n, i, id) ==
  /\ i < n /\ About(n, id) /\ begun[saves[n]] < i
  /\ op[saves[n]] = "update" /\ asked[saves[n]] = None

\* After the first t saves connection id has access mode manage, and all that took
\* it back since was put back.
OptedIn(id, t) ==
  \E j \in 0 .. t :
    /\ Grants(j, id)
    /\ \A i \in (j + 1) .. t :
         Revokes(i, id) => \E n \in 1 .. t : PutsBack(n, i, id)

\* A runtime is changed only through a connection that was saved with access mode
\* manage before the action took its copy, and that was not set to read-only or
\* deleted since: no default, failed save, crash or overlapping request opens it.
\* There are two ways round, and no third: an action under way keeps its copy
\* (docker_actions.go:114, 126), and a rename that overlaps the PATCH or DELETE
\* which takes the mode away saves it again (connections.go:94, 126).
ActionNeedsOptIn ==
  \A q \in Requests :
    q \in acted \/ pc[q] = "acting" => OptedIn(target[q], begun[q])

-----------------------------------------------------------------------------
\* The test TestRenameConnectionPreservesConfiguration, for requests that
\* overlap: a PATCH with a new name and nothing else leaves the access mode.
RenamePreservesConfiguration ==
  [][\A q \in Requests :
       LET id == target[q] IN
         pc[q] = "updating" /\ asked[q] = None /\ pc'[q] = "answering"
           /\ records[id] # None
         => records'[id].access = records[id].access]_vars
=============================================================================
