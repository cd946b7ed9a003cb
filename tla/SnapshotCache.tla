---------------------------- MODULE SnapshotCache ----------------------------
(***************************************************************************)
(* The overview metrics cache of internal/metrics/manager.go: Snapshot     *)
(* answers from a young entry, waits for a load that is under way, or      *)
(* loads the entry itself; InvalidateSnapshot forgets the entry.           *)
(*                                                                         *)
(* An entry is an object the calls hold pointers to: a load that was under *)
(* way when its entry was forgotten completes into the forgotten object.   *)
(* A call makes at most one entry and at most one load, so the entry and   *)
(* the channel of its load are named after the call.  What a runtime       *)
(* contains is abstracted to a version number, the age of an entry to      *)
(* whether it is below maxAge.                                             *)
(***************************************************************************)
EXTENDS Integers

CONSTANTS
  Calls,        \* Snapshot calls; bounds the loads
  Conns,        \* connections
  None,         \* nil
  Failed,       \* a provider error
  MaxVersion    \* bound: versions a runtime goes through

ASSUME ConstantsAssumption ==
  /\ MaxVersion \in Nat
  /\ None \notin Calls \cup Conns \cup Int
  /\ Failed \notin Int \cup {None}

VARIABLES
  truth,      \* version of what each runtime contains now
  snapshots,  \* Manager.snapshots: the entry of each connection, or None
  \* The entries:
  loading,    \* the load under way, or None
  young,      \* observed, less than maxAge ago
  items,      \* items and err: the version loaded, or Failed
  \* The Snapshot calls:
  pc,         \* "idle", "looking", "waiting", "loading" or "returned"
  conn,       \* the connection asked about
  entry,      \* the entry it loads
  wait,       \* the load it waits for
  read,       \* what its load got from the provider, None so far
  result,     \* what it returned, None so far
  done,       \* the loads whose channel has been closed
  \* History:
  floor,      \* version of each runtime when its entry was last invalidated
  owed        \* that version, when the call began

entryVars == <<snapshots, loading, young, items>>
callVars  == <<pc, conn, entry, wait, read, result>>
history   == <<done, floor, owed>>

vars == <<truth, entryVars, callVars, history>>

Reading == Nat \cup {Failed, None}

TypeOK ==
  /\ truth \in [Conns -> Nat]
  /\ snapshots \in [Conns -> Calls \cup {None}]
  /\ loading \in [Calls -> Calls \cup {None}]
  /\ young \in [Calls -> BOOLEAN]
  /\ items \in [Calls -> Reading]
  /\ pc \in [Calls -> {"idle", "looking", "waiting", "loading", "returned"}]
  /\ conn \in [Calls -> Conns \cup {None}]
  /\ entry \in [Calls -> Calls \cup {None}]
  /\ wait \in [Calls -> Calls \cup {None}]
  /\ read \in [Calls -> Reading]
  /\ result \in [Calls -> Reading]
  /\ done \subseteq Calls
  /\ floor \in [Conns -> Nat]
  /\ owed \in [Calls -> Nat]

Init ==
  /\ truth = [c \in Conns |-> 0]
  /\ snapshots = [c \in Conns |-> None]
  /\ loading = [q \in Calls |-> None]
  /\ young = [q \in Calls |-> FALSE]
  /\ items = [q \in Calls |-> None]
  /\ pc = [q \in Calls |-> "idle"]
  /\ conn = [q \in Calls |-> None]
  /\ entry = [q \in Calls |-> None]
  /\ wait = [q \in Calls |-> None]
  /\ read = [q \in Calls |-> None]
  /\ result = [q \in Calls |-> None]
  /\ done = {}
  /\ floor = [c \in Conns |-> 0]
  /\ owed = [q \in Calls |-> 0]

-----------------------------------------------------------------------------
(* Snapshot *)

\* A request calls Snapshot.
Call(q, c) ==
  /\ pc[q] = "idle"
  /\ pc' = [pc EXCEPT ![q] = "looking"]
  /\ conn' = [conn EXCEPT ![q] = c]
  /\ owed' = [owed EXCEPT ![q] = floor[c]]
  /\ UNCHANGED <<truth, entryVars, entry, wait, read, result, done, floor>>

\* The entry q finds under the mutex at the top of its loop.
Found(q) == snapshots[conn[q]]

Return(q, value) ==
  /\ pc' = [pc EXCEPT ![q] = "returned"]
  /\ result' = [result EXCEPT ![q] = value]

\* A young entry that nobody is loading answers, an error just like items.
Answers(e) == loading[e] = None /\ young[e]

Hit(q) ==
  /\ pc[q] = "looking"
  /\ Found(q) # None
  /\ Answers(Found(q))
  /\ Return(q, items[Found(q)])
  /\ UNCHANGED <<truth, entryVars, conn, entry, wait, read, history>>

\* A load is under way: remember its channel and wait without the mutex.
Wait(q) ==
  /\ pc[q] = "looking"
  /\ Found(q) # None
  /\ loading[Found(q)] # None
  /\ pc' = [pc EXCEPT ![q] = "waiting"]
  /\ wait' = [wait EXCEPT ![q] = loading[Found(q)]]
  /\ UNCHANGED <<truth, entryVars, conn, entry, read, result, history>>

\* The channel is closed: look again.
WakeUp(q) ==
  /\ pc[q] = "waiting"
  /\ wait[q] \in done
  /\ pc' = [pc EXCEPT ![q] = "looking"]
  /\ UNCHANGED <<truth, entryVars, conn, entry, wait, read, result, history>>

\* The request of a waiting call is cancelled.
GiveUp(q) ==
  /\ pc[q] = "waiting"
  /\ Return(q, Failed)
  /\ UNCHANGED <<truth, entryVars, conn, entry, wait, read, history>>

\* Mutant: every load makes an entry of its own and the map is not asked.
MissesAlways(q) == TRUE

\* There is no entry, or an old one that nobody is loading.
Misses(q) ==
  Found(q) # None => loading[Found(q)] = None /\ ~young[Found(q)]

\* The call takes the load upon itself, in a new entry or in the old one.
BeginLoad(q) ==
  /\ pc[q] = "looking"
  /\ Misses(q)
  /\ LET e == IF Found(q) = None THEN q ELSE Found(q) IN
       /\ snapshots' = [snapshots EXCEPT ![conn[q]] = e]
       /\ loading' = [loading EXCEPT ![e] = q]
       /\ entry' = [entry EXCEPT ![q] = e]
  /\ pc' = [pc EXCEPT ![q] = "loading"]
  /\ UNCHANGED <<truth, young, items, conn, wait, read, result, history>>

\* The provider reads the runtime, at some moment of the load, or fails, or
\* runs into the time limit of the load.
ReadRuntime(q) ==
  /\ pc[q] = "loading"
  /\ read[q] = None
  /\ \E value \in {truth[conn[q]], Failed} : read' = [read EXCEPT ![q] = value]
  /\ UNCHANGED <<truth, entryVars, pc, conn, entry, wait, result, history>>

\* Mutant: the load is stored under the connection, in the entry of the moment.
StoredInMap(q) == IF Found(q) = None THEN q ELSE Found(q)

\* The entry the load is stored in: the object it began with.
StoredIn(q) == entry[q]

\* Mutant: the waiters are not woken.
WokenNone(q) == {}

Woken(q) == {q}

\* Store the outcome, wake the waiters and return it.
FinishLoad(q) ==
  /\ pc[q] = "loading"
  /\ read[q] # None
  /\ items' = [items EXCEPT ![StoredIn(q)] = read[q]]
  /\ young' = [young EXCEPT ![StoredIn(q)] = TRUE]
  /\ loading' = [loading EXCEPT ![StoredIn(q)] = None]
  /\ done' = done \cup Woken(q)
  /\ Return(q, read[q])
  /\ UNCHANGED <<truth, snapshots, conn, entry, wait, read, floor, owed>>

-----------------------------------------------------------------------------
(* The world around *)

\* The runtime changes: a restart, a deletion, another client.
Change(c) ==
  /\ truth[c] < MaxVersion
  /\ truth' = [truth EXCEPT ![c] = @ + 1]
  /\ UNCHANGED <<entryVars, callVars, history>>

\* Mutant: a load under way is spared.
ForgottenUnlessLoading(c) ==
  IF snapshots[c] # None /\ loading[snapshots[c]] # None
  THEN snapshots[c] ELSE None

\* Mutant: a failed entry is left in its place.
ForgottenAsFailed(c) == Failed

\* What the map holds after the delete.
Forgotten(c) == None

\* InvalidateSnapshot, after a runtime action or a deleted connection.
InvalidateSnapshot(c) ==
  /\ snapshots' = [snapshots EXCEPT ![c] = Forgotten(c)]
  /\ floor' = [floor EXCEPT ![c] = truth[c]]
  /\ UNCHANGED <<truth, loading, young, items, callVars, done, owed>>

\* maxAge passes.
GrowOld(e) ==
  /\ young[e]
  /\ young' = [young EXCEPT ![e] = FALSE]
  /\ UNCHANGED <<truth, snapshots, loading, items, callVars, history>>

Snapshot(q) ==
  Hit(q) \/ Wait(q) \/ WakeUp(q) \/ BeginLoad(q) \/ ReadRuntime(q) \/ FinishLoad(q)

Next ==
  \/ \E q \in Calls : Snapshot(q) \/ GiveUp(q) \/ GrowOld(q)
  \/ \E c \in Conns : Change(c) \/ InvalidateSnapshot(c)
  \/ \E q \in Calls, c \in Conns : Call(q, c)

Spec == Init /\ [][Next]_vars

\* A call that can go on does, and a load ends: ListMetrics has a time limit.
Fairness == \A q \in Calls : WF_vars(Snapshot(q))

FairSpec == Spec /\ Fairness

-----------------------------------------------------------------------------
(* Safety *)

\* Reads its own writes: a call that began after an invalidation never returns
\* what was read before it, although loads that began earlier complete later
\* (manager.go:78-104, 108-112).
FreshAfterInvalidate ==
  \A q \in Calls : result[q] \in Nat => result[q] >= owed[q]

\* A call that loads owns the entry it loads: no second load of the same entry
\* begins, and none is declared finished by another (manager.go:68-83, 97-103).
OneLoadPerEntry ==
  \A q \in Calls : pc[q] = "loading" => loading[entry[q]] = q

\* Whoever waits, waits for a load that is still under way or whose channel is
\* closed: no wake-up is lost when the entry is forgotten meanwhile.
NoLostWakeUp ==
  \A q \in Calls :
    pc[q] = "waiting" => wait[q] \in done \/ pc[wait[q]] = "loading"

-----------------------------------------------------------------------------
(* Liveness *)

\* Every call returns, also one whose entry is invalidated again and again
\* while it waits.
CallsReturn == \A q \in Calls : pc[q] = "looking" ~> pc[q] = "returned"

-----------------------------------------------------------------------------
(* Refinement *)

Promise == INSTANCE CachedReads WITH
  asked  <- [q \in Calls |-> IF pc[q] = "idle" THEN [conn |-> None, least |-> 0]
                             ELSE [conn |-> conn[q], least |-> owed[q]]],
  answer <- [q \in Calls |-> IF pc[q] = "returned" THEN result[q] ELSE None]

\* Whatever loads, waits and invalidations overlap, the calls see a cache that
\* is invalidated at once.
KeepsPromise == Promise!Spec
=============================================================================
