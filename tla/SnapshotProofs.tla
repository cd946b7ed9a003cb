--------------------------- MODULE SnapshotProofs ---------------------------
(***************************************************************************)
(* Theorems about SnapshotCache, for every set of calls and connections    *)
(* and any number of changes and invalidations.                            *)
(*                                                                         *)
(* FreshAfterInvalidate is not inductive.  What a call returns comes from  *)
(* an entry or from its own load, so both have to be fresh before they are *)
(* returned: an entry that is in the map is as new as the last             *)
(* invalidation (EntriesFresh), because a load that ends in the map began  *)
(* after it (LoadsFresh); a load that ends elsewhere is at least as new as *)
(* the call that waits for it was owed (ReadsFresh).  The rest says which  *)
(* entry belongs to whom.                                                  *)
(***************************************************************************)
EXTENDS SnapshotCache, TLAPS

\* What was invalidated is a version the runtime really had.
FloorIsPast == \A c \in Conns : floor[c] <= truth[c]

\* A call asks about a connection, and is owed no more than what is invalidated.
CallsAreOwed ==
  \A q \in Calls : pc[q] # "idle" => conn[q] \in Conns /\ owed[q] <= floor[conn[q]]

\* A load reads a version the call may be given.
ReadsFresh ==
  \A q \in Calls : pc[q] = "loading" /\ read[q] \in Nat =>
    owed[q] <= read[q] /\ read[q] <= truth[conn[q]]

\* A load whose entry is still in the map read it after the last invalidation.
LoadsFresh ==
  \A q \in Calls :
    pc[q] = "loading" /\ snapshots[conn[q]] = entry[q] /\ read[q] \in Nat
      => floor[conn[q]] <= read[q]

\* So did the load of every entry in the map.
EntriesFresh ==
  \A c \in Conns : \A e \in Calls : snapshots[c] = e /\ items[e] \in Nat =>
    floor[c] <= items[e] /\ items[e] <= truth[c]

\* A call that has not begun a load has made no entry.
UnmadeEntries ==
  \A q \in Calls : pc[q] \in {"idle", "looking", "waiting"} =>
    /\ read[q] = None /\ items[q] = None
    /\ \A c \in Conns : snapshots[c] # q
    /\ \A p \in Calls : pc[p] = "loading" => entry[p] # q

\* No entry serves two connections, and a load fills the entry of its own.
EntriesArePrivate ==
  /\ \A c, d \in Conns : snapshots[c] = snapshots[d] /\ snapshots[c] # None => c = d
  /\ \A q \in Calls, c \in Conns :
       pc[q] = "loading" /\ snapshots[c] = entry[q] => conn[q] = c

\* An entry is marked as being loaded by a call that loads it, and only by it.
LoadingIsReal ==
  /\ \A q \in Calls : pc[q] = "loading" => entry[q] \in Calls
  /\ \A e, q \in Calls : loading[e] = q => pc[q] = "loading" /\ entry[q] = e

\* Only a call that has returned has a result.
ResultsAreReturned == \A q \in Calls : pc[q] # "returned" => result[q] = None

\* An entry that answers has been loaded.
YoungIsLoaded == \A e \in Calls : young[e] => items[e] # None

IInv ==
  /\ TypeOK
  /\ FloorIsPast
  /\ CallsAreOwed
  /\ ReadsFresh
  /\ LoadsFresh
  /\ EntriesFresh
  /\ UnmadeEntries
  /\ EntriesArePrivate
  /\ LoadingIsReal
  /\ ResultsAreReturned
  /\ YoungIsLoaded
  /\ OneLoadPerEntry
  /\ NoLostWakeUp
  /\ FreshAfterInvalidate

-----------------------------------------------------------------------------
LEMMA InitIInv == Init => IInv
<1> SUFFICES ASSUME Init PROVE IInv
  OBVIOUS
<1>1. TypeOK
  BY DEF Init, TypeOK, Reading
<1>2. FloorIsPast /\ EntriesFresh /\ EntriesArePrivate /\ YoungIsLoaded
  BY ConstantsAssumption
     DEF Init, FloorIsPast, EntriesFresh, EntriesArePrivate, YoungIsLoaded
<1>3. CallsAreOwed /\ ReadsFresh /\ LoadsFresh /\ ResultsAreReturned
  BY DEF Init, CallsAreOwed, ReadsFresh, LoadsFresh, ResultsAreReturned
<1>4. UnmadeEntries /\ LoadingIsReal
  BY ConstantsAssumption DEF Init, UnmadeEntries, LoadingIsReal
<1>5. OneLoadPerEntry /\ NoLostWakeUp /\ FreshAfterInvalidate
  BY ConstantsAssumption DEF Init, OneLoadPerEntry, NoLostWakeUp, FreshAfterInvalidate
<1> QED
  BY <1>1, <1>2, <1>3, <1>4, <1>5 DEF IInv

-----------------------------------------------------------------------------
(* Steps of Snapshot *)

LEMMA CallKeeps ==
  ASSUME IInv, NEW q \in Calls, NEW c \in Conns, Call(q, c)
  PROVE  IInv'
<1> USE DEF IInv, TypeOK, Call
<1>1. TypeOK'
  BY DEF entryVars
<1>2. FloorIsPast' /\ EntriesFresh' /\ YoungIsLoaded'
  BY DEF entryVars, FloorIsPast, EntriesFresh, YoungIsLoaded
<1>3. CallsAreOwed'
  BY DEF CallsAreOwed
<1>4. ReadsFresh' /\ LoadsFresh'
  BY DEF entryVars, ReadsFresh, LoadsFresh
<1>5. UnmadeEntries' /\ EntriesArePrivate'
  BY DEF entryVars, UnmadeEntries, EntriesArePrivate
<1>6. LoadingIsReal' /\ OneLoadPerEntry'
  BY DEF entryVars, LoadingIsReal, OneLoadPerEntry
<1>7. NoLostWakeUp'
  BY DEF NoLostWakeUp
<1>8. ResultsAreReturned'
  BY DEF ResultsAreReturned
<1>9. FreshAfterInvalidate'
  BY ConstantsAssumption DEF ResultsAreReturned, FreshAfterInvalidate
<1> QED
  BY <1>1, <1>2, <1>3, <1>4, <1>5, <1>6, <1>7, <1>8, <1>9

\* What the entry holds may be returned: it is as new as the last invalidation.
LEMMA HitKeeps ==
  ASSUME IInv, NEW q \in Calls, Hit(q)
  PROVE  IInv'
<1> DEFINE e == Found(q)
<1>1. /\ pc[q] = "looking" /\ conn[q] \in Conns /\ owed[q] <= floor[conn[q]]
      /\ e \in Calls /\ e = snapshots[conn[q]]
      /\ pc' = [pc EXCEPT ![q] = "returned"]
      /\ result' = [result EXCEPT ![q] = items[e]]
      /\ UNCHANGED <<truth, entryVars, conn, entry, wait, read, history>>
  BY DEF IInv, TypeOK, CallsAreOwed, Hit, Found, Return
<1> HIDE DEF e
<1> USE <1>1 DEF IInv, TypeOK, entryVars, history
<1>2. TypeOK'
  OBVIOUS
<1>3. FloorIsPast' /\ EntriesFresh' /\ YoungIsLoaded'
  BY DEF FloorIsPast, EntriesFresh, YoungIsLoaded
<1>4. CallsAreOwed' /\ ReadsFresh' /\ LoadsFresh'
  BY DEF CallsAreOwed, ReadsFresh, LoadsFresh
<1>5. UnmadeEntries' /\ EntriesArePrivate'
  BY DEF UnmadeEntries, EntriesArePrivate
<1>6. LoadingIsReal' /\ OneLoadPerEntry'
  BY DEF LoadingIsReal, OneLoadPerEntry
<1>7. NoLostWakeUp' /\ ResultsAreReturned'
  BY DEF NoLostWakeUp, ResultsAreReturned
<1>8. items[e] \in Nat => owed[q] <= items[e]
  BY DEF EntriesFresh
<1>9. FreshAfterInvalidate'
  BY <1>8 DEF FreshAfterInvalidate
<1> QED
  BY <1>2, <1>3, <1>4, <1>5, <1>6, <1>7, <1>9

\* The load waited for is under way.
LEMMA WaitKeeps ==
  ASSUME IInv, NEW q \in Calls, Wait(q)
  PROVE  IInv'
<1> DEFINE e == Found(q)
<1>1. /\ pc[q] = "looking" /\ conn[q] \in Conns
      /\ e \in Calls /\ loading[e] \in Calls
      /\ pc' = [pc EXCEPT ![q] = "waiting"]
      /\ wait' = [wait EXCEPT ![q] = loading[e]]
      /\ UNCHANGED <<truth, entryVars, conn, entry, read, result, history>>
  BY DEF IInv, TypeOK, CallsAreOwed, Wait, Found
<1> HIDE DEF e
<1> USE <1>1 DEF IInv, TypeOK, entryVars, history
<1>2. TypeOK'
  OBVIOUS
<1>3. FloorIsPast' /\ EntriesFresh' /\ YoungIsLoaded'
  BY DEF FloorIsPast, EntriesFresh, YoungIsLoaded
<1>4. CallsAreOwed' /\ ReadsFresh' /\ LoadsFresh'
  BY DEF CallsAreOwed, ReadsFresh, LoadsFresh
<1>5. UnmadeEntries' /\ EntriesArePrivate'
  BY DEF UnmadeEntries, EntriesArePrivate
<1>6. LoadingIsReal' /\ OneLoadPerEntry'
  BY DEF LoadingIsReal, OneLoadPerEntry
<1>7. pc[loading[e]] = "loading"
  BY DEF LoadingIsReal
<1>8. NoLostWakeUp'
  BY <1>7 DEF NoLostWakeUp
<1>9. ResultsAreReturned' /\ FreshAfterInvalidate'
  BY DEF ResultsAreReturned, FreshAfterInvalidate
<1> QED
  BY <1>2, <1>3, <1>4, <1>5, <1>6, <1>8, <1>9

LEMMA WakeUpKeeps ==
  ASSUME IInv, NEW q \in Calls, WakeUp(q)
  PROVE  IInv'
<1> USE DEF IInv, TypeOK, WakeUp, entryVars, history
<1>1. TypeOK'
  OBVIOUS
<1>2. FloorIsPast' /\ EntriesFresh' /\ YoungIsLoaded'
  BY DEF FloorIsPast, EntriesFresh, YoungIsLoaded
<1>3. CallsAreOwed' /\ ReadsFresh' /\ LoadsFresh'
  BY DEF CallsAreOwed, ReadsFresh, LoadsFresh
<1>4. UnmadeEntries' /\ EntriesArePrivate'
  BY DEF UnmadeEntries, EntriesArePrivate
<1>5. LoadingIsReal' /\ OneLoadPerEntry' /\ NoLostWakeUp'
  BY DEF LoadingIsReal, OneLoadPerEntry, NoLostWakeUp
<1>6. ResultsAreReturned' /\ FreshAfterInvalidate'
  BY DEF ResultsAreReturned, FreshAfterInvalidate
<1> QED
  BY <1>1, <1>2, <1>3, <1>4, <1>5, <1>6

LEMMA GiveUpKeeps ==
  ASSUME IInv, NEW q \in Calls, GiveUp(q)
  PROVE  IInv'
<1> USE DEF IInv, TypeOK, GiveUp, Return, entryVars, history
<1>1. TypeOK'
  BY DEF Reading
<1>2. FloorIsPast' /\ EntriesFresh' /\ YoungIsLoaded'
  BY DEF FloorIsPast, EntriesFresh, YoungIsLoaded
<1>3. CallsAreOwed' /\ ReadsFresh' /\ LoadsFresh'
  BY DEF CallsAreOwed, ReadsFresh, LoadsFresh
<1>4. UnmadeEntries' /\ EntriesArePrivate'
  BY DEF UnmadeEntries, EntriesArePrivate
<1>5. LoadingIsReal' /\ OneLoadPerEntry' /\ NoLostWakeUp'
  BY DEF LoadingIsReal, OneLoadPerEntry, NoLostWakeUp
<1>6. ResultsAreReturned'
  BY DEF ResultsAreReturned
<1>7. FreshAfterInvalidate'
  BY ConstantsAssumption DEF FreshAfterInvalidate
<1> QED
  BY <1>1, <1>2, <1>3, <1>4, <1>5, <1>6, <1>7

\* The entry loaded is one nobody else loads, and it serves no other
\* connection: it is new, or the one of this connection.
LEMMA BeginLoadKeeps ==
  ASSUME IInv, NEW q \in Calls, BeginLoad(q)
  PROVE  IInv'
<1> DEFINE e == IF Found(q) = None THEN q ELSE Found(q)
           c == conn[q]
<1>1. /\ pc[q] = "looking" /\ c \in Conns /\ e \in Calls /\ owed[q] <= floor[c]
      /\ \/ snapshots[c] = None /\ e = q
         \/ snapshots[c] = e /\ loading[e] = None
      /\ snapshots' = [snapshots EXCEPT ![c] = e]
      /\ loading' = [loading EXCEPT ![e] = q]
      /\ entry' = [entry EXCEPT ![q] = e]
      /\ pc' = [pc EXCEPT ![q] = "loading"]
      /\ UNCHANGED <<truth, young, items, conn, wait, read, result, history>>
  BY DEF IInv, TypeOK, CallsAreOwed, BeginLoad, Found, Misses
<1>2. c = conn[q]
  OBVIOUS
<1> HIDE DEF e, c
<1> USE <1>1, <1>2 DEF IInv, TypeOK, history
<1>3. \A p \in Calls : pc[p] = "loading" => entry[p] # e
  BY ConstantsAssumption DEF UnmadeEntries, OneLoadPerEntry
<1>4. \A d \in Conns : snapshots[d] = e => d = c
  BY ConstantsAssumption DEF UnmadeEntries, EntriesArePrivate
<1>5. read[q] = None /\ items[q] = None
  BY DEF UnmadeEntries
<1>6. TypeOK'
  OBVIOUS
<1>7. FloorIsPast' /\ YoungIsLoaded' /\ CallsAreOwed'
  BY DEF FloorIsPast, YoungIsLoaded, CallsAreOwed
<1>8. ReadsFresh'
  BY <1>5, ConstantsAssumption DEF ReadsFresh
<1>9. LoadsFresh'
  BY <1>3, <1>5, ConstantsAssumption DEF LoadsFresh
<1>10. EntriesFresh'
  BY <1>5, ConstantsAssumption DEF EntriesFresh
<1>11. UnmadeEntries'
  BY DEF UnmadeEntries
<1>12. EntriesArePrivate'
  BY <1>3, <1>4 DEF EntriesArePrivate
<1>13. LoadingIsReal'
  BY <1>3 DEF LoadingIsReal
<1>14. OneLoadPerEntry'
  BY <1>3 DEF OneLoadPerEntry, LoadingIsReal
<1>15. NoLostWakeUp'
  BY DEF NoLostWakeUp
<1>16. ResultsAreReturned' /\ FreshAfterInvalidate'
  BY DEF ResultsAreReturned, FreshAfterInvalidate
<1> QED
  BY <1>6, <1>7, <1>8, <1>9, <1>10, <1>11, <1>12, <1>13, <1>14, <1>15, <1>16

\* What is read now is at least as new as every invalidation so far.
LEMMA ReadRuntimeKeeps ==
  ASSUME IInv, NEW q \in Calls, ReadRuntime(q)
  PROVE  IInv'
<1> DEFINE c == conn[q]
<1>1. PICK value \in {truth[c], Failed} : read' = [read EXCEPT ![q] = value]
  BY DEF ReadRuntime
<1>2. /\ pc[q] = "loading" /\ c \in Conns
      /\ UNCHANGED <<truth, entryVars, pc, conn, entry, wait, result, history>>
  BY DEF ReadRuntime, IInv, CallsAreOwed
<1>3. value \in Reading /\ (value \in Nat => value = truth[c])
  BY <1>2, ConstantsAssumption DEF IInv, TypeOK, Reading
<1>4. owed[q] <= floor[c] /\ floor[c] <= truth[c]
  BY <1>2 DEF IInv, CallsAreOwed, FloorIsPast
<1> USE <1>1, <1>2 DEF IInv, TypeOK, entryVars, history
<1>5. TypeOK'
  BY <1>3
<1>6. FloorIsPast' /\ EntriesFresh' /\ YoungIsLoaded' /\ CallsAreOwed'
  BY DEF FloorIsPast, EntriesFresh, YoungIsLoaded, CallsAreOwed
<1>7. ReadsFresh'
  BY <1>3, <1>4 DEF ReadsFresh
<1>8. LoadsFresh'
  BY <1>3, <1>4 DEF LoadsFresh
<1>9. UnmadeEntries' /\ EntriesArePrivate'
  BY DEF UnmadeEntries, EntriesArePrivate
<1>10. LoadingIsReal' /\ OneLoadPerEntry' /\ NoLostWakeUp'
  BY DEF LoadingIsReal, OneLoadPerEntry, NoLostWakeUp
<1>11. ResultsAreReturned' /\ FreshAfterInvalidate'
  BY DEF ResultsAreReturned, FreshAfterInvalidate
<1> QED
  BY <1>5, <1>6, <1>7, <1>8, <1>9, <1>10, <1>11

\* The entry is in the map of its own connection, or nowhere.
LEMMA FinishLoadKeeps ==
  ASSUME IInv, NEW q \in Calls, FinishLoad(q)
  PROVE  IInv'
<1> DEFINE e == entry[q]
           c == conn[q]
<1>1. /\ pc[q] = "loading" /\ c \in Conns /\ e \in Calls /\ read[q] # None
      /\ loading[e] = q
      /\ items' = [items EXCEPT ![e] = read[q]]
      /\ young' = [young EXCEPT ![e] = TRUE]
      /\ loading' = [loading EXCEPT ![e] = None]
      /\ done' = done \cup {q}
      /\ pc' = [pc EXCEPT ![q] = "returned"]
      /\ result' = [result EXCEPT ![q] = read[q]]
      /\ UNCHANGED <<truth, snapshots, conn, entry, wait, read, floor, owed>>
  BY DEF FinishLoad, StoredIn, Woken, Return, IInv, CallsAreOwed, LoadingIsReal,
         OneLoadPerEntry
<1>2. e = entry[q] /\ c = conn[q]
  OBVIOUS
<1>3. read[q] \in Nat => owed[q] <= read[q] /\ read[q] <= truth[c]
  BY <1>1 DEF IInv, ReadsFresh
<1>4. \A d \in Conns : snapshots[d] = e /\ read[q] \in Nat =>
        floor[d] <= read[q] /\ read[q] <= truth[d]
  BY <1>1, <1>3 DEF IInv, EntriesArePrivate, LoadsFresh
<1> HIDE DEF e, c
<1> USE <1>1, <1>2 DEF IInv, TypeOK
<1>5. TypeOK'
  OBVIOUS
<1>6. FloorIsPast' /\ CallsAreOwed' /\ ReadsFresh' /\ LoadsFresh'
  BY DEF FloorIsPast, CallsAreOwed, ReadsFresh, LoadsFresh
<1>7. EntriesFresh'
  BY <1>4 DEF EntriesFresh
<1>8. UnmadeEntries' /\ EntriesArePrivate'
  BY DEF UnmadeEntries, EntriesArePrivate
<1>9. LoadingIsReal' /\ OneLoadPerEntry'
  BY ConstantsAssumption DEF LoadingIsReal, OneLoadPerEntry
<1>10. NoLostWakeUp'
  BY DEF NoLostWakeUp
<1>11. YoungIsLoaded' /\ ResultsAreReturned'
  BY DEF YoungIsLoaded, ResultsAreReturned
<1>12. FreshAfterInvalidate'
  BY <1>3 DEF FreshAfterInvalidate
<1> QED
  BY <1>5, <1>6, <1>7, <1>8, <1>9, <1>10, <1>11, <1>12

-----------------------------------------------------------------------------
(* Steps of the world around *)

LEMMA ChangeKeeps ==
  ASSUME IInv, NEW c \in Conns, Change(c)
  PROVE  IInv'
<1>1. /\ truth' = [truth EXCEPT ![c] = @ + 1]
      /\ UNCHANGED <<entryVars, callVars, history>>
  BY DEF Change
<1>2. \A d \in Conns : truth[d] \in Nat /\ truth'[d] \in Nat /\ truth[d] <= truth'[d]
  BY <1>1 DEF IInv, TypeOK
<1> USE <1>1 DEF IInv, TypeOK, entryVars, callVars, history
<1>3. TypeOK'
  BY <1>2
<1>4. FloorIsPast' /\ CallsAreOwed'
  BY <1>2 DEF FloorIsPast, CallsAreOwed
<1>5. ReadsFresh' /\ LoadsFresh'
  BY <1>2 DEF ReadsFresh, LoadsFresh, CallsAreOwed
<1>6. EntriesFresh' /\ YoungIsLoaded'
  BY <1>2 DEF EntriesFresh, YoungIsLoaded
<1>7. UnmadeEntries' /\ EntriesArePrivate'
  BY DEF UnmadeEntries, EntriesArePrivate
<1>8. LoadingIsReal' /\ OneLoadPerEntry' /\ NoLostWakeUp'
  BY DEF LoadingIsReal, OneLoadPerEntry, NoLostWakeUp
<1>9. ResultsAreReturned' /\ FreshAfterInvalidate'
  BY DEF ResultsAreReturned, FreshAfterInvalidate
<1> QED
  BY <1>3, <1>4, <1>5, <1>6, <1>7, <1>8, <1>9

\* The connection has no entry any more, so nothing older than the new floor is
\* left where a later call could find it.
LEMMA InvalidateKeeps ==
  ASSUME IInv, NEW c \in Conns, InvalidateSnapshot(c)
  PROVE  IInv'
<1>1. /\ snapshots' = [snapshots EXCEPT ![c] = None]
      /\ floor' = [floor EXCEPT ![c] = truth[c]]
      /\ UNCHANGED <<truth, loading, young, items, callVars, done, owed>>
  BY DEF InvalidateSnapshot, Forgotten
<1>2. \A d \in Conns : floor'[d] \in Nat /\ floor[d] <= floor'[d] /\ floor'[d] <= truth[d]
  BY <1>1 DEF IInv, TypeOK, FloorIsPast
<1>3. snapshots'[c] = None /\ \A d \in Conns \ {c} :
        snapshots'[d] = snapshots[d] /\ floor'[d] = floor[d]
  BY <1>1 DEF IInv, TypeOK
<1> USE <1>1 DEF IInv, TypeOK, callVars
<1>4. TypeOK'
  OBVIOUS
<1>5. FloorIsPast'
  BY <1>2 DEF FloorIsPast
<1>6. CallsAreOwed'
  <2> SUFFICES ASSUME NEW q \in Calls, pc[q] # "idle"
               PROVE  conn[q] \in Conns /\ owed[q] <= floor'[conn[q]]
    BY DEF CallsAreOwed
  <2>1. conn[q] \in Conns /\ owed[q] <= floor[conn[q]] /\ owed[q] \in Nat
        /\ floor[conn[q]] \in Nat
    BY DEF CallsAreOwed
  <2> QED
    BY <1>2, <2>1
<1>7. ReadsFresh'
  BY DEF ReadsFresh
<1>8. LoadsFresh'
  <2> SUFFICES ASSUME NEW q \in Calls, pc[q] = "loading",
                      snapshots'[conn[q]] = entry[q], read[q] \in Nat
               PROVE  floor'[conn[q]] <= read[q]
    BY DEF LoadsFresh
  <2>1. conn[q] \in Conns /\ entry[q] \in Calls
    BY DEF CallsAreOwed, LoadingIsReal
  <2>2. conn[q] # c
    BY <1>3, <2>1, ConstantsAssumption
  <2> QED
    BY <1>3, <2>1, <2>2 DEF LoadsFresh
<1>9. EntriesFresh'
  BY <1>3, ConstantsAssumption DEF EntriesFresh
<1>10. UnmadeEntries'
  BY ConstantsAssumption DEF UnmadeEntries
<1>11. EntriesArePrivate'
  <2>1. \A d \in Conns : snapshots'[d] # None => d # c /\ snapshots'[d] = snapshots[d]
    BY <1>3
  <2>2. \A q \in Calls : pc[q] = "loading" => entry[q] # None
    BY ConstantsAssumption DEF LoadingIsReal
  <2> QED
    BY <2>1, <2>2 DEF EntriesArePrivate
<1>12. LoadingIsReal' /\ OneLoadPerEntry' /\ NoLostWakeUp'
  BY DEF LoadingIsReal, OneLoadPerEntry, NoLostWakeUp
<1>13. YoungIsLoaded' /\ ResultsAreReturned' /\ FreshAfterInvalidate'
  BY DEF YoungIsLoaded, ResultsAreReturned, FreshAfterInvalidate
<1> QED
  BY <1>4, <1>5, <1>6, <1>7, <1>8, <1>9, <1>10, <1>11, <1>12, <1>13

LEMMA GrowOldKeeps ==
  ASSUME IInv, NEW e \in Calls, GrowOld(e)
  PROVE  IInv'
<1> USE DEF IInv, TypeOK, GrowOld, callVars, history
<1>1. TypeOK'
  OBVIOUS
<1>2. FloorIsPast' /\ EntriesFresh'
  BY DEF FloorIsPast, EntriesFresh
<1>3. YoungIsLoaded'
  BY DEF YoungIsLoaded
<1>4. CallsAreOwed' /\ ReadsFresh' /\ LoadsFresh'
  BY DEF CallsAreOwed, ReadsFresh, LoadsFresh
<1>5. UnmadeEntries' /\ EntriesArePrivate'
  BY DEF UnmadeEntries, EntriesArePrivate
<1>6. LoadingIsReal' /\ OneLoadPerEntry' /\ NoLostWakeUp'
  BY DEF LoadingIsReal, OneLoadPerEntry, NoLostWakeUp
<1>7. ResultsAreReturned' /\ FreshAfterInvalidate'
  BY DEF ResultsAreReturned, FreshAfterInvalidate
<1> QED
  BY <1>1, <1>2, <1>3, <1>4, <1>5, <1>6, <1>7

LEMMA StutterKeeps ==
  ASSUME IInv, UNCHANGED vars
  PROVE  IInv'
<1> USE DEF vars, entryVars, callVars, history
<1>1. TypeOK' /\ FloorIsPast' /\ EntriesFresh' /\ YoungIsLoaded'
  BY DEF IInv, TypeOK, FloorIsPast, EntriesFresh, YoungIsLoaded
<1>2. CallsAreOwed' /\ ReadsFresh' /\ LoadsFresh'
  BY DEF IInv, CallsAreOwed, ReadsFresh, LoadsFresh
<1>3. UnmadeEntries' /\ EntriesArePrivate'
  BY DEF IInv, UnmadeEntries, EntriesArePrivate
<1>4. LoadingIsReal' /\ OneLoadPerEntry' /\ NoLostWakeUp'
  BY DEF IInv, LoadingIsReal, OneLoadPerEntry, NoLostWakeUp
<1>5. ResultsAreReturned' /\ FreshAfterInvalidate'
  BY DEF IInv, ResultsAreReturned, FreshAfterInvalidate
<1> QED
  BY <1>1, <1>2, <1>3, <1>4, <1>5 DEF IInv

LEMMA NextIInv == IInv /\ [Next]_vars => IInv'
<1> SUFFICES ASSUME IInv, [Next]_vars PROVE IInv'
  OBVIOUS
<1>1. ASSUME NEW q \in Calls, Snapshot(q) PROVE IInv'
  BY <1>1, HitKeeps, WaitKeeps, WakeUpKeeps, BeginLoadKeeps, ReadRuntimeKeeps,
     FinishLoadKeeps DEF Snapshot
<1>2. ASSUME NEW q \in Calls, GiveUp(q) \/ GrowOld(q) PROVE IInv'
  BY <1>2, GiveUpKeeps, GrowOldKeeps
<1>3. ASSUME NEW c \in Conns, Change(c) \/ InvalidateSnapshot(c) PROVE IInv'
  BY <1>3, ChangeKeeps, InvalidateKeeps
<1>4. ASSUME NEW q \in Calls, NEW c \in Conns, Call(q, c) PROVE IInv'
  BY <1>4, CallKeeps
<1>5. CASE UNCHANGED vars
  BY <1>5, StutterKeeps
<1> QED
  BY <1>1, <1>2, <1>3, <1>4, <1>5 DEF Next

-----------------------------------------------------------------------------
LEMMA AlwaysIInv == Spec => []IInv
BY InitIInv, NextIInv, PTL DEF Spec

\* The cache's state keeps its types, whatever calls and invalidations overlap.
THEOREM TypeCorrect == Spec => []TypeOK
<1>1. IInv => TypeOK
  BY DEF IInv
<1> QED
  BY <1>1, AlwaysIInv, PTL

\* A call never returns what was read before an invalidation that the call came
\* after, although an older load may still complete (manager.go:97-103, 110).
THEOREM InvalidationsAreSeen == Spec => []FreshAfterInvalidate
<1>1. IInv => FreshAfterInvalidate
  BY DEF IInv
<1> QED
  BY <1>1, AlwaysIInv, PTL

\* No entry is ever loaded twice at a time (manager.go:68-83).
THEOREM LoadsAreCoalesced == Spec => []OneLoadPerEntry
<1>1. IInv => OneLoadPerEntry
  BY DEF IInv
<1> QED
  BY <1>1, AlwaysIInv, PTL

\* Who waits is woken by a load that is under way or has ended
\* (manager.go:69-76, 102).
THEOREM WaitersAreWoken == Spec => []NoLostWakeUp
<1>1. IInv => NoLostWakeUp
  BY DEF IInv
<1> QED
  BY <1>1, AlwaysIInv, PTL

-----------------------------------------------------------------------------
(* Refinement *)

\* What CachedReads sees of the calls.
AskedOf == [q \in Calls |-> IF pc[q] = "idle" THEN [conn |-> None, least |-> 0]
                            ELSE [conn |-> conn[q], least |-> owed[q]]]
AnswerOf == [q \in Calls |-> IF pc[q] = "returned" THEN result[q] ELSE None]

\* A step that neither begins nor ends a call is invisible.
LEMMA InternalStep ==
  ASSUME IInv, NEW q \in Calls, NEW place \in {"looking", "waiting", "loading"},
         pc[q] \in {"looking", "waiting", "loading"},
         pc' = [pc EXCEPT ![q] = place],
         UNCHANGED <<truth, floor, conn, owed, result>>
  PROVE  UNCHANGED Promise!vars
<1>1. \A p \in Calls : (pc'[p] = "idle" <=> pc[p] = "idle")
                      /\ (pc'[p] = "returned" <=> pc[p] = "returned")
  BY DEF IInv, TypeOK
<1> QED
  BY <1>1 DEF Promise!vars

\* A call that returns gives an answer the promise allows.
LEMMA ReturnStep ==
  ASSUME IInv, NEW q \in Calls, NEW value,
         pc[q] \in {"looking", "waiting", "loading"},
         Return(q, value),
         value = Failed \/ value \in owed[q] .. truth[conn[q]],
         UNCHANGED <<truth, floor, conn, owed>>
  PROVE  Promise!Answer(q)
<1>1. /\ pc' = [pc EXCEPT ![q] = "returned"]
      /\ result' = [result EXCEPT ![q] = value]
      /\ conn[q] \in Conns /\ conn[q] # None
  BY ConstantsAssumption DEF Return, IInv, CallsAreOwed
<1>2. AskedOf' = AskedOf
  BY <1>1 DEF AskedOf, IInv, TypeOK
<1>3. AskedOf[q] = [conn |-> conn[q], least |-> owed[q]] /\ AnswerOf[q] = None
  BY DEF AskedOf, AnswerOf
<1>4. AnswerOf' = [AnswerOf EXCEPT ![q] = value]
  BY <1>1 DEF AnswerOf, IInv, TypeOK
<1>5. AskedOf[q] # [conn |-> None, least |-> 0]
  BY <1>1, <1>3
<1> QED
  BY <1>1, <1>2, <1>3, <1>4, <1>5
     DEF Promise!Answer, Promise!Nothing, AskedOf, AnswerOf

LEMMA StepKeepsPromise ==
  ASSUME IInv, [Next]_vars
  PROVE  [Promise!Next]_(Promise!vars)
<1>1. ASSUME NEW q \in Calls, Hit(q) PROVE Promise!Answer(q)
  <2> DEFINE e == Found(q)
  <2>1. /\ pc[q] = "looking" /\ conn[q] \in Conns /\ e \in Calls
        /\ e = snapshots[conn[q]] /\ young[e]
        /\ Return(q, items[e]) /\ UNCHANGED <<truth, floor, conn, owed>>
    BY <1>1 DEF Hit, Answers, Found, history, IInv, TypeOK, CallsAreOwed
  <2>2. items[e] \in Nat \cup {Failed}
    BY <2>1 DEF IInv, TypeOK, Reading, YoungIsLoaded
  <2>3. items[e] \in Nat => items[e] \in owed[q] .. truth[conn[q]]
    BY <2>1 DEF IInv, TypeOK, CallsAreOwed, EntriesFresh
  <2> QED
    BY <2>1, <2>2, <2>3, ReturnStep
<1>2. ASSUME NEW q \in Calls, FinishLoad(q) PROVE Promise!Answer(q)
  <2>1. /\ pc[q] = "loading" /\ conn[q] \in Conns /\ read[q] # None
        /\ Return(q, read[q]) /\ UNCHANGED <<truth, floor, conn, owed>>
    BY <1>2 DEF FinishLoad, IInv, CallsAreOwed
  <2>2. read[q] \in Nat \cup {Failed}
    BY <2>1 DEF IInv, TypeOK, Reading
  <2>3. read[q] \in Nat => read[q] \in owed[q] .. truth[conn[q]]
    BY <2>1 DEF IInv, TypeOK, ReadsFresh
  <2> QED
    BY <2>1, <2>2, <2>3, ReturnStep
<1>3. ASSUME NEW q \in Calls, GiveUp(q) PROVE Promise!Answer(q)
  BY <1>3, ReturnStep DEF GiveUp, history
<1>4. ASSUME NEW q \in Calls, Wait(q) \/ WakeUp(q) \/ BeginLoad(q)
      PROVE  UNCHANGED Promise!vars
  BY <1>4, InternalStep DEF Wait, WakeUp, BeginLoad, history
<1>5. ASSUME NEW q \in Calls, ReadRuntime(q) \/ GrowOld(q)
      PROVE  UNCHANGED Promise!vars
  BY <1>5 DEF ReadRuntime, GrowOld, callVars, history, Promise!vars
<1>6. ASSUME NEW q \in Calls, NEW c \in Conns, Call(q, c) PROVE Promise!Ask(q, c)
  <2>1. /\ pc[q] = "idle" /\ pc' = [pc EXCEPT ![q] = "looking"]
        /\ conn' = [conn EXCEPT ![q] = c] /\ owed' = [owed EXCEPT ![q] = floor[c]]
        /\ UNCHANGED <<truth, result, floor>>
    BY <1>6 DEF Call
  <2>2. AskedOf[q] = [conn |-> None, least |-> 0]
    BY <2>1 DEF AskedOf
  <2>3. AskedOf' = [AskedOf EXCEPT ![q] = [conn |-> c, least |-> floor[c]]]
    BY <2>1 DEF AskedOf, IInv, TypeOK
  <2>4. AnswerOf' = AnswerOf
    BY <2>1 DEF AnswerOf, IInv, TypeOK
  <2> QED
    BY <2>1, <2>2, <2>3, <2>4 DEF Promise!Ask, Promise!Nothing, AskedOf, AnswerOf
<1>7. ASSUME NEW c \in Conns, Change(c) PROVE Promise!Change(c)
  BY <1>7 DEF Change, callVars, history, Promise!Change
<1>8. ASSUME NEW c \in Conns, InvalidateSnapshot(c) PROVE Promise!Invalidate(c)
  BY <1>8 DEF InvalidateSnapshot, callVars, Promise!Invalidate
<1>9. CASE UNCHANGED vars
  BY <1>9 DEF vars, callVars, history, Promise!vars
<1> QED
  BY <1>1, <1>2, <1>3, <1>4, <1>5, <1>6, <1>7, <1>8, <1>9
     DEF Next, Snapshot, Promise!Next

\* The cache keeps the promise of CachedReads: to its callers it is a reading
\* that an invalidation brings up to date at once (manager.go:56-112).
THEOREM ImplementsCachedReads == Spec => KeepsPromise
<1>1. Init => Promise!Init
  BY DEF Init, Promise!Init, Promise!Nothing
<1> QED
  BY <1>1, StepKeepsPromise, AlwaysIInv, PTL DEF Spec, Promise!Spec, KeepsPromise
=============================================================================
