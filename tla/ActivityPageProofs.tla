------------------------- MODULE ActivityPageProofs -------------------------
(***************************************************************************)
(* Theorems about ActivityPage, for every set of targets and any bounds:   *)
(* however streams are replaced, interrupted, reopened and left, and       *)
(* whenever the login form comes up.                                       *)
(*                                                                         *)
(* NothingLeftBehind speaks of open sources and armed timers.  A listener  *)
(* that awaits its answer may arm one later, so it has to be known of it,  *)
(* too, that it belongs to a target of the stream if its stream is still   *)
(* the one shown (WatchersAreTargets).  IInv is inductive.                 *)
(*                                                                         *)
(* The properties of the buffer need BufferInv: the filter, the absence of *)
(* repeats and the form of the entries together (Buffered), and of the     *)
(* sources that none is ahead of the log (SourceType).  A record that the  *)
(* filter lets through is new because the filter knows the buffer, and the *)
(* filter goes on knowing it after an eviction because no entry that stays *)
(* has a key of one that goes; so neither property is inductive without    *)
(* the other.                                                              *)
(***************************************************************************)
EXTENDS ActivityPage, TLAPS, FiniteSetTheorems, SequenceTheorems, LeastElement

\* The part of the state the theorem is about has its types.
PageType ==
  /\ started \in 0..MaxStreams /\ stream \in {0, started}
  /\ status \in [1..MaxStreams -> [Targets -> States]]

\* A stream belongs to the page that is shown, unless another was drawn over it.
StreamIsShown ==
  stream # 0 => screen # "login" /\ (screen = "activity" \/ overdrawn)

\* Whatever may still open a source of the stream is one of its targets.
WatchersAreTargets ==
  \A t \in Targets :
    stream # 0 /\ status[stream][t] \notin {"none", "closed"} => t \in targets

IInv == PageType /\ StreamIsShown /\ WatchersAreTargets /\ NothingLeftBehind

-----------------------------------------------------------------------------
\* The initial state satisfies the invariant.
LEMMA InitIInv == ASSUME Init PROVE IInv
BY PageAssumption
   DEF Init, IInv, PageType, States, StreamIsShown, WatchersAreTargets, NothingLeftBehind, Open

\* Once stopActivityStream has run, no stream has a source or a timer.
LEMMA Stopped ==
  ASSUME IInv
  PROVE  /\ StopStatus \in [1..MaxStreams -> [Targets -> States]]
         /\ \A s \in 1..MaxStreams, t \in Targets :
              StopStatus[s][t] \notin Open \cup {"waiting"}
<1>1. CASE stream = 0
  BY <1>1 DEF StopStatus, IInv, PageType, NothingLeftBehind
<1>2. CASE stream # 0
  <2>1. stream \in 1..MaxStreams
    BY <1>2, PageAssumption DEF IInv, PageType
  <2> DEFINE row == [t \in Targets |-> IF status[stream][t] = "checking"
                                       THEN status[stream][t] ELSE "closed"]
  <2>2. StopStatus = [status EXCEPT ![stream] = row]
    BY <1>2 DEF StopStatus
  <2>3. row \in [Targets -> States]
    BY DEF States
  <2>4. \A t \in Targets : row[t] \notin Open \cup {"waiting"}
    BY DEF Open
  <2> HIDE DEF row
  <2>5. StopStatus \in [1..MaxStreams -> [Targets -> States]]
    BY <2>2, <2>3 DEF IInv, PageType
  <2>6. ASSUME NEW s \in 1..MaxStreams, NEW t \in Targets
        PROVE  StopStatus[s][t] \notin Open \cup {"waiting"}
    <3>1. CASE s = stream
      BY <2>1, <2>2, <2>4, <3>1 DEF IInv, PageType
    <3>2. CASE s # stream
      BY <2>2, <3>2 DEF IInv, PageType, NothingLeftBehind
    <3> QED
      BY <3>1, <3>2
  <2> QED
    BY <2>5, <2>6
<1> QED
  BY <1>1, <1>2

\* Leaving for a page without a stream, or for the login form.
LEMMA StopSteps ==
  ASSUME IInv, stream' = 0, status' = StopStatus, UNCHANGED started
  PROVE  IInv'
BY Stopped DEF IInv, PageType, StreamIsShown, WatchersAreTargets, NothingLeftBehind

\* Starting a stream.
LEMMA StartSteps ==
  ASSUME IInv, NEW requested, NEW retained, NEW liveOnly,
         StartStream(requested, retained, liveOnly),
         screen' = "activity"
  PROVE  IInv'
<1> DEFINE row == [t \in Targets |-> IF t \in requested THEN "connecting" ELSE "none"]
<1>1. /\ started' = started + 1 /\ stream' = started + 1 /\ targets' = requested
      /\ started + 1 \in 1..MaxStreams
      /\ status' = [StopStatus EXCEPT ![started + 1] = row]
  BY PageAssumption DEF StartStream, IInv, PageType
<1>2. row \in [Targets -> States]
  BY DEF States
<1>3. \A t \in Targets : row[t] \notin {"none", "closed"} => t \in requested
  OBVIOUS
<1>4. \A t \in Targets : row[t] \in Open \cup {"waiting"} => t \in requested
  BY DEF Open
<1> HIDE DEF row
<1>5. status' \in [1..MaxStreams -> [Targets -> States]]
  BY <1>1, <1>2, Stopped
<1>6. status'[started + 1] = row
  BY <1>1, Stopped
<1>7. \A s \in 1..MaxStreams : s # started + 1 => status'[s] = StopStatus[s]
  BY <1>1, Stopped
<1>8. PageType'
  BY <1>1, <1>5, PageAssumption DEF IInv, PageType
<1>9. WatchersAreTargets'
  BY <1>1, <1>3, <1>6 DEF WatchersAreTargets
<1>10. NothingLeftBehind'
  BY <1>1, <1>4, <1>6, <1>7, Stopped DEF NothingLeftBehind
<1> QED
  BY <1>8, <1>9, <1>10 DEF IInv, StreamIsShown

\* A listener or a timer of target t of stream s.
LEMMA SourceSteps ==
  ASSUME IInv, NEW s \in 1..MaxStreams, NEW t \in Targets, NEW state \in States,
         SetStatus(s, t, state),
         state \in Open \cup {"waiting"} => s = stream,
         s = stream /\ state \notin {"none", "closed"}
           => status[s][t] \notin {"none", "closed"},
         UNCHANGED <<screen, overdrawn, stream, started, targets>>
  PROVE  IInv'
<1>1. /\ status'[s][t] = state
      /\ \A r \in 1..MaxStreams, u \in Targets :
           r # s \/ u # t => status'[r][u] = status[r][u]
      /\ status' \in [1..MaxStreams -> [Targets -> States]]
  BY DEF SetStatus, IInv, PageType
<1>2. state \in Open \cup {"waiting"} => state \notin {"none", "closed"}
  BY DEF Open
<1>3. PageType'
  BY <1>1 DEF IInv, PageType
<1>4. stream # 0 => stream \in 1..MaxStreams
  BY PageAssumption DEF IInv, PageType
<1>5. WatchersAreTargets'
  BY <1>1, <1>4 DEF IInv, WatchersAreTargets
<1>6. ASSUME NEW r \in 1..MaxStreams, NEW u \in Targets,
             status'[r][u] \in Open \cup {"waiting"}
      PROVE  /\ r = stream /\ u \in targets
             /\ screen # "login" /\ (screen = "activity" \/ overdrawn)
  <2>1. CASE r = s /\ u = t
    <3>1. r = stream /\ stream # 0
      BY <1>1, <1>6, <2>1
    <3>2. status[stream][t] \notin {"none", "closed"}
      BY <1>1, <1>2, <1>6, <2>1, <3>1
    <3> QED
      BY <2>1, <3>1, <3>2 DEF IInv, WatchersAreTargets, StreamIsShown
  <2>2. CASE r # s \/ u # t
    BY <1>1, <1>6, <2>2 DEF IInv, NothingLeftBehind
  <2> QED
    BY <2>1, <2>2
<1> QED
  BY <1>3, <1>5, <1>6 DEF IInv, StreamIsShown, NothingLeftBehind

\* An expired session: the stream is stopped, and the listener that found it out
\* is over.
LEMMA SignedOutSteps ==
  ASSUME IInv, NEW s \in 1..MaxStreams, NEW t \in Targets, SignedOut(s, t)
  PROVE  IInv'
<1>1. /\ stream' = 0 /\ started' = started /\ screen' = "login"
      /\ status' = [StopStatus EXCEPT ![s][t] = "closed"]
  BY DEF SignedOut
<1>2. "closed" \in States /\ "closed" \notin Open \cup {"waiting"}
  BY DEF States, Open
<1>3. /\ status' \in [1..MaxStreams -> [Targets -> States]]
      /\ \A r \in 1..MaxStreams, u \in Targets :
           status'[r][u] \notin Open \cup {"waiting"}
  BY <1>1, <1>2, Stopped
<1> QED
  BY <1>1, <1>3 DEF IInv, PageType, StreamIsShown, WatchersAreTargets, NothingLeftBehind

\* Every listener, timer and answer of a source keeps the invariant.
LEMMA SourceActions ==
  ASSUME IInv, NEW t \in Targets,
         OnOpen(t) \/ OnEnd(t) \/ OnError(t) \/ Reopen(t)
  PROVE  IInv'
<1>1. stream # 0 /\ stream \in 1..MaxStreams
  BY PageAssumption DEF OnOpen, OnEnd, OnError, Reopen, IInv, PageType
<1>2. UNCHANGED <<screen, overdrawn, stream, started, targets>>
  BY DEF OnOpen, OnEnd, OnError, Reopen, pageVars, streamVars
<1>3. PICK state \in {"connected", "ended", "checking", "connecting"} :
        SetStatus(stream, t, state)
  BY DEF OnOpen, OnEnd, OnError, Reopen
<1>4. state \in States
  BY DEF States
<1>5. status[stream][t] \notin {"none", "closed"}
  BY DEF OnOpen, OnEnd, OnError, Reopen, Open
<1> QED
  BY <1>1, <1>2, <1>3, <1>4, <1>5, SourceSteps

\* The answer of the session check keeps the invariant.
LEMMA CheckedSteps ==
  ASSUME IInv, NEW s \in 1..MaxStreams, NEW t \in Targets, Checked(s, t)
  PROVE  IInv'
<1> DEFINE state == IF s = stream THEN "waiting" ELSE "closed"
<1>1. state \in States
  BY DEF States
<1>2. state \in Open \cup {"waiting"} => s = stream
  BY DEF Open
<1>3. /\ SetStatus(s, t, state) /\ status[s][t] = "checking"
      /\ UNCHANGED <<screen, overdrawn, stream, started, targets>>
  BY DEF Checked, pageVars, streamVars
<1> HIDE DEF state
<1> QED
  BY <1>1, <1>2, <1>3, SourceSteps

\* Steps that touch neither a stream nor a page.
LEMMA OtherSteps ==
  ASSUME IInv, UNCHANGED <<screen, overdrawn, stream, started, targets, status>>
  PROVE  IInv'
BY DEF IInv, PageType, StreamIsShown, WatchersAreTargets, NothingLeftBehind

\* A render that had waited draws its page over whatever is shown.
LEMMA OverdrawnSteps ==
  ASSUME IInv, screen' = "other", overdrawn' = (stream # 0),
         UNCHANGED <<stream, started, targets, status>>
  PROVE  IInv'
<1>1. PageType' /\ WatchersAreTargets'
  BY DEF IInv, PageType, WatchersAreTargets
<1>2. NothingLeftBehind'
  <2>1. ASSUME NEW s \in 1..MaxStreams, NEW t \in Targets,
               status'[s][t] \in Open \cup {"waiting"}
        PROVE  s = stream /\ stream # 0 /\ t \in targets
    BY <2>1 DEF IInv, NothingLeftBehind
  <2> QED
    BY <2>1 DEF NothingLeftBehind
<1> QED
  BY <1>1, <1>2 DEF IInv, StreamIsShown

-----------------------------------------------------------------------------
\* Every step keeps the invariant.
LEMMA NextIInv == ASSUME IInv, [Next]_vars PROVE IInv'
<1>1. ASSUME NEW t \in Targets, NEW later \in {0, 1}, Produce(t, Now + later)
      PROVE  IInv'
  BY <1>1, OtherSteps DEF Produce, pageVars, streamVars, sourceVars
<1>2. ASSUME NEW requested, OpenActivity(requested) \/ ActivityContinues(requested)
      PROVE  IInv'
  BY <1>2, StartSteps DEF OpenActivity, ActivityContinues
<1>3. ASSUME NEW page, Navigate(page) \/ TokenAccepted(page)
      PROVE  IInv'
  BY <1>3, StopSteps DEF Navigate, TokenAccepted, StopStream
<1>4. CASE Leave \/ Denied \/ TokenRejected
  BY <1>4, StopSteps DEF Leave, Denied, TokenRejected, ShowLogin, StopStream
<1>5. ASSUME NEW page, OtherContinues(page)
      PROVE  IInv'
  BY <1>5, OverdrawnSteps DEF OtherContinues, sourceVars
<1>6. ASSUME NEW page, Ends(page)
      PROVE  IInv'
  BY <1>6, OtherSteps DEF Ends, streamVars, sourceVars
<1>7. CASE DrawAgain \/ SendToken \/ Clear
  BY <1>7, OtherSteps DEF DrawAgain, SendToken, Clear, pageVars, streamVars, sourceVars
<1>8. CASE Reconnect
  BY <1>8, StartSteps DEF Reconnect
<1>9. ASSUME NEW requested, ChangeTail(requested)
      PROVE  IInv'
  BY <1>9, StartSteps DEF ChangeTail
<1>10. ASSUME NEW requested, NEW keep, NEW liveOnly, ChangeScope(requested, keep, liveOnly)
       PROVE  IInv'
  <2>1. /\ screen' = "activity"
        /\ \E order : StartStream(requested, Picked(records, order), liveOnly)
    BY <1>10 DEF ChangeScope
  <2> QED
    BY <2>1, StartSteps
<1>11. ASSUME NEW t \in Targets, OnOpen(t) \/ OnEnd(t) \/ OnError(t) \/ Reopen(t)
       PROVE  IInv'
  BY <1>11, SourceActions
<1>12. ASSUME NEW t \in Targets, NEW i, NEW seq, OnActivity(t, i, seq)
       PROVE  IInv'
  BY <1>12, OtherSteps DEF OnActivity, pageVars, streamVars
<1>13. ASSUME NEW s \in 1..MaxStreams, NEW t \in Targets, Checked(s, t) \/ SignedOut(s, t)
       PROVE  IInv'
  BY <1>13, CheckedSteps, SignedOutSteps
<1>14. CASE UNCHANGED vars
  BY <1>14, OtherSteps DEF vars, pageVars, streamVars, sourceVars
<1> QED
  BY <1>1, <1>2, <1>3, <1>4, <1>5, <1>6, <1>7, <1>8, <1>9, <1>10, <1>11, <1>12, <1>13,
     <1>14 DEF Next

\* The invariant holds in every reachable state.
LEMMA Invariance == Spec => []IInv
<1>1. Init => IInv
  BY InitIInv
<1>2. IInv /\ [Next]_vars => IInv'
  BY NextIInv
<1> QED
  BY <1>1, <1>2, PTL DEF Spec

\* Nothing is left behind: whatever renders wait, a source is open or a timer armed
\* only for a target of the stream that the next navigation or login stops
\* (startActivityStream, stopActivityStream, and the listeners of openActivitySource
\* that outlive their stream), never under the login form, and under another page
\* only if a render that had waited drew it over the activity page (renderRoute).
THEOREM NothingStays == Spec => []NothingLeftBehind
<1>1. IInv => NothingLeftBehind
  BY DEF IInv
<1> QED
  BY <1>1, Invariance, PTL

-----------------------------------------------------------------------------
(* The buffer. *)

\* A record has a key of its own; the key of a notice names its target, its time
\* and the numbers between which records are missing.
RecordKeys == {<<i>> : i \in Nat}
NoticeKeys == {<<t, time, before, seq>> :
                 t \in Targets, time \in Nat, before \in Nat, seq \in Int}

\* An entry of the buffer: lines that were joined, or a notice.
LineEntries   == [keys : Seq(RecordKeys), time : Nat, notice : {FALSE}]
NoticeEntries == [keys : Seq(NoticeKeys), time : Nat, notice : {TRUE}]
Entries       == LineEntries \cup NoticeEntries

\* The two properties of the buffer, of any entries and keys.
Filters(entries, keys) ==
  /\ keys \subseteq KeysOf(entries)
  /\ \A i \in DOMAIN entries : ~entries[i].notice => ToSet(entries[i].keys) \subseteq keys

Distinct(entries) ==
  \A i, j \in DOMAIN entries :
    ~entries[i].notice /\ ~entries[j].notice =>
      \A m \in DOMAIN entries[i].keys, n \in DOMAIN entries[j].keys :
        entries[i].keys[m] = entries[j].keys[n] => i = j /\ m = n

\* A buffer with the keys that count as seen.
Buffered(entries, keys) ==
  entries \in Seq(Entries) /\ Filters(entries, keys) /\ Distinct(entries)

-----------------------------------------------------------------------------
\* No record has the key of a notice.
LEMMA KeysDiffer == RecordKeys \cap NoticeKeys = {}
<1>1. ASSUME NEW i \in Nat, NEW t \in Targets, NEW time \in Nat, NEW before \in Nat,
             NEW seq \in Int
      PROVE  <<i>> # <<t, time, before, seq>>
  <2>1. DOMAIN <<i>> = 1..1 /\ DOMAIN <<t, time, before, seq>> = 1..4
    OBVIOUS
  <2> QED
    BY <2>1
<1> QED
  BY <1>1 DEF RecordKeys, NoticeKeys

\* What an entry is made of.
LEMMA EntryParts ==
  ASSUME NEW e \in Entries
  PROVE  /\ e.notice \in BOOLEAN /\ e.time \in Nat
         /\ ~e.notice => e \in LineEntries /\ e.keys \in Seq(RecordKeys)
         /\ e.notice => e \in NoticeEntries /\ e.keys \in Seq(NoticeKeys)
BY DEF Entries, LineEntries, NoticeEntries

\* The keys of an entry are among those of its sequence, and no others are.
LEMMA KeysAreOfEntries ==
  ASSUME NEW entries, NEW key
  PROVE  key \in KeysOf(entries) <=>
           \E i \in DOMAIN entries : \E m \in DOMAIN entries[i].keys : key = entries[i].keys[m]
BY DEF KeysOf, ToSet

\* A buffer whose own keys are the ones seen filters them.
LEMMA OwnKeysFilter ==
  ASSUME NEW entries
  PROVE  Filters(entries, KeysOf(entries))
BY DEF Filters, KeysOf

\* A sequence of different positions picks entries of the same kind, each at
\* most once.
LEMMA PickedEntries ==
  ASSUME NEW entries \in Seq(Entries), NEW S \in SUBSET DOMAIN entries,
         NEW order \in SetToSeqs(S)
  PROVE  /\ Picked(entries, order) \in Seq(Entries)
         /\ DOMAIN Picked(entries, order) = DOMAIN order
         /\ \A k \in DOMAIN order : order[k] \in S /\ Picked(entries, order)[k] = entries[order[k]]
         /\ \A k, l \in DOMAIN order : order[k] = order[l] => k = l
<1>1. IsFiniteSet(S) /\ Cardinality(S) \in Nat
  <2>1. DOMAIN entries = 1..Len(entries) /\ Len(entries) \in Nat
    OBVIOUS
  <2>2. IsFiniteSet(DOMAIN entries)
    BY <2>1, FS_Interval
  <2>3. IsFiniteSet(S)
    BY <2>2, FS_Subset
  <2> QED
    BY <2>3, FS_CardinalityType
<1>2. order \in [1..Cardinality(S) -> S] /\ \A k, l \in DOMAIN order : order[k] = order[l] => k = l
  BY DEF SetToSeqs
<1>3. \A k \in 1..Cardinality(S) : entries[order[k]] \in Entries
  BY <1>2
<1>4. Picked(entries, order) \in [1..Cardinality(S) -> Entries]
  BY <1>2, <1>3 DEF Picked
<1>5. Picked(entries, order) \in Seq(Entries)
  BY <1>1, <1>4, SeqDef
<1> QED
  BY <1>2, <1>5 DEF Picked

\* What is picked holds no record twice if the entries do not.
LEMMA PickedDistinct ==
  ASSUME NEW entries \in Seq(Entries), Distinct(entries),
         NEW S \in SUBSET DOMAIN entries, NEW order \in SetToSeqs(S)
  PROVE  Distinct(Picked(entries, order))
BY PickedEntries DEF Distinct

\* An order of all positions picks every entry.
LEMMA PickedKeys ==
  ASSUME NEW entries \in Seq(Entries), NEW order \in SetToSeqs(DOMAIN entries)
  PROVE  /\ \A i \in DOMAIN entries : \E k \in DOMAIN order : order[k] = i
         /\ KeysOf(Picked(entries, order)) = KeysOf(entries)
<1>1. DOMAIN entries = 1..Len(entries) /\ Len(entries) \in Nat
  OBVIOUS
<1>2. IsFiniteSet(DOMAIN entries) /\ Cardinality(DOMAIN entries) = Len(entries)
  <2> DEFINE n == Len(entries)
  <2>1. n \in Nat /\ DOMAIN entries = 1..n
    BY <1>1
  <2> HIDE DEF n
  <2>2. IsFiniteSet(1..n) /\ Cardinality(1..n) = IF 1 > n THEN 0 ELSE n - 1 + 1
    BY <2>1, FS_Interval
  <2>3. Cardinality(1..n) = n
    BY <2>1, <2>2
  <2> QED
    BY <2>1, <2>2, <2>3 DEF n
<1>3. order \in Injection(DOMAIN entries, DOMAIN entries)
  BY <1>1, <1>2 DEF SetToSeqs, Injection, IsInjective
<1>4. order \in Surjection(DOMAIN entries, DOMAIN entries)
  BY <1>2, <1>3, FS_Injection
<1>5. \A i \in DOMAIN entries : \E k \in DOMAIN order : order[k] = i
  BY <1>4 DEF Surjection
<1>6. \A k \in DOMAIN order : order[k] \in DOMAIN entries
  BY <1>4 DEF Surjection
<1>7. KeysOf(Picked(entries, order)) = {key \in KeysOf(entries) : TRUE}
  BY <1>5, <1>6, PickedEntries, KeysAreOfEntries
<1> QED
  BY <1>5, <1>7

\* A sorted buffer filters the same keys.
LEMMA SortedBuffer ==
  ASSUME NEW entries, NEW keys, Buffered(entries, keys),
         NEW order \in SetToSeqs(DOMAIN entries)
  PROVE  Buffered(Picked(entries, order), keys)
<1> DEFINE sorted == Picked(entries, order)
<1>1. entries \in Seq(Entries) /\ Filters(entries, keys) /\ Distinct(entries)
  BY DEF Buffered
<1>2. sorted \in Seq(Entries) /\ Distinct(sorted)
  BY <1>1, PickedEntries, PickedDistinct
<1>3. keys \subseteq KeysOf(sorted)
  BY <1>1, PickedKeys DEF Filters
<1>4. \A k \in DOMAIN sorted : ~sorted[k].notice => ToSet(sorted[k].keys) \subseteq keys
  BY <1>1, PickedEntries DEF Filters
<1> QED
  BY <1>2, <1>3, <1>4 DEF Buffered, Filters

\* What is left of a buffer after its first entries.
LEMMA SuffixEntries ==
  ASSUME NEW entries \in Seq(Entries), NEW first \in 1..(Len(entries) + 1)
  PROVE  LET rest == SubSeq(entries, first, Len(entries))
         IN  /\ rest \in Seq(Entries) /\ Len(rest) = Len(entries) - first + 1
             /\ DOMAIN rest = 1..(Len(entries) - first + 1)
             /\ \A k \in DOMAIN rest :
                  k + first - 1 \in DOMAIN entries /\ rest[k] = entries[k + first - 1]
<1> DEFINE rest == SubSeq(entries, first, Len(entries))
<1>1. rest \in Seq(Entries) /\ Len(rest) = Len(entries) - first + 1
  OBVIOUS
<1>2. DOMAIN rest = 1..(Len(entries) - first + 1)
  BY <1>1
<1>3. \A k \in 1..(Len(entries) - first + 1) : rest[k] = entries[k + first - 1]
  OBVIOUS
<1> QED
  BY <1>1, <1>2, <1>3

\* A suffix of a buffer without repeats has none.
LEMMA SuffixDistinct ==
  ASSUME NEW entries \in Seq(Entries), Distinct(entries),
         NEW first \in 1..(Len(entries) + 1)
  PROVE  /\ SubSeq(entries, first, Len(entries)) \in Seq(Entries)
         /\ Distinct(SubSeq(entries, first, Len(entries)))
<1> DEFINE rest == SubSeq(entries, first, Len(entries))
<1>1. /\ rest \in Seq(Entries)
      /\ \A k \in DOMAIN rest : k \in Int /\ k + first - 1 \in DOMAIN entries /\ rest[k] = entries[k + first - 1]
  BY SuffixEntries
<1> HIDE DEF rest
<1>2. SUFFICES ASSUME NEW i \in DOMAIN rest, NEW j \in DOMAIN rest,
                      ~rest[i].notice /\ ~rest[j].notice,
                      NEW m \in DOMAIN rest[i].keys, NEW n \in DOMAIN rest[j].keys,
                      rest[i].keys[m] = rest[j].keys[n]
               PROVE  i = j /\ m = n
  BY <1>1 DEF Distinct, rest
<1>3. i + first - 1 = j + first - 1 /\ m = n
  <2> DEFINE p == i + first - 1
             q == j + first - 1
  <2>1. /\ p \in DOMAIN entries /\ rest[i] = entries[p]
        /\ q \in DOMAIN entries /\ rest[j] = entries[q]
    BY <1>1
  <2> HIDE DEF p, q
  <2>2. /\ ~entries[p].notice /\ m \in DOMAIN entries[p].keys
        /\ ~entries[q].notice /\ n \in DOMAIN entries[q].keys
        /\ entries[p].keys[m] = entries[q].keys[n]
    BY <1>2, <2>1
  <2>3. p = q /\ m = n
    BY <2>1, <2>2 DEF Distinct
  <2> QED
    BY <2>3 DEF p, q
<1> QED
  BY <1>1, <1>3

\* trimActivityBuffer leaves a buffer whose keys are the ones that count as
\* seen: no entry that stays has a key of one that goes.
LEMMA TrimmedBuffer ==
  ASSUME NEW entries, NEW keys, Buffered(entries, keys)
  PROVE  Buffered(Trimmed(entries, keys)[1], Trimmed(entries, keys)[2])
<1>1. CASE Len(entries) <= BufferSize
  BY <1>1 DEF Trimmed
<1>2. CASE ~(Len(entries) <= BufferSize)
  <2> DEFINE rest == SubSeq(entries, Evicted + 1, Len(entries))
             gone == SubSeq(entries, 1, Evicted)
             left == keys \ KeysOf(gone)
  <2>1. entries \in Seq(Entries) /\ Filters(entries, keys) /\ Distinct(entries)
    BY DEF Buffered
  <2>2. Len(entries) \in Nat /\ DOMAIN entries = 1..Len(entries) /\ Evicted \in 1..Len(entries)
    BY <1>2, <2>1, PageAssumption
  <2>3. /\ rest \in Seq(Entries)
        /\ DOMAIN rest = 1..(Len(entries) - Evicted)
        /\ \A k \in DOMAIN rest : k + Evicted \in DOMAIN entries /\ rest[k] = entries[k + Evicted]
    BY <2>1, <2>2, SuffixEntries
  <2>4. /\ DOMAIN gone = 1..Evicted
        /\ \A k \in DOMAIN gone : k \in DOMAIN entries /\ gone[k] = entries[k]
    BY <2>1, <2>2
  <2>5. Distinct(rest)
    BY <2>1, <2>2, SuffixDistinct
  <2> HIDE DEF rest, gone
  <2>6. left \subseteq KeysOf(rest)
    <3>1. SUFFICES ASSUME NEW key \in left PROVE key \in KeysOf(rest)
      OBVIOUS
    <3>2. PICK i \in DOMAIN entries : \E m \in DOMAIN entries[i].keys : key = entries[i].keys[m]
      BY <2>1, KeysAreOfEntries DEF Filters
    <3>3. i \notin DOMAIN gone
      BY <2>4, <3>2, KeysAreOfEntries
    <3>4. i - Evicted \in DOMAIN rest /\ (i - Evicted) + Evicted = i
      BY <2>2, <2>3, <2>4, <3>3
    <3>5. rest[i - Evicted] = entries[i]
      BY <2>3, <3>4
    <3> QED
      BY <3>2, <3>4, <3>5, KeysAreOfEntries
  <2>7. ASSUME NEW k \in DOMAIN rest, ~rest[k].notice
        PROVE  ToSet(rest[k].keys) \subseteq left
    <3>1. SUFFICES ASSUME NEW m \in DOMAIN rest[k].keys,
                          rest[k].keys[m] \in KeysOf(gone)
                   PROVE  FALSE
      BY <2>1, <2>3, <2>7 DEF Filters, ToSet
    <3>2. PICK g \in DOMAIN gone : \E n \in DOMAIN gone[g].keys :
                                     rest[k].keys[m] = gone[g].keys[n]
      BY <3>1, KeysAreOfEntries
    <3>3. PICK n \in DOMAIN gone[g].keys : rest[k].keys[m] = gone[g].keys[n]
      BY <3>2
    <3>4. gone[g] \in Entries /\ rest[k] \in Entries
      BY <2>1, <2>2, <2>3, <2>4
    <3>5. rest[k].keys[m] \in RecordKeys
      BY <2>7, <3>4, EntryParts
    <3>6. ~gone[g].notice
      BY <3>3, <3>4, <3>5, EntryParts, KeysDiffer
    <3>7. g = k + Evicted
      BY <2>1, <2>3, <2>4, <2>7, <3>3, <3>6 DEF Distinct
    <3> QED
      BY <2>2, <2>3, <2>4, <3>7
  <2>8. Trimmed(entries, keys) = <<rest, left>>
    BY <1>2 DEF Trimmed, rest, gone
  <2> QED
    BY <2>3, <2>5, <2>6, <2>7, <2>8 DEF Buffered, Filters
<1> QED
  BY <1>1, <1>2

\* A notice joins the buffer, and its key is seen.
LEMMA NoticeBuffer ==
  ASSUME NEW entries, NEW keys, Buffered(entries, keys), NEW n \in NoticeEntries
  PROVE  Buffered(Append(entries, n), keys \cup KeysOf(<<n>>))
<1> DEFINE more == Append(entries, n)
<1>1. entries \in Seq(Entries) /\ Filters(entries, keys) /\ Distinct(entries)
  BY DEF Buffered
<1>2. n \in Entries /\ n.notice
  BY DEF Entries, NoticeEntries
<1>3. /\ more \in Seq(Entries) /\ Len(entries) \in Nat
      /\ DOMAIN entries = 1..Len(entries) /\ DOMAIN more = 1..(Len(entries) + 1)
      /\ \A i \in DOMAIN entries : i \in DOMAIN more /\ more[i] = entries[i]
      /\ more[Len(entries) + 1] = n
  BY <1>1, <1>2
<1> HIDE DEF more
<1>4. keys \cup KeysOf(<<n>>) \subseteq KeysOf(more)
  <2>1. keys \subseteq KeysOf(more)
    BY <1>1, <1>3, KeysAreOfEntries DEF Filters
  <2>2. DOMAIN <<n>> = {1} /\ <<n>>[1] = n /\ Len(entries) + 1 \in DOMAIN more
    BY <1>3
  <2>3. KeysOf(<<n>>) \subseteq KeysOf(more)
    BY <1>3, <2>2, KeysAreOfEntries
  <2> QED
    BY <2>1, <2>3
<1>5. \A i \in DOMAIN more : ~more[i].notice => i \in DOMAIN entries /\ more[i] = entries[i]
  BY <1>2, <1>3
<1>6. Filters(more, keys \cup KeysOf(<<n>>))
  BY <1>1, <1>4, <1>5 DEF Filters
<1>7. Distinct(more)
  BY <1>1, <1>5 DEF Distinct
<1> QED
  BY <1>3, <1>6, <1>7 DEF Buffered, more

\* An entry after a line has joined it.
Joined(old, key) == [old EXCEPT !.keys = Append(@, key)]

\* A line that joins an entry brings its key.
LEMMA JoinedEntry ==
  ASSUME NEW old \in LineEntries, NEW key \in RecordKeys,
         NEW joined, joined = Joined(old, key)
  PROVE  /\ joined \in LineEntries /\ ~joined.notice
         /\ DOMAIN old.keys \subseteq DOMAIN joined.keys
         /\ \A m \in DOMAIN old.keys : joined.keys[m] = old.keys[m]
         /\ \E n \in DOMAIN joined.keys :
              /\ joined.keys[n] = key
              /\ \A m \in DOMAIN joined.keys : m = n \/ m \in DOMAIN old.keys
<1>1. old.keys \in Seq(RecordKeys)
  BY DEF LineEntries
<1>2. Append(old.keys, key) \in Seq(RecordKeys)
  BY <1>1
<1>3. joined.keys = Append(old.keys, key) /\ joined.notice = old.notice
  BY DEF Joined, LineEntries
<1>4. joined \in LineEntries /\ ~joined.notice
  BY <1>2 DEF Joined, LineEntries
<1>5. /\ Len(old.keys) \in Nat /\ DOMAIN old.keys = 1..Len(old.keys)
      /\ DOMAIN joined.keys = 1..(Len(old.keys) + 1)
  BY <1>1, <1>3
<1>6. /\ joined.keys[Len(old.keys) + 1] = key
      /\ \A m \in DOMAIN old.keys : joined.keys[m] = old.keys[m]
  BY <1>1, <1>3
<1>7. Len(old.keys) + 1 \in DOMAIN joined.keys
  BY <1>5
<1>8. DOMAIN old.keys \subseteq DOMAIN joined.keys
  BY <1>5
<1>9. \A m \in DOMAIN joined.keys : m = Len(old.keys) + 1 \/ m \in DOMAIN old.keys
  BY <1>5
<1> QED
  BY <1>4, <1>6, <1>7, <1>8, <1>9

\* The buffer when a line joins its last entry.
LEMMA JoinedBuffer ==
  ASSUME NEW entries, NEW keys, Buffered(entries, keys),
         NEW at \in DOMAIN entries, ~entries[at].notice,
         NEW key \in RecordKeys, key \notin keys
  PROVE  Buffered([entries EXCEPT ![at].keys = Append(@, key)], keys \cup {key})
<1> DEFINE old == entries[at]
           joined == [old EXCEPT !.keys = Append(@, key)]
           more == [entries EXCEPT ![at].keys = Append(@, key)]
<1>1. entries \in Seq(Entries) /\ Filters(entries, keys) /\ Distinct(entries)
  BY DEF Buffered
<1>2. old \in LineEntries
  <2>1. old \in Entries
    BY <1>1
  <2> QED
    BY <2>1, EntryParts
<1>3. /\ joined \in LineEntries /\ ~joined.notice
      /\ DOMAIN old.keys \subseteq DOMAIN joined.keys
      /\ \A m \in DOMAIN old.keys : joined.keys[m] = old.keys[m]
      /\ \E end \in DOMAIN joined.keys :
           /\ joined.keys[end] = key
           /\ \A m \in DOMAIN joined.keys : m = end \/ m \in DOMAIN old.keys
  <2>1. joined = Joined(old, key)
    BY DEF Joined
  <2> HIDE DEF old, joined, more
  <2> QED
    BY <1>2, <2>1, JoinedEntry
<1>4. PICK end \in DOMAIN joined.keys :
        /\ joined.keys[end] = key
        /\ \A m \in DOMAIN joined.keys : m = end \/ m \in DOMAIN old.keys
  BY <1>3
<1>5. more = [entries EXCEPT ![at] = joined]
  OBVIOUS
<1>6. joined \in Entries
  BY <1>3 DEF Entries
<1> HIDE DEF joined
<1>7. /\ more \in Seq(Entries) /\ DOMAIN more = DOMAIN entries /\ more[at] = joined
      /\ \A k \in DOMAIN entries : k # at => more[k] = entries[k]
  <2>1. at \in 1..Len(entries) /\ DOMAIN entries = 1..Len(entries)
    BY <1>1
  <2> HIDE DEF more
  <2>2. more \in Seq(Entries)
    BY <1>1, <1>5, <1>6, <2>1, ExceptSeq
  <2> QED
    BY <1>5, <2>2
<1> HIDE DEF more
<1>8. \A k \in DOMAIN entries : ~entries[k].notice =>
        \A m \in DOMAIN entries[k].keys : entries[k].keys[m] \in keys /\ entries[k].keys[m] # key
  BY <1>1 DEF Filters, ToSet
<1>9. \A k \in DOMAIN more : ~more[k].notice =>
        /\ ~entries[k].notice
        /\ \A m \in DOMAIN more[k].keys :
             \/ m \in DOMAIN entries[k].keys /\ more[k].keys[m] = entries[k].keys[m]
             \/ k = at /\ m = end /\ more[k].keys[m] = key
  <2> SUFFICES ASSUME NEW k \in DOMAIN more, ~more[k].notice
               PROVE  /\ ~entries[k].notice
                      /\ \A m \in DOMAIN more[k].keys :
                           \/ m \in DOMAIN entries[k].keys /\ more[k].keys[m] = entries[k].keys[m]
                           \/ k = at /\ m = end /\ more[k].keys[m] = key
    OBVIOUS
  <2>1. CASE k = at
    BY <1>3, <1>4, <1>7, <2>1
  <2>2. CASE k # at
    BY <1>7, <2>2
  <2> QED
    BY <2>1, <2>2
<1>10. keys \cup {key} \subseteq KeysOf(more)
  <2>1. key \in KeysOf(more)
    BY <1>4, <1>7, KeysAreOfEntries
  <2>2. ASSUME NEW known \in keys PROVE known \in KeysOf(more)
    <3>1. PICK k \in DOMAIN entries : \E m \in DOMAIN entries[k].keys : known = entries[k].keys[m]
      BY <1>1, KeysAreOfEntries DEF Filters
    <3>2. \E m \in DOMAIN more[k].keys : known = more[k].keys[m]
      BY <1>3, <1>7, <3>1
    <3> QED
      BY <1>7, <3>1, <3>2, KeysAreOfEntries
  <2> QED
    BY <2>1, <2>2
<1>11. \A k \in DOMAIN more : ~more[k].notice => ToSet(more[k].keys) \subseteq keys \cup {key}
  BY <1>7, <1>8, <1>9 DEF ToSet
<1>12. ASSUME NEW k \in DOMAIN more, NEW l \in DOMAIN more,
              ~more[k].notice, ~more[l].notice,
              NEW m \in DOMAIN more[k].keys, NEW n \in DOMAIN more[l].keys,
              more[k].keys[m] = more[l].keys[n]
       PROVE  k = l /\ m = n
  <2>1. k \in DOMAIN entries /\ l \in DOMAIN entries /\ ~entries[k].notice /\ ~entries[l].notice
    BY <1>7, <1>9, <1>12
  <2>2. \/ m \in DOMAIN entries[k].keys /\ more[k].keys[m] = entries[k].keys[m]
        \/ k = at /\ m = end /\ more[k].keys[m] = key
    BY <1>9, <1>12
  <2>3. \/ n \in DOMAIN entries[l].keys /\ more[l].keys[n] = entries[l].keys[n]
        \/ l = at /\ n = end /\ more[l].keys[n] = key
    BY <1>9, <1>12
  <2>4. m \in DOMAIN entries[k].keys => entries[k].keys[m] # key
    BY <1>8, <2>1
  <2>5. n \in DOMAIN entries[l].keys => entries[l].keys[n] # key
    BY <1>8, <2>1
  <2>6. CASE k = at /\ m = end /\ more[k].keys[m] = key
    BY <1>12, <2>3, <2>5, <2>6
  <2>7. CASE m \in DOMAIN entries[k].keys /\ more[k].keys[m] = entries[k].keys[m]
    <3>1. n \in DOMAIN entries[l].keys /\ more[l].keys[n] = entries[l].keys[n]
      BY <1>12, <2>3, <2>4, <2>7
    <3>2. entries[k].keys[m] = entries[l].keys[n]
      BY <1>12, <2>7, <3>1
    <3> QED
      BY <1>1, <2>1, <2>7, <3>1, <3>2 DEF Distinct
  <2> QED
    BY <2>2, <2>6, <2>7
<1>13. Distinct(more)
  BY <1>12 DEF Distinct
<1>14. Buffered(more, keys \cup {key})
  BY <1>7, <1>10, <1>11, <1>13 DEF Buffered, Filters
<1> QED
  BY <1>14 DEF more

\* The buffer when a line has an entry of its own.
LEMMA AppendedBuffer ==
  ASSUME NEW entries, NEW keys, Buffered(entries, keys),
         NEW key, key \notin keys, NEW new \in LineEntries, new.keys = <<key>>
  PROVE  Buffered(Append(entries, new), keys \cup {key})
<1> DEFINE more == Append(entries, new)
           end == Len(entries)
<1>1. entries \in Seq(Entries) /\ Filters(entries, keys) /\ Distinct(entries)
  BY DEF Buffered
<1>2. ~new.notice /\ new \in Entries /\ DOMAIN new.keys = {1} /\ new.keys[1] = key
  <2>1. ~new.notice /\ new \in Entries
    BY DEF Entries, LineEntries
  <2>2. DOMAIN <<key>> = {1} /\ <<key>>[1] = key
    OBVIOUS
  <2> QED
    BY <2>1, <2>2
<1>3. /\ end \in Nat /\ DOMAIN entries = 1..end /\ DOMAIN more = 1..(end + 1)
      /\ more \in Seq(Entries) /\ more[end + 1] = new
      /\ \A k \in DOMAIN entries : more[k] = entries[k]
  BY <1>1, <1>2
<1> HIDE DEF more, end
<1>4. end + 1 \in DOMAIN more /\ end + 1 \notin DOMAIN entries
  BY <1>3
<1>5. DOMAIN entries \subseteq DOMAIN more
  BY <1>3
<1>6. \A k \in DOMAIN more : k = end + 1 \/ k \in DOMAIN entries
  BY <1>3
<1>7. \A k \in DOMAIN entries : ~entries[k].notice =>
        \A m \in DOMAIN entries[k].keys : entries[k].keys[m] \in keys /\ entries[k].keys[m] # key
  BY <1>1 DEF Filters, ToSet
<1>8. keys \cup {key} \subseteq KeysOf(more)
  <2>1. key \in KeysOf(more)
    BY <1>2, <1>3, <1>4, KeysAreOfEntries
  <2>2. ASSUME NEW known \in keys PROVE known \in KeysOf(more)
    <3>1. PICK k \in DOMAIN entries : \E m \in DOMAIN entries[k].keys : known = entries[k].keys[m]
      BY <1>1, KeysAreOfEntries DEF Filters
    <3> QED
      BY <1>3, <1>5, <3>1, KeysAreOfEntries
  <2> QED
    BY <2>1, <2>2
<1>9. ASSUME NEW k \in DOMAIN more, ~more[k].notice
      PROVE  ToSet(more[k].keys) \subseteq keys \cup {key}
  <2>1. CASE k = end + 1
    BY <1>2, <1>3, <2>1 DEF ToSet
  <2>2. CASE k \in DOMAIN entries
    BY <1>3, <1>7, <1>9, <2>2 DEF ToSet
  <2> QED
    BY <1>6, <2>1, <2>2
<1>10. ASSUME NEW k \in DOMAIN more, NEW l \in DOMAIN more,
              ~more[k].notice, ~more[l].notice,
              NEW m \in DOMAIN more[k].keys, NEW n \in DOMAIN more[l].keys,
              more[k].keys[m] = more[l].keys[n]
       PROVE  k = l /\ m = n
  <2>1. CASE k = end + 1 /\ l = end + 1
    BY <1>2, <1>3, <1>10, <2>1
  <2>2. CASE k = end + 1 /\ l \in DOMAIN entries
    BY <1>2, <1>3, <1>7, <1>10, <2>2
  <2>3. CASE k \in DOMAIN entries /\ l = end + 1
    BY <1>2, <1>3, <1>7, <1>10, <2>3
  <2>4. CASE k \in DOMAIN entries /\ l \in DOMAIN entries
    BY <1>1, <1>3, <1>10, <2>4 DEF Distinct
  <2> QED
    BY <1>6, <2>1, <2>2, <2>3, <2>4
<1>11. Distinct(more)
  BY <1>10 DEF Distinct
<1>12. Buffered(more, keys \cup {key})
  BY <1>3, <1>8, <1>9, <1>11 DEF Buffered, Filters
<1> QED
  BY <1>12 DEF more

\* The log holds what workloads have logged.
LogType == log \in Seq([target : Targets, time : Nat])

\* What a record of the log is.
LEMMA LogParts ==
  ASSUME LogType, NEW i \in DOMAIN log
  PROVE  i \in Nat /\ log[i].time \in Nat /\ log[i].target \in Targets
<1>1. DOMAIN log = 1..Len(log) /\ Len(log) \in Nat
  BY DEF LogType
<1>2. log[i] \in [target : Targets, time : Nat]
  BY <1>1, ElementOfSeq DEF LogType
<1> QED
  BY <1>1, <1>2

\* A record that is not in the buffer joins it, in an entry of its own or in the
\* last one.
LEMMA AddedBuffer ==
  ASSUME NEW entries, NEW keys, Buffered(entries, keys),
         LogType, NEW i \in DOMAIN log, <<i>> \notin keys
  PROVE  Buffered(Added(entries, i), keys \cup {<<i>>})
<1> DEFINE key == <<i>>
           end == Len(entries)
<1>1. key \in RecordKeys /\ log[i].time \in Nat
  BY LogParts DEF RecordKeys
<1>2. entries \in Seq(Entries)
  BY DEF Buffered
<1>3. CASE Coalesces(entries, i)
  <2>1. entries # <<>> /\ ~entries[end].notice
    BY <1>3 DEF Coalesces, Last
  <2>2. end \in DOMAIN entries
    BY <1>2, <2>1
  <2>3. Added(entries, i) = [entries EXCEPT ![end].keys = Append(@, key)]
    BY <1>3 DEF Added
  <2> HIDE DEF key, end
  <2>4. Buffered([entries EXCEPT ![end].keys = Append(@, key)], keys \cup {key})
    BY <1>1, <2>1, <2>2, JoinedBuffer DEF key
  <2> QED
    BY <2>3, <2>4 DEF key
<1>4. CASE ~Coalesces(entries, i)
  <2>1. Entry(i) \in LineEntries /\ Entry(i).keys = <<<<i>>>>
    BY <1>1 DEF Entry, LineEntries
  <2>2. Added(entries, i) = Append(entries, Entry(i))
    BY <1>4 DEF Added
  <2> QED
    BY <2>1, <2>2, AppendedBuffer
<1> QED
  BY <1>3, <1>4

-----------------------------------------------------------------------------
\* The types of the page and of its sources, besides those of IInv.
SourceType ==
  /\ screen \in Screens /\ meta \in BOOLEAN /\ overdrawn \in BOOLEAN
  /\ waiting \in [Screens -> Nat]
  /\ targets \subseteq Targets /\ (stream = 0 <=> targets = {})
  /\ tailed \in [Targets -> BOOLEAN]
  /\ \A t \in Targets : tailed[t] => stream # 0 /\ status[stream][t] = "connecting"
  /\ position \in [Targets -> 0..Len(log)]
  /\ number \in [Targets -> Nat] /\ last \in [Targets -> Nat]

BufferInv == IInv /\ LogType /\ SourceType /\ Buffered(records, seen)

\* An empty buffer filters nothing.
LEMMA EmptyBuffer == Buffered(<<>>, {})
<1>1. <<>> \in Seq(Entries) /\ DOMAIN <<>> = {}
  OBVIOUS
<1> QED
  BY <1>1 DEF Buffered, Filters, Distinct

\* The number of records of a target among some is at most the length of the log.
LEMMA FewerThanLogged ==
  ASSUME LogType, NEW t \in Targets, NEW S \in SUBSET OfTarget(t)
  PROVE  IsFiniteSet(S) /\ Cardinality(S) \in 0..Len(log)
<1>1. DOMAIN log = 1..Len(log) /\ Len(log) \in Nat
  BY DEF LogType
<1>2. IsFiniteSet(1..Len(log)) /\ Cardinality(1..Len(log)) = Len(log)
  <2> DEFINE n == Len(log)
  <2>1. n \in Nat
    BY <1>1
  <2> HIDE DEF n
  <2>2. IsFiniteSet(1..n) /\ Cardinality(1..n) = IF 1 > n THEN 0 ELSE n - 1 + 1
    BY <2>1, FS_Interval
  <2>3. IsFiniteSet(1..n) /\ Cardinality(1..n) = n
    BY <2>1, <2>2
  <2> QED
    BY <2>3 DEF n
<1>3. S \in SUBSET (1..Len(log))
  BY <1>1 DEF OfTarget
<1>4. IsFiniteSet(S) /\ Cardinality(S) <= Len(log)
  BY <1>2, <1>3, FS_Subset
<1> QED
  BY <1>1, <1>4, FS_CardinalityType

\* What a source may deliver is in the log, under a positive number.
LEMMA AheadIsLogged ==
  ASSUME LogType, SourceType, NEW t \in Targets, NEW i \in Ahead(t)
  PROVE  /\ i \in DOMAIN log /\ i \in Nat /\ i \in 0..Len(log)
         /\ \A seq \in Numbers(t, i) : seq \in Nat
<1>1. DOMAIN log = 1..Len(log) /\ Len(log) \in Nat
  BY DEF LogType
<1>2. i \in DOMAIN log
  BY DEF Ahead, OfTarget
<1>3. number[t] \in Nat /\ i + Taken \in Int
  BY <1>1, <1>2, PageAssumption DEF SourceType
<1> QED
  BY <1>1, <1>2, <1>3 DEF Numbers

\* The tail begins at a position of the log.
LEMMA TailBegins ==
  ASSUME LogType, NEW t \in Targets
  PROVE  TailOf(t) \in 0..Len(log)
<1> DEFINE later(i) == Cardinality({j \in OfTarget(t) : j > i})
           starts == {i \in 0..Len(log) : later(i) <= TailLines}
<1>1. DOMAIN log = 1..Len(log) /\ Len(log) \in Nat
  BY DEF LogType
<1>2. {j \in OfTarget(t) : j > Len(log)} = {}
  BY <1>1 DEF OfTarget
<1>3. later(Len(log)) = 0
  BY <1>2, FS_EmptySet
<1>4. Len(log) \in starts
  BY <1>1, <1>3, PageAssumption
<1>5. \A i \in 0..Len(log) : later(i) \in Nat
  <2>1. \A i \in 0..Len(log) : {j \in OfTarget(t) : j > i} \in SUBSET OfTarget(t)
    OBVIOUS
  <2> QED
    BY <2>1, <1>1, FewerThanLogged
<1> HIDE DEF later
<1>6. PICK i \in starts : \A j \in starts : i <= j
  <2>1. starts \in SUBSET Nat /\ starts # {}
    BY <1>1, <1>4
  <2> HIDE DEF starts
  <2> QED
    BY <2>1, LeastExists
<1>7. \A j \in 0..(i - 1) : later(j) > TailLines
  <2>1. SUFFICES ASSUME NEW j \in 0..(i - 1), ~(later(j) > TailLines)
                 PROVE  FALSE
    OBVIOUS
  <2>2. i \in 0..Len(log) /\ j \in 0..Len(log) /\ j < i
    BY <1>1, <1>6
  <2>3. j \in starts
    BY <1>5, <2>1, <2>2, PageAssumption
  <2> QED
    BY <1>6, <2>2, <2>3
<1>8. \E k \in 0..Len(log) : later(k) <= TailLines /\ \A j \in 0..(k - 1) : later(j) > TailLines
  BY <1>6, <1>7
<1> QED
  BY <1>8 DEF TailOf, later

-----------------------------------------------------------------------------
\* Starting a stream keeps what it is given, the first entries excepted if there
\* are too many.
LEMMA StartBuffer ==
  ASSUME NEW requested, NEW retained \in Seq(Entries), NEW liveOnly, Distinct(retained),
         StartStream(requested, retained, liveOnly)
  PROVE  Buffered(records', seen')
<1> DEFINE kept == IF Len(retained) <= BufferSize THEN retained
                   ELSE SubSeq(retained, Len(retained) - BufferSize + 1, Len(retained))
<1>1. records' = kept /\ seen' = KeysOf(kept)
  BY DEF StartStream
<1>2. kept \in Seq(Entries) /\ Distinct(kept)
  <2>1. CASE Len(retained) <= BufferSize
    BY <2>1
  <2>2. CASE ~(Len(retained) <= BufferSize)
    <3>1. Len(retained) - BufferSize + 1 \in 1..(Len(retained) + 1)
      BY <2>2, PageAssumption
    <3> QED
      BY <2>2, <3>1, SuffixDistinct
  <2> QED
    BY <2>1, <2>2
<1> HIDE DEF kept
<1>3. Buffered(kept, KeysOf(kept))
  BY <1>2, OwnKeysFilter DEF Buffered
<1> QED
  BY <1>1, <1>3

\* The notices before a record are entries of the buffer.
LEMMA NoticesAreEntries ==
  ASSUME LogType, SourceType, NEW t \in Targets, NEW i \in DOMAIN log, NEW seq \in Int
  PROVE  \/ Notices(t, i, seq) = <<>>
         \/ \E n \in NoticeEntries : Notices(t, i, seq) = <<n>>
<1> DEFINE key == <<t, log[i].time, last[t], seq>>
           n == [keys |-> <<key>>, time |-> log[i].time, notice |-> TRUE]
<1>1. log[i].time \in Nat /\ last[t] \in Nat
  BY LogParts DEF SourceType
<1>2. key \in NoticeKeys
  BY <1>1 DEF NoticeKeys
<1>3. Notices(t, i, seq) = IF Skips(t, seq) THEN <<n>> ELSE <<>>
  BY DEF Notices
<1> HIDE DEF key
<1>4. n \in NoticeEntries
  BY <1>1, <1>2 DEF NoticeEntries
<1> QED
  BY <1>3, <1>4

\* A record that arrives leaves a buffer whose keys are the ones that count as
\* seen: whether its notice comes first, and whether it is a repeat, joins an
\* entry or has one of its own, and whatever is evicted for it.
LEMMA ArrivalBuffer ==
  ASSUME BufferInv, NEW t \in Targets, NEW i \in Ahead(t), NEW seq \in Numbers(t, i),
         OnActivity(t, i, seq)
  PROVE  Buffered(records', seen')
<1> DEFINE noticed == records \o Notices(t, i, seq)
           known == seen \cup KeysOf(Notices(t, i, seq))
<1>1. IF IsRepeat(t, i, seq)
      THEN records' = noticed /\ seen' = known
      ELSE \E merged \in Merged(Added(noticed, i)) :
             /\ records' = Trimmed(merged, known \cup {<<i>>})[1]
             /\ seen' = Trimmed(merged, known \cup {<<i>>})[2]
  BY DEF OnActivity
<1>2. LogType /\ SourceType /\ Buffered(records, seen)
  BY DEF BufferInv
<1>3. i \in DOMAIN log /\ i \in Nat
  BY <1>2, AheadIsLogged
<1>4. seq \in Int
  BY <1>2, AheadIsLogged
<1>5. IsRepeat(t, i, seq) <=> <<i>> \in seen
  BY DEF IsRepeat
<1>6. /\ Buffered(noticed, known)
      /\ <<i>> \in known => <<i>> \in seen
  <2>1. CASE Notices(t, i, seq) = <<>>
    <3>1. KeysOf(<<>>) = {}
      <4>1. DOMAIN <<>> = {}
        OBVIOUS
      <4> QED
        BY <4>1 DEF KeysOf
    <3>2. noticed = records /\ known = seen
      BY <1>2, <2>1, <3>1 DEF Buffered
    <3> QED
      BY <1>2, <3>2
  <2>2. ASSUME NEW n \in NoticeEntries, Notices(t, i, seq) = <<n>>
        PROVE  /\ Buffered(noticed, known)
               /\ <<i>> \in known => <<i>> \in seen
    <3>1. n \in Entries /\ records \in Seq(Entries)
      BY <1>2 DEF Entries, Buffered
    <3>2. records \o <<n>> = Append(records, n)
      BY <3>1
    <3>3. Buffered(noticed, known)
      BY <1>2, <2>2, <3>2, NoticeBuffer
    <3>4. KeysOf(<<n>>) \subseteq NoticeKeys
      <4>1. DOMAIN <<n>> = {1} /\ <<n>>[1] = n
        OBVIOUS
      <4>2. n.keys \in Seq(NoticeKeys)
        BY DEF NoticeEntries
      <4> QED
        BY <4>1, <4>2 DEF KeysOf, ToSet
    <3>5. <<i>> \in RecordKeys
      BY <1>3 DEF RecordKeys
    <3> QED
      BY <2>2, <3>3, <3>4, <3>5, KeysDiffer
  <2> QED
    BY <1>2, <1>3, <1>4, <2>1, <2>2, NoticesAreEntries
<1> HIDE DEF noticed, known
<1>7. CASE IsRepeat(t, i, seq)
  BY <1>1, <1>6, <1>7
<1>8. CASE ~IsRepeat(t, i, seq)
  <2>1. PICK merged \in Merged(Added(noticed, i)) :
          /\ records' = Trimmed(merged, known \cup {<<i>>})[1]
          /\ seen' = Trimmed(merged, known \cup {<<i>>})[2]
    BY <1>1, <1>8
  <2>2. Buffered(Added(noticed, i), known \cup {<<i>>})
    BY <1>2, <1>3, <1>5, <1>6, <1>8, AddedBuffer
  <2>3. Buffered(merged, known \cup {<<i>>})
    <3>1. CASE merged = Added(noticed, i)
      BY <2>2, <3>1
    <3>2. CASE \E order \in SetToSeqs(DOMAIN Added(noticed, i)) :
                 merged = Picked(Added(noticed, i), order)
      BY <2>2, <3>2, SortedBuffer
    <3> QED
      BY <3>1, <3>2 DEF Merged
  <2> QED
    BY <2>1, <2>3, TrimmedBuffer
<1> QED
  BY <1>7, <1>8

\* Every step leaves a buffer whose keys are the ones that count as seen.
LEMMA BufferSteps ==
  ASSUME BufferInv, [Next]_vars
  PROVE  Buffered(records', seen')
<1>1. Buffered(records, seen) /\ records \in Seq(Entries) /\ Distinct(records)
  BY DEF BufferInv, Buffered
<1>2. CASE UNCHANGED <<records, seen>>
  BY <1>1, <1>2
<1>3. CASE records' = <<>> /\ seen' = {}
  BY <1>3, EmptyBuffer
<1>4. ASSUME NEW requested, NEW liveOnly, StartStream(requested, <<>>, liveOnly)
      PROVE  Buffered(records', seen')
  <2>1. <<>> \in Seq(Entries) /\ Distinct(<<>>)
    BY EmptyBuffer DEF Buffered
  <2> QED
    BY <1>4, <2>1, StartBuffer
<1>5. CASE Reconnect
  BY <1>1, <1>5, StartBuffer DEF Reconnect
<1>6. ASSUME NEW requested, NEW keep, NEW liveOnly, ChangeScope(requested, keep, liveOnly)
      PROVE  Buffered(records', seen')
  <2> DEFINE matching == {i \in DOMAIN records : ToSet(records[i].keys) \subseteq keep}
  <2>1. PICK order \in SetToSeqs(matching) :
          StartStream(requested, Picked(records, order), liveOnly)
    BY <1>6 DEF ChangeScope
  <2>2. matching \in SUBSET DOMAIN records
    OBVIOUS
  <2> HIDE DEF matching
  <2>3. Picked(records, order) \in Seq(Entries) /\ Distinct(Picked(records, order))
    BY <1>1, <2>2, PickedEntries, PickedDistinct
  <2> QED
    BY <2>1, <2>3, StartBuffer
<1>7. ASSUME NEW t \in Targets, NEW i \in Ahead(t), NEW seq \in Numbers(t, i),
             OnActivity(t, i, seq)
      PROVE  Buffered(records', seen')
  BY <1>7, ArrivalBuffer
<1>8. ASSUME NEW t, OnOpen(t) \/ OnEnd(t) \/ OnError(t) \/ Reopen(t)
      PROVE  UNCHANGED <<records, seen>>
  BY <1>8 DEF OnOpen, OnEnd, OnError, Reopen, bufferVars
<1>9. ASSUME NEW s, NEW t, Checked(s, t)
      PROVE  UNCHANGED <<records, seen>>
  BY <1>9 DEF Checked, bufferVars
<1>10. ASSUME NEW s, NEW t, SignedOut(s, t)
       PROVE  records' = <<>> /\ seen' = {}
  BY <1>10 DEF SignedOut, NoBuffer
<1>11. CASE Leave \/ Denied \/ TokenRejected
  BY <1>3, <1>11 DEF Leave, Denied, TokenRejected, ShowLogin, StopStream, NoBuffer
<1>12. ASSUME NEW page, Navigate(page) \/ TokenAccepted(page)
       PROVE  records' = <<>> /\ seen' = {}
  BY <1>12 DEF Navigate, TokenAccepted, StopStream, NoBuffer
<1>13. ASSUME NEW page, OtherContinues(page) \/ Ends(page)
       PROVE  UNCHANGED <<records, seen>>
  BY <1>13 DEF OtherContinues, Ends, bufferVars
<1>14. CASE DrawAgain \/ SendToken \/ UNCHANGED vars
  BY <1>2, <1>14 DEF DrawAgain, SendToken, vars, bufferVars
<1>15. ASSUME NEW t, NEW time, Produce(t, time)
       PROVE  UNCHANGED <<records, seen>>
  BY <1>15 DEF Produce, bufferVars
<1>16. CASE Clear
  BY <1>3, <1>16 DEF Clear
<1>17. ASSUME NEW requested,
              \/ OpenActivity(requested) \/ ActivityContinues(requested)
              \/ ChangeTail(requested)
       PROVE  Buffered(records', seen')
  BY <1>4, <1>17 DEF OpenActivity, ActivityContinues, ChangeTail
<1> QED
  BY <1>2, <1>3, <1>5, <1>6, <1>7, <1>8, <1>9, <1>10, <1>11, <1>12, <1>13, <1>14,
     <1>15, <1>16, <1>17 DEF Next

\* The log only grows.
LEMMA LogSteps ==
  ASSUME LogType, [Next]_vars
  PROVE  LogType' /\ Len(log) \in Nat /\ Len(log') \in Nat /\ Len(log) <= Len(log')
<1>1. log \in Seq([target : Targets, time : Nat]) /\ Len(log) \in Nat
  BY DEF LogType
<1>2. CASE UNCHANGED log
  BY <1>1, <1>2 DEF LogType
<1>3. ASSUME NEW t \in Targets, NEW later \in {0, 1}, Produce(t, Now + later)
      PROVE  LogType' /\ Len(log') \in Nat /\ Len(log) <= Len(log')
  <2>1. Now \in Nat
    <3>1. CASE log = <<>>
      BY <3>1 DEF Now
    <3>2. CASE log # <<>>
      <4>1. Len(log) \in DOMAIN log
        BY <1>1, <3>2
      <4>2. log[Len(log)].time \in Nat
        BY <4>1, LogParts
      <4> QED
        BY <3>2, <4>2 DEF Now
    <3> QED
      BY <3>1, <3>2
  <2>2. [target |-> t, time |-> Now + later] \in [target : Targets, time : Nat]
    BY <2>1
  <2> QED
    BY <1>1, <1>3, <2>2 DEF Produce, LogType
<1>4. \/ UNCHANGED log
      \/ \E t \in Targets, later \in {0, 1} : Produce(t, Now + later)
  <2>1. \A requested, retained, liveOnly :
          StartStream(requested, retained, liveOnly) => UNCHANGED log
    BY DEF StartStream
  <2>2. \A requested, keep, liveOnly :
          \/ OpenActivity(requested) \/ ActivityContinues(requested)
          \/ ChangeTail(requested) \/ ChangeScope(requested, keep, liveOnly)
          => UNCHANGED log
    BY <2>1 DEF OpenActivity, ActivityContinues, ChangeTail, ChangeScope
  <2>3. \A page : \/ Navigate(page) \/ OtherContinues(page) \/ Ends(page)
                  \/ TokenAccepted(page)
                  => UNCHANGED log
    BY DEF Navigate, OtherContinues, Ends, TokenAccepted
  <2>4. \/ Leave \/ DrawAgain \/ Denied \/ SendToken \/ TokenRejected \/ Reconnect
        \/ Clear \/ UNCHANGED vars
        => UNCHANGED log
    BY <2>1
       DEF Leave, DrawAgain, Denied, SendToken, TokenRejected, ShowLogin, Reconnect,
           Clear, vars
  <2>5. \A t, i, seq : \/ OnOpen(t) \/ OnEnd(t) \/ OnError(t) \/ Reopen(t)
                       \/ OnActivity(t, i, seq)
                       => UNCHANGED log
    BY DEF OnOpen, OnEnd, OnError, Reopen, OnActivity
  <2>6. \A s, t : Checked(s, t) \/ SignedOut(s, t) => UNCHANGED log
    BY DEF Checked, SignedOut
  <2> QED
    BY <2>2, <2>3, <2>4, <2>5, <2>6 DEF Next
<1> QED
  BY <1>1, <1>2, <1>3, <1>4

\* The types of a page whose stream is stopped.
LEMMA StoppedType ==
  ASSUME BufferInv, [Next]_vars, NoSource, last' = [t \in Targets |-> 0],
         stream' = 0, targets' = {}, overdrawn' = FALSE,
         screen' \in Screens, meta' \in BOOLEAN, waiting' \in [Screens -> Nat]
  PROVE  SourceType'
<1>1. Len(log') \in Nat
  BY LogSteps DEF BufferInv
<1>2. tailed' \in [Targets -> BOOLEAN] /\ \A t \in Targets : ~tailed'[t]
  BY Zenon DEF NoSource
<1>3. /\ position' \in [Targets -> 0..Len(log')]
      /\ number' \in [Targets -> Nat] /\ last' \in [Targets -> Nat]
  BY <1>1 DEF NoSource
<1> QED
  BY <1>2, <1>3 DEF SourceType

\* The types of a page whose stream has just started.
LEMMA StartedType ==
  ASSUME BufferInv, [Next]_vars, NEW requested \in (SUBSET Targets) \ {{}}, NEW retained,
         NEW liveOnly \in BOOLEAN, StartStream(requested, retained, liveOnly),
         screen' \in Screens, meta' \in BOOLEAN, waiting' \in [Screens -> Nat]
  PROVE  SourceType'
<1>1. Len(log') \in Nat
  BY LogSteps DEF BufferInv
<1>2. /\ started \in 0..MaxStreams /\ started < MaxStreams /\ MaxStreams \in Nat
      /\ StopStatus \in [1..MaxStreams -> [Targets -> States]]
  BY Stopped, PageAssumption DEF BufferInv, IInv, PageType, StartStream
<1>3. stream' = started + 1 /\ targets' = requested /\ started + 1 \in 1..MaxStreams
  BY <1>2 DEF StartStream
<1>4. status'[started + 1] =
        [t \in Targets |-> IF t \in requested THEN "connecting" ELSE "none"]
  BY <1>2, <1>3 DEF StartStream
<1>5. tailed' = [t \in Targets |-> t \in requested /\ ~liveOnly]
  BY DEF StartStream
<1>6. tailed' \in [Targets -> BOOLEAN]
  BY <1>5
<1>7. \A t \in Targets : tailed'[t] => stream' # 0 /\ status'[stream'][t] = "connecting"
  <2>1. stream' # 0
    BY <1>2, <1>3
  <2>2. ASSUME NEW t \in Targets, tailed'[t]
        PROVE  t \in requested
    BY <1>5, <2>2, Zenon
  <2>3. ASSUME NEW t \in Targets, t \in requested
        PROVE  status'[stream'][t] = "connecting"
    BY <1>3, <1>4, <2>3
  <2> QED
    BY <2>1, <2>2, <2>3
<1>8. /\ position' \in [Targets -> 0..Len(log')]
      /\ number' \in [Targets -> Nat] /\ last' \in [Targets -> Nat]
  BY <1>1 DEF StartStream
<1>9. /\ targets' \subseteq Targets /\ targets' # {}
      /\ stream' # 0 /\ overdrawn' = FALSE
  BY <1>2, <1>3 DEF StartStream
<1> QED
  BY <1>6, <1>7, <1>8, <1>9 DEF SourceType

\* The types after a step of one source: what it knows of its way is within the
\* log, and only a first opening asks for the tail.
LEMMA SourceTypeSteps ==
  ASSUME BufferInv, NEW t \in Targets,
         \/ OnOpen(t) \/ OnEnd(t) \/ OnError(t) \/ Reopen(t)
         \/ \E i \in Ahead(t) : \E seq \in Numbers(t, i) : OnActivity(t, i, seq)
  PROVE  SourceType'
<1> DEFINE Arrives == \E i \in Ahead(t) : \E seq \in Numbers(t, i) : OnActivity(t, i, seq)
<1>1. LogType /\ SourceType /\ Len(log) \in Nat
  BY DEF BufferInv, LogType
<1>2. stream \in 1..MaxStreams /\ stream # 0 /\ status \in [1..MaxStreams -> [Targets -> States]]
  <2>1. stream # 0
    BY DEF OnOpen, OnActivity, OnEnd, OnError, Reopen
  <2> QED
    BY <2>1, PageAssumption DEF BufferInv, IInv, PageType
<1>3. UNCHANGED <<log, screen, meta, waiting, overdrawn, stream, targets>>
  BY DEF OnOpen, OnActivity, OnEnd, OnError, Reopen, pageVars, routeVars, streamVars
<1>4. tailed' \in [Targets -> BOOLEAN]
  BY <1>1 DEF SourceType, OnOpen, OnActivity, OnEnd, OnError, Reopen, CloseSource
<1>5. ASSUME NEW u \in Targets, tailed'[u]
      PROVE  tailed[u] /\ status'[stream][u] = status[stream][u]
  <2>1. CASE Arrives
    BY <1>5, <2>1 DEF OnActivity
  <2>2. CASE OnOpen(t) \/ OnEnd(t) \/ OnError(t)
    <3>1. tailed' = [tailed EXCEPT ![t] = FALSE]
      BY <2>2 DEF OnOpen, OnEnd, OnError, CloseSource
    <3>2. u # t
      BY <1>1, <1>5, <3>1, Zenon DEF SourceType
    <3>3. tailed[u]
      BY <1>1, <1>5, <3>1, <3>2, Zenon DEF SourceType
    <3>4. \E state : SetStatus(stream, t, state)
      BY <2>2 DEF OnOpen, OnEnd, OnError
    <3> QED
      BY <1>2, <3>2, <3>3, <3>4 DEF SetStatus
  <2>3. CASE Reopen(t)
    <3>1. tailed[u] /\ status[stream][t] = "waiting" /\ SetStatus(stream, t, "connecting")
      BY <1>5, <2>3 DEF Reopen
    <3>2. u # t
      BY <1>1, <3>1 DEF SourceType
    <3> QED
      BY <1>2, <3>1, <3>2 DEF SetStatus
  <2> QED
    BY <2>1, <2>2, <2>3
<1>6. \A u \in Targets : tailed'[u] => stream # 0 /\ status'[stream][u] = "connecting"
  BY <1>1, <1>5 DEF SourceType
<1>7. position' \in [Targets -> 0..Len(log)]
  <2>1. CASE OnOpen(t)
    <3>1. PICK at \in Beginnings(t) : position' = [position EXCEPT ![t] = at]
      BY <2>1 DEF OnOpen
    <3>2. at \in 0..Len(log)
      BY <1>1, TailBegins DEF Beginnings
    <3> QED
      BY <1>1, <3>1, <3>2 DEF SourceType
  <2>2. CASE Arrives
    <3>1. PICK i \in Ahead(t) : position' = [position EXCEPT ![t] = i]
      BY <2>2 DEF OnActivity
    <3>2. i \in 0..Len(log)
      BY <1>1, AheadIsLogged
    <3> QED
      BY <1>1, <3>1, <3>2 DEF SourceType
  <2>3. CASE OnEnd(t) \/ OnError(t)
    <3>1. position' = [position EXCEPT ![t] = 0]
      BY <2>3 DEF OnEnd, OnError, CloseSource
    <3>2. 0 \in 0..Len(log)
      BY <1>1
    <3> QED
      BY <1>1, <3>1, <3>2 DEF SourceType
  <2>4. CASE Reopen(t)
    BY <1>1, <2>4 DEF Reopen, SourceType
  <2> QED
    BY <2>1, <2>2, <2>3, <2>4
<1>8. number' \in [Targets -> Nat] /\ last' \in [Targets -> Nat]
  <2>1. CASE Arrives
    <3>1. PICK i \in Ahead(t) : \E seq \in Numbers(t, i) : OnActivity(t, i, seq)
      BY <2>1
    <3>2. PICK seq \in Numbers(t, i) : OnActivity(t, i, seq)
      BY <3>1
    <3>3. seq \in Nat
      BY <1>1, AheadIsLogged
    <3> QED
      BY <1>1, <3>2, <3>3 DEF OnActivity, SourceType
  <2>2. CASE OnOpen(t) \/ OnEnd(t) \/ OnError(t) \/ Reopen(t)
    BY <1>1, <2>2 DEF OnOpen, OnEnd, OnError, Reopen, CloseSource, bufferVars, SourceType
  <2> QED
    BY <2>1, <2>2
<1> QED
  BY <1>1, <1>3, <1>4, <1>6, <1>7, <1>8 DEF SourceType

\* The types when a record is logged: its log is longer.
LEMMA GrownType ==
  ASSUME BufferInv, [Next]_vars, UNCHANGED <<pageVars, sourceVars, bufferVars>>
  PROVE  SourceType'
<1>1. Len(log) \in Nat /\ Len(log') \in Nat /\ Len(log) <= Len(log')
  BY LogSteps DEF BufferInv
<1>2. 0..Len(log) \subseteq 0..Len(log')
  BY <1>1
<1>3. SourceType
  BY DEF BufferInv
<1> QED
  BY <1>2, <1>3
     DEF SourceType, pageVars, routeVars, streamVars, sourceVars, bufferVars

\* The answer of a session check leaves the sources that ask for the tail alone.
LEMMA CheckedType ==
  ASSUME BufferInv, NEW s \in 1..MaxStreams, NEW t \in Targets, Checked(s, t)
  PROVE  SourceType'
<1>1. SourceType /\ status \in [1..MaxStreams -> [Targets -> States]]
  BY DEF BufferInv, IInv, PageType
<1>2. /\ status[s][t] = "checking"
      /\ \E state : status' = [status EXCEPT ![s][t] = state]
      /\ UNCHANGED <<log, screen, meta, waiting, overdrawn, stream, targets>>
      /\ UNCHANGED <<tailed, position, number, last>>
  BY DEF Checked, SetStatus, pageVars, routeVars, streamVars, bufferVars
<1>3. ASSUME NEW u \in Targets, tailed[u]
      PROVE  stream # 0 /\ status'[stream][u] = "connecting"
  <2>1. stream # 0 /\ status[stream][u] = "connecting"
    BY <1>1, <1>3 DEF SourceType
  <2>2. stream \in 1..MaxStreams
    BY <2>1, PageAssumption DEF BufferInv, IInv, PageType
  <2>3. ~(s = stream /\ t = u)
    BY <1>2, <2>1
  <2> QED
    BY <1>1, <1>2, <2>1, <2>2, <2>3
<1> QED
  BY <1>1, <1>2, <1>3 DEF SourceType

\* Every step keeps the types of the page and of its sources.
LEMMA SourceTypeNext == ASSUME BufferInv, [Next]_vars PROVE SourceType'
<1>1. /\ SourceType /\ screen \in Screens /\ meta \in BOOLEAN
      /\ waiting \in [Screens -> Nat]
  BY DEF BufferInv, SourceType
<1>2. ASSUME NEW page \in Screens, Waits(page) \/ Continues(page)
      PROVE  waiting' \in [Screens -> Nat]
  <2>1. CASE Waits(page)
    <3>1. waiting' = [waiting EXCEPT ![page] = @ + 1]
      BY <2>1, Zenon DEF Waits
    <3> QED
      BY <1>1, <3>1
  <2>2. CASE Continues(page)
    BY <1>1, <2>2 DEF Continues
  <2> QED
    BY <1>2, <2>1, <2>2
<1>3. Pages \subseteq Screens /\ {"login", "other", "activity"} \subseteq Screens
  BY DEF Screens, Pages
<1>4. ASSUME NEW requested \in Requested,
             OpenActivity(requested) \/ ActivityContinues(requested)
      PROVE  SourceType'
  <2>1. /\ StartStream(requested, <<>>, FALSE) /\ screen' \in Screens /\ meta' \in BOOLEAN
        /\ waiting' \in [Screens -> Nat]
    BY <1>1, <1>2, <1>3, <1>4 DEF OpenActivity, ActivityContinues
  <2> QED
    BY <2>1, StartedType DEF Requested
<1>5. ASSUME StopStream, UNCHANGED <<screen, meta>> \/ screen' \in Screens,
             meta' \in BOOLEAN, waiting' \in [Screens -> Nat]
      PROVE  SourceType'
  BY <1>1, <1>5, StoppedType DEF StopStream, NoBuffer
<1>6. ASSUME NEW page \in Pages, Navigate(page)
      PROVE  SourceType'
  BY <1>1, <1>2, <1>3, <1>5, <1>6 DEF Navigate
<1>7. ASSUME NEW page \in Pages, TokenAccepted(page)
      PROVE  SourceType'
  <2>1. waiting' \in [Screens -> Nat]
    BY <1>1, <1>3, <1>7 DEF TokenAccepted, Screens, Pages
  <2> QED
    BY <1>1, <1>5, <1>7, <2>1 DEF TokenAccepted
<1>8. CASE Leave \/ Denied \/ TokenRejected
  <2>1. StopStream /\ screen' \in Screens /\ meta' \in BOOLEAN
    BY <1>1, <1>3, <1>8 DEF Leave, Denied, TokenRejected, ShowLogin
  <2>2. waiting' \in [Screens -> Nat]
    BY <1>1, <1>2, <1>3, <1>8 DEF Leave, Denied, TokenRejected
  <2> QED
    BY <1>5, <2>1, <2>2
<1>9. Shown \subseteq Requested
  BY <1>1 DEF Shown, Requested, SourceType
<1>10. stream # 0 => targets \in Requested
  BY <1>1 DEF Requested, SourceType
<1>11. ASSUME NEW requested \in Requested, NEW retained, NEW liveOnly \in BOOLEAN,
              StartStream(requested, retained, liveOnly), UNCHANGED <<screen, routeVars>>
       PROVE  SourceType'
  BY <1>1, <1>11, StartedType DEF routeVars, Requested
<1>12. CASE Reconnect
  BY <1>10, <1>11, <1>12 DEF Reconnect
<1>13. ASSUME NEW requested \in Shown, ChangeTail(requested)
       PROVE  SourceType'
  BY <1>9, <1>11, <1>13 DEF ChangeTail
<1>14. ASSUME NEW requested \in Shown, NEW keep, NEW liveOnly \in BOOLEAN,
              ChangeScope(requested, keep, liveOnly)
       PROVE  SourceType'
  <2>1. PICK order : StartStream(requested, Picked(records, order), liveOnly)
    BY <1>14 DEF ChangeScope
  <2> QED
    BY <1>9, <1>11, <1>14, <2>1 DEF ChangeScope
<1>15. ASSUME NEW s \in 1..MaxStreams, NEW t \in Targets, SignedOut(s, t)
       PROVE  SourceType'
  BY <1>1, <1>3, <1>15, StoppedType DEF SignedOut, NoBuffer, routeVars
<1>16. ASSUME NEW t \in Targets,
              \/ OnOpen(t) \/ OnEnd(t) \/ OnError(t) \/ Reopen(t)
              \/ \E i \in Ahead(t) : \E seq \in Numbers(t, i) : OnActivity(t, i, seq)
       PROVE  SourceType'
  BY <1>16, SourceTypeSteps
<1>17. ASSUME NEW t, NEW time, Produce(t, time)
       PROVE  SourceType'
  BY <1>17, GrownType DEF Produce
<1>18. ASSUME NEW s \in 1..MaxStreams, NEW t \in Targets, Checked(s, t)
       PROVE  SourceType'
  BY <1>18, CheckedType
<1>19. ASSUME NEW page \in Pages, OtherContinues(page) \/ Ends(page)
       PROVE  SourceType'
  <2>1. waiting' \in [Screens -> Nat]
    BY <1>1, <1>2, <1>3, <1>19 DEF OtherContinues, Ends
  <2> QED
    BY <1>1, <1>3, <1>19, <2>1
       DEF OtherContinues, Ends, streamVars, sourceVars, bufferVars, SourceType
<1>20. CASE DrawAgain \/ SendToken
  <2>1. waiting' \in [Screens -> Nat]
    BY <1>2, <1>3, <1>20 DEF DrawAgain, SendToken
  <2> QED
    BY <1>1, <1>20, <2>1
       DEF DrawAgain, SendToken, streamVars, sourceVars, bufferVars, SourceType
<1>21. CASE Clear \/ UNCHANGED vars
  BY <1>1, <1>21
     DEF Clear, vars, pageVars, routeVars, streamVars, sourceVars, bufferVars, SourceType
<1> QED
  BY <1>4, <1>6, <1>7, <1>8, <1>12, <1>13, <1>14, <1>15, <1>16, <1>17, <1>18, <1>19,
     <1>20, <1>21 DEF Next

-----------------------------------------------------------------------------
\* The initial state satisfies the invariant.
LEMMA InitBufferInv == ASSUME Init PROVE BufferInv
<1>1. LogType /\ Len(log) = 0
  BY DEF Init, LogType
<1>2. Buffered(records, seen)
  BY EmptyBuffer DEF Init
<1>3. SourceType
  <2>1. \A t \in Targets : ~tailed[t]
    BY Zenon DEF Init
  <2>2. /\ tailed \in [Targets -> BOOLEAN]
        /\ position \in [Targets -> 0..Len(log)] /\ number \in [Targets -> Nat]
        /\ last \in [Targets -> Nat]
    BY <1>1 DEF Init
  <2> QED
    BY <2>1, <2>2 DEF Init, SourceType, Screens, Pages
<1> QED
  BY <1>1, <1>2, <1>3, InitIInv DEF BufferInv

\* The strengthened invariant holds in every reachable state.
LEMMA BufferInvariance == Spec => []BufferInv
<1>1. Init => BufferInv
  BY InitBufferInv
<1>2. BufferInv /\ [Next]_vars => BufferInv'
  <2> SUFFICES ASSUME BufferInv, [Next]_vars PROVE BufferInv'
    OBVIOUS
  <2>1. IInv' /\ LogType'
    BY NextIInv, LogSteps DEF BufferInv
  <2>2. SourceType'
    BY SourceTypeNext
  <2>3. Buffered(records, seen)'
    <3>1. Buffered(records', seen')
      BY BufferSteps
    <3> QED
      BY <3>1 DEF Buffered, Filters, Distinct, KeysOf
  <2> QED
    BY <2>1, <2>2, <2>3 DEF BufferInv
<1> QED
  BY <1>1, <1>2, PTL DEF Spec

\* Every variable keeps its type: in particular only a source that is opened for
\* the first time asks for the tail (openActivitySource), and none is ahead of
\* the log.
THEOREM TypeCorrect == Spec => []TypeOK
<1>1. BufferInv => TypeOK
  <2> SUFFICES ASSUME BufferInv PROVE TypeOK
    OBVIOUS
  <2>1. \A i \in DOMAIN log : log[i].target \in Targets /\ log[i].time \in Nat
    BY LogParts DEF BufferInv
  <2>2. \A i \in DOMAIN records : records[i].notice \in BOOLEAN /\ records[i].time \in Nat
    <3>1. \A i \in DOMAIN records : records[i] \in Entries
      BY DEF BufferInv, Buffered
    <3> QED
      BY <3>1, EntryParts
  <2> QED
    BY <2>1, <2>2 DEF BufferInv, IInv, PageType, SourceType, TypeOK
<1> QED
  BY <1>1, BufferInvariance, PTL

\* The filter for repeats knows the buffer: what it rejects is there and what is
\* there it rejects (stream.seen beside stream.records in the listener for
\* "activity", trimActivityBuffer, startActivityStream and clear-stream).
THEOREM FilterKnowsBuffer == Spec => []SeenIsBuffered
<1>1. BufferInv => SeenIsBuffered
  BY DEF BufferInv, Buffered, Filters, SeenIsBuffered
<1> QED
  BY <1>1, BufferInvariance, PTL

\* No record is in the buffer twice: whatever tails and rings are replayed to a
\* source that is opened or opened again, under whatever numbers, and whatever
\* entries are retained, joined or evicted (Manager.Subscribe, and the listener for
\* "activity" with activityRecordKeys and coalesceActivityRecord).
THEOREM BufferHasNoRepeats == Spec => []NoRepeats
<1>1. BufferInv => NoRepeats
  BY DEF BufferInv, Buffered, Distinct, NoRepeats
<1> QED
  BY <1>1, BufferInvariance, PTL
=============================================================================
