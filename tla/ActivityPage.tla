---------------------------- MODULE ActivityPage ----------------------------
(***************************************************************************)
(* The activity page of one browser tab, webembed/src/app: the streams of  *)
(* 42-activity-streams.js with their reconnection, the buffer of records   *)
(* they fill, and what the user does to it (76-activity-actions.js,        *)
(* 40-activity-shell.js, 41-log-scope.js), with the router and the login   *)
(* of 00-core.js that stop them.                                           *)
(*                                                                         *)
(* The server is what a source delivers (internal/activity/manager.go):    *)
(* the records of its target from the tail, from now on, or from the ring  *)
(* of a stream that runs already, some of them lost on the way.  A record  *)
(* is its position in the log; what the keys are made of is left out, and  *)
(* different records are taken to differ in content.                       *)
(*                                                                         *)
(* A navigation stops the streams at once, but what it shows may wait for  *)
(* answers of the server, and nothing stops a render that waits: it draws  *)
(* over whatever is shown by then.                                         *)
(***************************************************************************)
EXTENDS Integers, Sequences, FiniteSets, SequencesExt

CONSTANTS
  Targets,     \* workloads whose activity is shown
  MaxRecords,  \* bound: records that are logged
  MaxStreams,  \* bound: streams that are started
  MaxWaiting,  \* bound: renders and tokens that wait for an answer at a time
  BufferSize,  \* 3000
  Evicted,     \* 500
  TailLines,   \* records a new stream begins with, unless it is live only
  RingSize,    \* 500: records a stream replays to a source that joins it
  Taken,       \* bound: numbers that others take of the manager's counter
  Structured   \* records that join no entry: structured text, not of Kubernetes,
               \* or too long for the entry

ASSUME PageAssumption ==
  /\ MaxRecords \in Nat /\ MaxStreams \in Nat /\ MaxWaiting \in Nat
  /\ TailLines \in Nat /\ RingSize \in Nat /\ Taken \in Nat
  /\ BufferSize \in Nat /\ Evicted \in 1..BufferSize
  /\ Structured \subseteq Nat

VARIABLES
  log,       \* the records: target and time
  screen,    \* the page that is drawn, "login" for the login form
  meta,      \* state.meta is known
  waiting,   \* of each page: renders that wait for an answer; of the login form:
             \* tokens that do
  stream,    \* state.stream: the number of the stream, or 0
  started,   \* streams started so far
  targets,   \* stream.targets
  overdrawn, \* history: a render that had waited drew another page over the one of
             \* the stream
  status,    \* of each stream and target: the state of its source
  tailed,    \* the source of a target asks for the tail
  position,  \* how far in the log the source of a target has come
  number,    \* the number of the record it delivered last, or 0
  records,   \* stream.records
  seen,      \* stream.seen
  last       \* stream.lastSequence, 0 before the first record

Pages   == {"activity", "other"}
Screens == Pages \cup {"login"}

routeVars  == <<meta, waiting>>
streamVars == <<stream, started, targets, overdrawn>>
pageVars   == <<screen, routeVars, streamVars>>
sourceVars == <<status, tailed, position, number>>
bufferVars == <<records, seen, last>>

vars == <<log, pageVars, sourceVars, bufferVars>>

\* A source is open.
Open == {"connecting", "connected"}

Init ==
  /\ log = <<>>
  /\ screen = "other"
  /\ meta = FALSE /\ waiting = [page \in Screens |-> 0]
  /\ stream = 0 /\ started = 0 /\ targets = {} /\ overdrawn = FALSE
  /\ status = [s \in 1..MaxStreams |-> [t \in Targets |-> "none"]]
  /\ tailed = [t \in Targets |-> FALSE]
  /\ position = [t \in Targets |-> 0] /\ number = [t \in Targets |-> 0]
  /\ records = <<>> /\ seen = {} /\ last = [t \in Targets |-> 0]

\* A workload logs a line, at the time of the previous one or later.
Produce(t, time) ==
  /\ Len(log) < MaxRecords
  /\ log' = Append(log, [target |-> t, time |-> time])
  /\ UNCHANGED <<pageVars, sourceVars, bufferVars>>

Now == IF log = <<>> THEN 1 ELSE log[Len(log)].time

-----------------------------------------------------------------------------
(* Starting and stopping. *)

\* stopActivityStream closes the sources and clears the timers; an error
\* listener that awaits its answer stays.
StopStatus ==
  IF stream = 0 THEN status
  ELSE [status EXCEPT ![stream] =
         [t \in Targets |-> IF @[t] = "checking" THEN @[t] ELSE "closed"]]

\* No source is on its way through the log.
NoSource ==
  /\ tailed' = [t \in Targets |-> FALSE]
  /\ position' = [t \in Targets |-> 0] /\ number' = [t \in Targets |-> 0]

\* Nothing of a stream is left.
NoBuffer == records' = <<>> /\ seen' = {} /\ last' = [t \in Targets |-> 0]

StopStream ==
  /\ stream' = 0 /\ targets' = {} /\ overdrawn' = FALSE /\ status' = StopStatus
  /\ NoBuffer /\ NoSource
  /\ UNCHANGED started

\* activityRecordKeys
KeysOf(entries) == UNION {ToSet(entries[i].keys) : i \in DOMAIN entries}

\* startActivityStream(request, retained, { liveOnly })
StartStream(requested, retained, liveOnly) ==
  LET kept == IF Len(retained) <= BufferSize THEN retained
              ELSE SubSeq(retained, Len(retained) - BufferSize + 1, Len(retained))
  IN
  /\ started < MaxStreams
  /\ started' = started + 1 /\ stream' = started + 1
  /\ targets' = requested /\ overdrawn' = FALSE
  /\ status' = [StopStatus EXCEPT ![started + 1] =
                  [t \in Targets |-> IF t \in requested THEN "connecting" ELSE "none"]]
  /\ tailed' = [t \in Targets |-> t \in requested /\ ~liveOnly]
  /\ position' = [t \in Targets |-> 0] /\ number' = [t \in Targets |-> 0]
  /\ records' = kept /\ seen' = KeysOf(kept)
  /\ last' = [t \in Targets |-> 0]
  /\ UNCHANGED log

-----------------------------------------------------------------------------
(* The pages: renderRoute, renderActivity and renderLogin. *)

\* What an activity page may be asked to show.
Requested == (SUBSET Targets) \ {{}}

\* A render of the page, or a token, begins to wait, or waits no longer.
Waits(page) ==
  /\ FoldFunction(+, 0, waiting) < MaxWaiting
  /\ waiting' = [waiting EXCEPT ![page] = @ + 1]
Continues(page) ==
  /\ waiting[page] > 0
  /\ waiting' = [waiting EXCEPT ![page] = @ - 1]

\* Whatever page is next, the stream is stopped.  Without the meta data the page
\* waits, and the old one is left as it is.
Navigate(page) ==
  /\ ~meta
  /\ Waits(page) /\ StopStream
  /\ UNCHANGED <<log, screen, meta>>

OpenActivity(requested) ==
  /\ meta
  /\ screen' = "activity"
  /\ StartStream(requested, <<>>, FALSE)
  /\ UNCHANGED <<meta, waiting>>

\* Most other pages wait for their data; some of them show that they do, and the
\* metrics of a workload are drawn at once.
Leave ==
  /\ meta
  /\ StopStream
  /\ \/ Waits("other") /\ screen' \in {screen, "other"}
     \/ screen' = "other" /\ UNCHANGED waiting
  /\ UNCHANGED <<log, meta>>

\* A dialog of another page has the page drawn anew when it is answered.
DrawAgain ==
  /\ screen = "other"
  /\ Waits("other")
  /\ UNCHANGED <<log, screen, meta, streamVars, sourceVars, bufferVars>>

\* The meta data has come, and the activity page that waited for it is drawn.
ActivityContinues(requested) ==
  /\ Continues("activity")
  /\ screen' = "activity" /\ meta' = TRUE
  /\ StartStream(requested, <<>>, FALSE)

\* Another page is drawn and done or waits again, or an error in place of any
\* page; the activity stream is left alone.
OtherContinues(page) ==
  /\ \/ Continues(page)
     \/ page = "other" /\ waiting[page] > 0 /\ UNCHANGED waiting
  /\ screen' = "other"
  /\ meta' \in {meta, TRUE} /\ overdrawn' = (stream # 0)
  /\ UNCHANGED <<log, stream, started, targets, sourceVars, bufferVars>>

\* A render ends with nothing drawn: a later one of the same page has overtaken
\* it, or it was denied.
Ends(page) ==
  /\ Continues(page)
  /\ UNCHANGED <<log, screen, meta, streamVars, sourceVars, bufferVars>>

\* renderLogin stops the activity stream.
ShowLogin ==
  /\ screen' = "login" /\ StopStream
  /\ UNCHANGED <<log, meta>>

\* Some request of the page is answered with 401.
Denied == screen # "login" /\ ShowLogin /\ UNCHANGED waiting

SendToken ==
  /\ screen = "login" /\ Waits("login")
  /\ UNCHANGED <<log, screen, meta, streamVars, sourceVars, bufferVars>>

\* The page of the hash is rendered anew, and loads the meta data first.
TokenAccepted(page) ==
  /\ waiting["login"] > 0
  /\ waiting' = [waiting EXCEPT !["login"] = @ - 1, ![page] = @ + 1]
  /\ meta' = FALSE /\ StopStream
  /\ UNCHANGED <<log, screen>>

TokenRejected == Continues("login") /\ ShowLogin

-----------------------------------------------------------------------------
(* What the user does on the activity page. *)

\* What the page on the screen shows: the targets of its stream, if that has not
\* been stopped already.
Shown == IF stream = 0 THEN Requested ELSE {targets}

\* reconnect-stream: from now on, after what is there.
Reconnect ==
  /\ screen = "activity" /\ stream # 0
  /\ StartStream(targets, records, TRUE)
  /\ UNCHANGED <<screen, routeVars>>

\* The entries at the positions of a sequence.
Picked(entries, order) == [k \in DOMAIN order |-> entries[order[k]]]

\* Another scope, or runtime events no longer wanted: the records that match
\* are kept in their order.  Another scope replays the tail.  The controls of a
\* page that is being left still start a stream.
ChangeScope(requested, keep, liveOnly) ==
  /\ screen = "activity" /\ (liveOnly \/ Cardinality(requested) = 1)
  /\ \E order \in SetToSeqs({i \in DOMAIN records : ToSet(records[i].keys) \subseteq keep}) :
       /\ \A k, l \in DOMAIN order : k < l => order[k] < order[l]
       /\ StartStream(requested, Picked(records, order), liveOnly)
  /\ UNCHANGED <<screen, routeVars>>

\* Another length of the tail, or previous logs: nothing is kept.
ChangeTail(requested) ==
  /\ screen = "activity"
  /\ StartStream(requested, <<>>, FALSE)
  /\ UNCHANGED <<screen, routeVars>>

\* Mutant: the keys of what was cleared still count as seen.
ClearRecordsOnly ==
  /\ screen = "activity" /\ stream # 0
  /\ records' = <<>>
  /\ UNCHANGED <<log, pageVars, sourceVars, seen, last>>

\* clear-stream: the numbers seen last are kept.
Clear ==
  /\ screen = "activity" /\ stream # 0
  /\ records' = <<>> /\ seen' = {}
  /\ UNCHANGED <<log, pageVars, sourceVars, last>>

-----------------------------------------------------------------------------
(* openActivitySource: the listeners. *)

SetStatus(s, t, state) == status' = [status EXCEPT ![s][t] = state]

\* The records of target t.
OfTarget(t) == {i \in DOMAIN log : log[i].target = t}

\* The position before the last TailLines records of t.
TailOf(t) ==
  LET later(i) == Cardinality({j \in OfTarget(t) : j > i}) IN
    CHOOSE i \in 0..Len(log) :
      /\ later(i) <= TailLines
      /\ \A j \in 0..(i - 1) : later(j) > TailLines

\* Where a source may begin: the stream of its request starts with the tail or
\* from now on, or it runs already, for another viewer or because nobody has
\* missed it yet, and replays its ring.
Beginnings(t) ==
  {IF tailed[t] THEN TailOf(t) ELSE Len(log)} \cup
  {i \in 0..Len(log) : Cardinality({j \in OfTarget(t) : j > i}) <= RingSize}

\* "open"
OnOpen(t) ==
  /\ stream # 0 /\ status[stream][t] = "connecting"
  /\ SetStatus(stream, t, "connected")
  /\ \E i \in Beginnings(t) : position' = [position EXCEPT ![t] = i]
  /\ tailed' = [tailed EXCEPT ![t] = FALSE]
  /\ UNCHANGED <<log, pageVars, number, bufferVars>>

\* What the source of t may deliver next: those before it in the log were lost,
\* because the queue of its viewer was full or the connection broken.
Ahead(t) == {i \in OfTarget(t) : i > position[t]}

\* The numbers record i may bear: they grow along a stream, but the manager counts
\* the records and notices of all its streams, and begins anew with the server.
Numbers(t, i) == (number[t] + 1)..(i + Taken)

Skips(t, seq) == last[t] > 0 /\ seq > last[t] + 1

\* The notices the page adds before record i: one when its number skips some.
Notices(t, i, seq) ==
  IF Skips(t, seq)
  THEN <<[keys |-> <<<<t, log[i].time, last[t], seq>>>>, time |-> log[i].time, notice |-> TRUE]>>
  ELSE <<>>

Entry(i) == [keys |-> <<<<i>>>>, time |-> log[i].time, notice |-> FALSE]

\* coalesceActivityRecord: a plain line of the same time joins the entry before it.
Coalesces(entries, i) ==
  /\ Cardinality(targets) = 1 /\ i \notin Structured
  /\ entries # <<>>
  /\ ~Last(entries).notice /\ Last(entries).time = log[i].time

Added(entries, i) ==
  IF Coalesces(entries, i)
  THEN [entries EXCEPT ![Len(entries)].keys = Append(@, <<i>>)]
  ELSE Append(entries, Entry(i))

\* compareMergedRecords: several streams are merged by time.  Entries of the same
\* time come in any order: the numbers of their arrival, which begin anew with
\* every stream and are given to a record before its notice, are left out.
Merged(entries) ==
  IF Cardinality(targets) > 1
  THEN {Picked(entries, order) :
          order \in {o \in SetToSeqs(DOMAIN entries) :
                       \A k, l \in DOMAIN o :
                         k < l => entries[o[k]].time <= entries[o[l]].time}}
  ELSE {entries}

\* Mutant: evicted records still count as seen.
TrimmedKeepsSeen(entries, keys) ==
  IF Len(entries) <= BufferSize THEN <<entries, keys>>
  ELSE <<SubSeq(entries, Evicted + 1, Len(entries)), keys>>

\* trimActivityBuffer: what is left, and the keys of what is left.
Trimmed(entries, keys) ==
  IF Len(entries) <= BufferSize THEN <<entries, keys>>
  ELSE <<SubSeq(entries, Evicted + 1, Len(entries)),
         keys \ KeysOf(SubSeq(entries, 1, Evicted))>>

\* Mutant: a repeat is told by its number.
IsRepeatByNumber(t, i, seq) == seq <= last[t]

\* The record is in the buffer already.
IsRepeat(t, i, seq) == <<i>> \in seen

\* "activity"
OnActivity(t, i, seq) ==
  LET noticed == records \o Notices(t, i, seq)
      known == seen \cup KeysOf(Notices(t, i, seq))
  IN
  /\ stream # 0 /\ status[stream][t] = "connected"
  /\ position' = [position EXCEPT ![t] = i] /\ number' = [number EXCEPT ![t] = seq]
  /\ last' = IF seq > last[t] THEN [last EXCEPT ![t] = seq] ELSE last
  /\ IF IsRepeat(t, i, seq)
     THEN records' = noticed /\ seen' = known
     ELSE \E merged \in Merged(Added(noticed, i)) :
            LET trimmed == Trimmed(merged, known \cup {<<i>>})
            IN  records' = trimmed[1] /\ seen' = trimmed[2]
  /\ UNCHANGED <<log, pageVars, status, tailed>>

\* Mutant: a source that is opened again asks for the tail again.
CloseSourceKeepsTail(t) ==
  /\ position' = [position EXCEPT ![t] = 0] /\ number' = [number EXCEPT ![t] = 0]
  /\ UNCHANGED tailed

\* The source of t is closed; its way through the log is over.
CloseSource(t) ==
  /\ tailed' = [tailed EXCEPT ![t] = FALSE]
  /\ position' = [position EXCEPT ![t] = 0] /\ number' = [number EXCEPT ![t] = 0]

\* "activity-end"
OnEnd(t) ==
  /\ stream # 0 /\ status[stream][t] = "connected"
  /\ SetStatus(stream, t, "ended")
  /\ CloseSource(t)
  /\ UNCHANGED <<log, pageVars, bufferVars>>

\* "error": the source is closed, and the session looked at.
OnError(t) ==
  /\ stream # 0 /\ status[stream][t] \in Open
  /\ SetStatus(stream, t, "checking")
  /\ CloseSource(t)
  /\ UNCHANGED <<log, pageVars, bufferVars>>

\* Mutant: the listener arms its timer whatever became of its stream.
CheckedUnguarded(s, t) ==
  /\ status[s][t] = "checking"
  /\ SetStatus(s, t, "waiting")
  /\ UNCHANGED <<log, pageVars, tailed, position, number, bufferVars>>

\* The session is valid, or nothing is known of it: try again later, unless the
\* stream has been replaced in the meantime.
Checked(s, t) ==
  /\ status[s][t] = "checking"
  /\ SetStatus(s, t, IF s = stream THEN "waiting" ELSE "closed")
  /\ UNCHANGED <<log, pageVars, tailed, position, number, bufferVars>>

\* The session has expired: the login form, whichever stream it was.
SignedOut(s, t) ==
  /\ status[s][t] = "checking"
  /\ screen' = "login" /\ stream' = 0 /\ targets' = {} /\ overdrawn' = FALSE
  /\ status' = [StopStatus EXCEPT ![s][t] = "closed"]
  /\ NoBuffer /\ NoSource
  /\ UNCHANGED <<log, routeVars, started>>

\* The timer: the source is opened again, for what is new.
Reopen(t) ==
  /\ stream # 0 /\ status[stream][t] = "waiting"
  /\ SetStatus(stream, t, "connecting")
  /\ UNCHANGED <<log, pageVars, tailed, position, number, bufferVars>>

-----------------------------------------------------------------------------
Next ==
  \/ \E t \in Targets, later \in {0, 1} : Produce(t, Now + later)
  \/ \E requested \in Requested : OpenActivity(requested) \/ ActivityContinues(requested)
  \/ \E page \in Pages : \/ Navigate(page) \/ OtherContinues(page) \/ Ends(page)
                         \/ TokenAccepted(page)
  \/ Leave \/ DrawAgain \/ Denied \/ SendToken \/ TokenRejected
  \/ Reconnect \/ Clear
  \/ \E requested \in Shown :
       \/ ChangeTail(requested)
       \/ \E keep \in SUBSET seen, liveOnly \in BOOLEAN :
            ChangeScope(requested, keep, liveOnly)
  \/ \E t \in Targets : \/ OnOpen(t) \/ OnEnd(t) \/ OnError(t) \/ Reopen(t)
                        \/ \E i \in Ahead(t) : \E seq \in Numbers(t, i) : OnActivity(t, i, seq)
  \/ \E s \in 1..MaxStreams, t \in Targets : Checked(s, t) \/ SignedOut(s, t)

Spec == Init /\ [][Next]_vars

-----------------------------------------------------------------------------
States == {"none", "connecting", "connected", "checking", "waiting", "ended",
           "closed"}

\* Every variable has its type; only a source that is opened for the first time
\* asks for the tail, and none is ahead of the log.
TypeOK ==
  /\ \A i \in DOMAIN log : log[i].target \in Targets /\ log[i].time \in Nat
  /\ screen \in Screens /\ meta \in BOOLEAN /\ overdrawn \in BOOLEAN
  /\ waiting \in [Screens -> Nat]
  /\ started \in 0..MaxStreams /\ stream \in {0, started}
  /\ targets \subseteq Targets /\ (stream = 0 <=> targets = {})
  /\ status \in [1..MaxStreams -> [Targets -> States]]
  /\ tailed \in [Targets -> BOOLEAN]
  /\ \A t \in Targets : tailed[t] => stream # 0 /\ status[stream][t] = "connecting"
  /\ position \in [Targets -> 0..Len(log)]
  /\ number \in [Targets -> Nat] /\ last \in [Targets -> Nat]
  /\ \A i \in DOMAIN records : records[i].notice \in BOOLEAN /\ records[i].time \in Nat

\* Nothing is left behind: a source is open or a timer armed only for a target
\* of state.stream, where the next navigation or login stops it, however the
\* streams before it were stopped and whatever their listeners were waiting for.
\* None is open under the login form, and none under a page other than its own
\* unless a render that had waited drew that page over it (00-core.js:354-363).
NothingLeftBehind ==
  \A s \in 1..MaxStreams, t \in Targets :
    status[s][t] \in Open \cup {"waiting"} =>
      /\ s = stream /\ t \in targets
      /\ screen # "login" /\ (screen = "activity" \/ overdrawn)

\* The filter for repeats knows the buffer: what it rejects is there, so no
\* record is lost to it, and what is there it rejects, whatever was retained,
\* coalesced, evicted or cleared.
SeenIsBuffered ==
  /\ seen \subseteq KeysOf(records)
  /\ \A i \in DOMAIN records : ~records[i].notice => ToSet(records[i].keys) \subseteq seen

\* No record is in the buffer twice: a source that is opened again while its
\* stream still runs is sent the whole ring again, under the old numbers or new
\* ones (manager.go:80-82, 43-log-rendering.js:219).
NoRepeats ==
  \A i, j \in DOMAIN records :
    ~records[i].notice /\ ~records[j].notice =>
      \A m \in DOMAIN records[i].keys, n \in DOMAIN records[j].keys :
        records[i].keys[m] = records[j].keys[n] => i = j /\ m = n
=============================================================================
