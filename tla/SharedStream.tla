---------------------------- MODULE SharedStream ----------------------------
(***************************************************************************)
(* The shared-stream manager of internal/activity/manager.go: viewers of   *)
(* the same request share one upstream provider stream, a bounded ring     *)
(* replays the recent records to a late viewer, every viewer has a bounded *)
(* queue that is never allowed to block the provider, and the upstream     *)
(* lingers for a while after its last viewer left.                         *)
(* internal/metrics/manager.go repeats the mechanism for samples; Payload  *)
(* selects the manager.                                                    *)
(*                                                                         *)
(* Steps are cut where the code can be preempted.  Everything done under   *)
(* Manager.mu is one step, except a broadcast: the readers drain their     *)
(* channels without the mutex, so each non-blocking send is a step of its  *)
(* own and the mutex is held (Locked) until the last one is done.          *)
(***************************************************************************)
EXTENDS Integers, Sequences

CONSTANTS
  Viewers,       \* Subscribe calls, one per open browser stream
  Keys,          \* request keys: StreamRequest.Key()
  Streams,       \* liveStream objects, each used once; bounds the restarts
  None,          \* the nil entry of a map
  RingSize,      \* Manager.ringSize
  MinCapacity,   \* least capacity of a subscriber channel
  Headroom,      \* room left in the channel after the replay
  Buffer,        \* capacity of run's channel between provider and manager
  MaxRecords,    \* bound: records one provider stream emits
  Payload        \* "activity" or "metric": which of the two managers this is

ASSUME ConstantsAssumption ==
  /\ RingSize \in Nat \ {0}
  /\ MinCapacity \in Nat \ {0}
  /\ Headroom \in Nat \ {0}
  /\ Buffer \in Nat \ {0}
  /\ MaxRecords \in Nat
  /\ Payload \in {"activity", "metric"}
  /\ None \notin Streams
  /\ None \notin Keys

VARIABLES
  streams,       \* Manager.streams: the stream serving each key, or None
  \* The liveStream objects:
  phase,         \* "free" (not made yet), "open" or "closed"
  keyOf,         \* key
  subscribers,   \* the viewers in the subscribers map
  nextSubID,     \* nextSubID
  ring,          \* ring
  published,     \* number of records broadcast so far
  cancelled,     \* ctx has been cancelled
  upstream,      \* the provider goroutine: "streaming", "failed" or "returned"
  backlog,       \* records in run's channel
  closeTimer,    \* an armed timer that closeTimer.Stop() would still stop
  firing,        \* stopIfUnused calls that nobody can stop any more
  \* The viewers, each with its subscriber and the handler reading it:
  status,        \* "idle", "watching", "ended", "leaving" or "gone"
  wanted,        \* the key it subscribed to
  source,        \* the stream Subscribe attached it to
  subID,         \* its id in that stream
  base,          \* records broadcast before the first one of its replay
  queue,         \* the channel's content
  capacity,      \* the channel's capacity
  closed,        \* the channel is closed
  dropped,       \* subscriber.dropped
  got,           \* history: what the handler received
  \* The manager:
  sequence,      \* Manager.sequence, one counter for all streams
  sending        \* the broadcast in progress, which holds Manager.mu

mapVars      == <<streams, phase, keyOf>>
registerVars == <<subscribers, nextSubID>>
ringVars     == <<ring, published>>
providerVars == <<cancelled, upstream, backlog>>
timerVars    == <<closeTimer, firing>>
joinVars     == <<wanted, source, subID, base, capacity>>
channelVars  == <<queue, dropped>>
sendVars     == <<sequence, sending>>

vars == <<mapVars, registerVars, ringVars, providerVars, timerVars,
          joinVars, channelVars, sendVars, status, closed, got>>

-----------------------------------------------------------------------------
(* Where the two managers differ *)

\* Only the activity manager tells a viewer how many records it dropped.
ReportsDrops == Payload = "activity"

\* Only the activity manager numbers the record of a provider error.
NumbersErrors == Payload = "activity"

\* Only the activity manager checks the scope of what the provider sends.
FiltersScope == Payload = "activity"

\* Mutant: the metrics handler waits for the browser, too.
EndsWithStreamNever == FALSE

\* Only the metrics handler returns when its channel closes; the activity
\* handler reports the end and keeps the response open.
EndsWithStream == Payload = "metric"

-----------------------------------------------------------------------------
(* The state *)

\* A channel entry.  n is the position of a record among those of its stream
\* (0 for a drop notice), count the number of records a drop notice announces.
Entry == [kind : {"record", "error", "dropped"}, n : Nat, seq : Nat, count : Nat]

Broadcast == [stream : Streams, entry : Entry,
              left : SUBSET Viewers,      \* subscribers still to be served
              noticed : SUBSET Viewers]   \* the one whose notice was tried

NotSending == [stream |-> None, entry |-> None, left |-> {}, noticed |-> {}]

TypeOK ==
  /\ streams \in [Keys -> Streams \cup {None}]
  /\ phase \in [Streams -> {"free", "open", "closed"}]
  /\ keyOf \in [Streams -> Keys \cup {None}]
  /\ subscribers \in [Streams -> SUBSET Viewers]
  /\ nextSubID \in [Streams -> Nat]
  /\ ring \in [Streams -> Seq(Entry)]
  /\ published \in [Streams -> Nat]
  /\ cancelled \in [Streams -> BOOLEAN]
  /\ upstream \in [Streams -> {"streaming", "failed", "returned"}]
  /\ backlog \in [Streams -> Nat]
  /\ closeTimer \in [Streams -> BOOLEAN]
  /\ firing \in [Streams -> Nat]
  /\ status \in [Viewers -> {"idle", "watching", "ended", "leaving", "gone"}]
  /\ wanted \in [Viewers -> Keys \cup {None}]
  /\ source \in [Viewers -> Streams \cup {None}]
  /\ subID \in [Viewers -> Nat]
  /\ base \in [Viewers -> Nat]
  /\ queue \in [Viewers -> Seq(Entry)]
  /\ capacity \in [Viewers -> Nat]
  /\ closed \in [Viewers -> BOOLEAN]
  /\ dropped \in [Viewers -> Nat]
  /\ got \in [Viewers -> Seq(Entry)]
  /\ sequence \in Nat
  /\ sending \in Broadcast \cup {NotSending}

Init ==
  /\ streams = [k \in Keys |-> None]
  /\ phase = [s \in Streams |-> "free"]
  /\ keyOf = [s \in Streams |-> None]
  /\ subscribers = [s \in Streams |-> {}]
  /\ nextSubID = [s \in Streams |-> 0]
  /\ ring = [s \in Streams |-> <<>>]
  /\ published = [s \in Streams |-> 0]
  /\ cancelled = [s \in Streams |-> FALSE]
  /\ upstream = [s \in Streams |-> "streaming"]
  /\ backlog = [s \in Streams |-> 0]
  /\ closeTimer = [s \in Streams |-> FALSE]
  /\ firing = [s \in Streams |-> 0]
  /\ status = [v \in Viewers |-> "idle"]
  /\ wanted = [v \in Viewers |-> None]
  /\ source = [v \in Viewers |-> None]
  /\ subID = [v \in Viewers |-> 0]
  /\ base = [v \in Viewers |-> 0]
  /\ queue = [v \in Viewers |-> <<>>]
  /\ capacity = [v \in Viewers |-> 0]
  /\ closed = [v \in Viewers |-> FALSE]
  /\ dropped = [v \in Viewers |-> 0]
  /\ got = [v \in Viewers |-> <<>>]
  /\ sequence = 0
  /\ sending = NotSending

\* A broadcast is under way and holds Manager.mu.
Locked == sending # NotSending

-----------------------------------------------------------------------------
(* Subscribe and unsubscribe *)

\* Mutant: the replay is not counted.
CapacityFixed(replayed) == MinCapacity

Capacity(replayed) ==
  IF replayed + Headroom > MinCapacity THEN replayed + Headroom ELSE MinCapacity

\* Mutant: every Subscribe starts a stream of its own.
JoinableNever(k) == {}

\* The stream that Subscribe may join: stream != nil && !stream.closed.
Joinable(k) == {s \in Streams : s = streams[k] /\ phase[s] # "closed"}

\* Subscribe joins or starts the stream of key k, stops the linger timer, takes
\* the next id, queues the replay in a new channel and registers the viewer.
Subscribe(v, k) ==
  /\ ~Locked
  /\ status[v] = "idle"
  /\ \E s \in Streams :
       /\ \/ s \in Joinable(k)
          \/ Joinable(k) = {} /\ phase[s] = "free"
       /\ streams' = [streams EXCEPT ![k] = s]
       /\ phase' = [phase EXCEPT ![s] = "open"]
       /\ keyOf' = [keyOf EXCEPT ![s] = k]
       /\ closeTimer' = [closeTimer EXCEPT ![s] = FALSE]
       /\ nextSubID' = [nextSubID EXCEPT ![s] = @ + 1]
       /\ subscribers' = [subscribers EXCEPT ![s] = @ \cup {v}]
       /\ source' = [source EXCEPT ![v] = s]
       /\ subID' = [subID EXCEPT ![v] = nextSubID[s] + 1]
       /\ queue' = [queue EXCEPT ![v] = ring[s]]
       /\ capacity' = [capacity EXCEPT ![v] = Capacity(Len(ring[s]))]
       /\ base' = [base EXCEPT ![v] = published[s] - Len(ring[s])]
  /\ wanted' = [wanted EXCEPT ![v] = k]
  /\ status' = [status EXCEPT ![v] = "watching"]
  /\ UNCHANGED <<ringVars, providerVars, firing, closed, dropped, got, sendVars>>

\* ProviderFor fails: Subscribe returns its error and registers nothing.
RefuseSubscribe(v) ==
  /\ status[v] = "idle"
  /\ status' = [status EXCEPT ![v] = "gone"]
  /\ UNCHANGED <<mapVars, registerVars, ringVars, providerVars, timerVars,
                 joinVars, channelVars, sendVars, closed, got>>

\* Mutant: the closure reads stream.nextSubID instead of its own subID.
RegisteredAsLatest(v, s) == {w \in subscribers[s] : subID[w] = nextSubID[s]}

\* current.subscribers[subID]: whoever holds the id of v in stream s.
Registered(v, s) == {w \in subscribers[s] : subID[w] = subID[v]}

\* Mutant: the count is taken before the delete.
LeavesIdleTooEarly(s, removed) == subscribers[s] = {} /\ phase[s] # "closed"

\* len(current.subscribers) == 0 && !current.closed, after the delete.
LeavesIdle(s, removed) == subscribers[s] \ removed = {} /\ phase[s] # "closed"

\* unsubscribe, run once: it looks the key up again, so the stream it works on
\* need not be the one the viewer subscribed to, and its id may by now be the
\* id of another viewer.  A timer that is replaced while armed is not stopped.
Unsubscribe(v) ==
  /\ ~Locked
  /\ status[v] = "leaving"
  /\ status' = [status EXCEPT ![v] = "gone"]
  /\ LET s == streams[wanted[v]] IN
       IF s = None
       THEN UNCHANGED <<subscribers, closed, timerVars>>
       ELSE LET removed == Registered(v, s)
                restart == LeavesIdle(s, removed)
            IN /\ subscribers' = [subscribers EXCEPT ![s] = @ \ removed]
               /\ closed' = [w \in Viewers |-> closed[w] \/ w \in removed]
               /\ closeTimer' = [closeTimer EXCEPT ![s] = @ \/ restart]
               /\ firing' = IF restart /\ closeTimer[s]
                            THEN [firing EXCEPT ![s] = @ + 1] ELSE firing
  /\ UNCHANGED <<mapVars, nextSubID, ringVars, providerVars, joinVars,
                 channelVars, sendVars, got>>

-----------------------------------------------------------------------------
(* The provider goroutine and run *)

\* The provider sends a record on run's channel.
Emit(s) ==
  /\ phase[s] = "open"
  /\ upstream[s] = "streaming"
  /\ backlog[s] < Buffer
  /\ published[s] + backlog[s] < MaxRecords
  /\ backlog' = [backlog EXCEPT ![s] = @ + 1]
  /\ UNCHANGED <<mapVars, registerVars, ringVars, cancelled, upstream, timerVars,
                 joinVars, channelVars, sendVars, status, closed, got>>

\* The provider's Stream call returns: because it was cancelled, because the
\* workload ended, or with an error of its own.
ProviderReturns(s) ==
  /\ phase[s] = "open"
  /\ upstream[s] = "streaming"
  /\ \E outcome \in {"failed", "returned"} :
       upstream' = [upstream EXCEPT ![s] = outcome]
  /\ UNCHANGED <<mapVars, registerVars, ringVars, cancelled, backlog, timerVars,
                 joinVars, channelVars, sendVars, status, closed, got>>

\* Mutant: the ring is kept newest first.
RingPrepend(r, entry) ==
  SubSeq(<<entry>> \o r, 1, IF Len(r) < RingSize THEN Len(r) + 1 ELSE RingSize)

\* The newest RingSize entries of the ring with one more appended.
RingAppend(r, entry) ==
  IF Len(r) < RingSize
  THEN Append(r, entry)
  ELSE SubSeq(Append(r, entry), Len(r) + 2 - RingSize, Len(r) + 1)

\* The head of broadcast: under the mutex, append the numbered record to the
\* ring and start to offer it to the subscribers of that moment.
BeginBroadcast(s, kind) ==
  LET numbered == kind = "record" \/ NumbersErrors
      entry == [kind |-> kind, n |-> published[s] + 1, count |-> 0,
                seq |-> IF numbered THEN sequence + 1 ELSE 0]
  IN /\ ~Locked
     /\ ring' = [ring EXCEPT ![s] = RingAppend(@, entry)]
     /\ published' = [published EXCEPT ![s] = @ + 1]
     /\ sequence' = IF numbered THEN sequence + 1 ELSE sequence
     /\ sending' = IF subscribers[s] = {} THEN NotSending
                   ELSE [stream |-> s, entry |-> entry,
                         left |-> subscribers[s], noticed |-> {}]
     /\ UNCHANGED <<mapVars, registerVars, cancelled, timerVars, joinVars,
                    channelVars, status, closed, got>>

\* run takes a record in scope from its channel and broadcasts it.
BroadcastRecord(s) ==
  /\ phase[s] = "open"
  /\ backlog[s] > 0
  /\ backlog' = [backlog EXCEPT ![s] = @ - 1]
  /\ BeginBroadcast(s, "record")
  /\ UNCHANGED upstream

\* recordMatchesStreamScope is false: run skips the record.
SkipRecord(s) ==
  /\ FiltersScope
  /\ phase[s] = "open"
  /\ backlog[s] > 0
  /\ backlog' = [backlog EXCEPT ![s] = @ - 1]
  /\ UNCHANGED <<mapVars, registerVars, ringVars, cancelled, upstream, timerVars,
                 joinVars, channelVars, sendVars, status, closed, got>>

\* The channel is drained and the provider failed: run broadcasts the error.
BroadcastError(s) ==
  /\ phase[s] = "open"
  /\ backlog[s] = 0
  /\ upstream[s] = "failed"
  /\ upstream' = [upstream EXCEPT ![s] = "returned"]
  /\ BeginBroadcast(s, "error")
  /\ UNCHANGED backlog

RunEnds(s) ==
  /\ ~Locked
  /\ phase[s] = "open"
  /\ backlog[s] = 0
  /\ upstream[s] = "returned"
  /\ phase' = [phase EXCEPT ![s] = "closed"]
  /\ UNCHANGED <<keyOf, nextSubID, ringVars, providerVars, timerVars, joinVars,
                 channelVars, sendVars, status, got>>

CloseChannels(of) == closed' = [w \in Viewers |-> closed[w] \/ w \in of]

\* Mutant: the map keeps the closed stream.
CloseStreamKeepsEntry(s) ==
  /\ RunEnds(s)
  /\ CloseChannels(subscribers[s])
  /\ subscribers' = [subscribers EXCEPT ![s] = {}]
  /\ UNCHANGED streams

\* Mutant: the subscribers stay registered with closed channels.
CloseStreamKeepsSubscribers(s) ==
  /\ RunEnds(s)
  /\ CloseChannels(subscribers[s])
  /\ streams' = [streams EXCEPT ![keyOf[s]] = None]
  /\ UNCHANGED subscribers

\* Mutant: the channels stay open.
CloseStreamKeepsChannels(s) ==
  /\ RunEnds(s)
  /\ streams' = [streams EXCEPT ![keyOf[s]] = None]
  /\ subscribers' = [subscribers EXCEPT ![s] = {}]
  /\ UNCHANGED closed

\* The end of run: mark the stream closed, drop the map entry of its key and
\* close the channel of every subscriber.
CloseStream(s) ==
  /\ RunEnds(s)
  /\ CloseChannels(subscribers[s])
  /\ streams' = [streams EXCEPT ![keyOf[s]] = None]
  /\ subscribers' = [subscribers EXCEPT ![s] = {}]

-----------------------------------------------------------------------------
(* The sends of a broadcast, one subscriber after the other *)

HasRoom(v) == Len(queue[v]) < capacity[v]

\* Subscriber v is the one the broadcast is working on, or may be next.
Serving(v) ==
  /\ v \in sending.left
  /\ sending.noticed # {} => v \in sending.noticed

Notice(v) ==
  [kind |-> "dropped", n |-> 0, seq |-> sequence + 1, count |-> dropped[v]]

\* Mutant: the counter is reset although the notice was not sent.
StillDroppedNone(v) == 0

\* What dropped is after the select: reset only if the notice was sent.
StillDropped(v) == IF HasRoom(v) THEN 0 ELSE dropped[v]

\* The select that announces dropped records; when the channel is full the
\* announcement is left for a later broadcast.
OfferNotice(v) ==
  /\ ReportsDrops
  /\ Serving(v)
  /\ v \notin sending.noticed
  /\ dropped[v] > 0
  /\ queue' = IF HasRoom(v) THEN [queue EXCEPT ![v] = Append(@, Notice(v))] ELSE queue
  /\ dropped' = [dropped EXCEPT ![v] = StillDropped(v)]
  /\ sequence' = sequence + 1
  /\ sending' = [sending EXCEPT !.noticed = {v}]
  /\ UNCHANGED <<mapVars, registerVars, ringVars, providerVars, timerVars,
                 joinVars, status, closed, got>>

\* The select that sends the record or counts it as dropped.
OfferRecord(v) ==
  /\ Serving(v)
  /\ ReportsDrops => v \in sending.noticed \/ dropped[v] = 0
  /\ IF HasRoom(v)
     THEN /\ queue' = [queue EXCEPT ![v] = Append(@, sending.entry)]
          /\ UNCHANGED dropped
     ELSE /\ dropped' = [dropped EXCEPT ![v] = @ + 1]
          /\ UNCHANGED queue
  /\ sending' = IF sending.left = {v} THEN NotSending
                ELSE [stream |-> sending.stream, entry |-> sending.entry,
                      left |-> sending.left \ {v}, noticed |-> {}]
  /\ UNCHANGED <<mapVars, registerVars, ringVars, providerVars, timerVars,
                 joinVars, sequence, status, closed, got>>

-----------------------------------------------------------------------------
(* The linger timer *)

\* The timer runs out; from here Stop() comes too late.
TimerFires(s) ==
  /\ closeTimer[s]
  /\ closeTimer' = [closeTimer EXCEPT ![s] = FALSE]
  /\ firing' = [firing EXCEPT ![s] = @ + 1]
  /\ UNCHANGED <<mapVars, registerVars, ringVars, providerVars, joinVars,
                 channelVars, sendVars, status, closed, got>>

\* Mutant: the test for subscribers is the wrong way round.
UnusedInverted(s) ==
  streams[keyOf[s]] = s /\ phase[s] # "closed" /\ subscribers[s] # {}

\* The stream still serves its key and nobody watches it.
Unused(s) ==
  streams[keyOf[s]] = s /\ phase[s] # "closed" /\ subscribers[s] = {}

\* Mutant: the callback of a timer that never expired.
TimerDueAlways(s) == phase[s] = "open"

TimerDue(s) == firing[s] > 0

StopIfUnused(s) ==
  /\ ~Locked
  /\ TimerDue(s)
  /\ firing' = [firing EXCEPT ![s] = @ - 1]
  /\ cancelled' = IF Unused(s) THEN [cancelled EXCEPT ![s] = TRUE] ELSE cancelled
  /\ UNCHANGED <<mapVars, registerVars, ringVars, upstream, backlog, closeTimer,
                 joinVars, channelVars, sendVars, status, closed, got>>

-----------------------------------------------------------------------------
(* The HTTP handler that reads the channel *)

Receive(v) ==
  /\ status[v] = "watching"
  /\ queue[v] # <<>>
  /\ queue' = [queue EXCEPT ![v] = Tail(@)]
  /\ got' = [got EXCEPT ![v] = Append(@, Head(queue[v]))]
  /\ UNCHANGED <<mapVars, registerVars, ringVars, providerVars, timerVars,
                 joinVars, dropped, sendVars, status, closed>>

\* The drained channel is closed; a handler that returns here unsubscribes.
SeeEnd(v) ==
  /\ status[v] = "watching"
  /\ queue[v] = <<>>
  /\ closed[v]
  /\ status' = [status EXCEPT ![v] = IF EndsWithStream THEN "leaving" ELSE "ended"]
  /\ UNCHANGED <<mapVars, registerVars, ringVars, providerVars, timerVars,
                 joinVars, channelVars, sendVars, closed, got>>

\* The request's context is done: the browser went away or closed the stream.
Disconnect(v) ==
  /\ status[v] \in {"watching", "ended"}
  /\ status' = [status EXCEPT ![v] = "leaving"]
  /\ UNCHANGED <<mapVars, registerVars, ringVars, providerVars, timerVars,
                 joinVars, channelVars, sendVars, closed, got>>

-----------------------------------------------------------------------------
Viewer(v) ==
  \/ \E k \in Keys : Subscribe(v, k)
  \/ RefuseSubscribe(v)
  \/ Receive(v)
  \/ SeeEnd(v)
  \/ Disconnect(v)
  \/ Unsubscribe(v)
  \/ OfferNotice(v)
  \/ OfferRecord(v)

Upstream(s) ==
  \/ Emit(s)
  \/ ProviderReturns(s)
  \/ BroadcastRecord(s)
  \/ SkipRecord(s)
  \/ BroadcastError(s)
  \/ CloseStream(s)
  \/ TimerFires(s)
  \/ StopIfUnused(s)

Next ==
  \/ \E v \in Viewers : Viewer(v)
  \/ \E s \in Streams : Upstream(s)

Spec == Init /\ [][Next]_vars

\* The steps the Go runtime owes: goroutines that can run do run, the mutex is
\* granted, the timer fires, and a provider whose context is cancelled returns.
\* Nobody has to subscribe or to disconnect, and a provider that is not
\* cancelled may stream for ever.
CancelledProviderReturns(s) == cancelled[s] /\ ProviderReturns(s)

Goroutines ==
  \/ \E v \in Viewers :
       Receive(v) \/ SeeEnd(v) \/ Unsubscribe(v) \/ OfferNotice(v) \/ OfferRecord(v)
  \/ \E s \in Streams :
       \/ BroadcastRecord(s) \/ BroadcastError(s) \/ CloseStream(s)
       \/ TimerFires(s) \/ StopIfUnused(s) \/ CancelledProviderReturns(s)

\* Weak fairness of them together is enough.  The bounds allow only finitely
\* many of these steps in a behaviour, and a step that is possible stays so
\* until its own goroutine moves on; so in the end none of them is left to do.
Fairness == WF_vars(Goroutines)

FairSpec == Spec /\ Fairness
-----------------------------------------------------------------------------
(* Safety *)

\* What viewer v has received and what is queued for it.
Feed(v) == got[v] \o queue[v]

\* Viewers of one request share one upstream: the map names exactly the open
\* streams, each under its own key.  Subscribe may therefore join what it
\* finds, and the unconditional delete at the end of run drops run's own entry
\* and never that of a successor (manager.go:50-64, 139-141).
SharedUpstream ==
  \A s \in Streams : \A k \in Keys :
    streams[k] = s <=> phase[s] = "open" /\ keyOf[s] = k

\* A registered subscriber belongs to an open stream and its channel is open,
\* also in the middle of a broadcast: the send never panics and no channel is
\* closed twice (manager.go:92-95, 142-145, 169-190).
NoSendAfterClose ==
  /\ \A s \in Streams : \A v \in subscribers[s] :
       phase[s] = "open" /\ source[v] = s /\ ~closed[v]
  /\ Locked => sending.left # {} /\ sending.left \subseteq subscribers[sending.stream]

\* A channel never holds more than its capacity: the replay, which is sent
\* blocking and under the mutex, always fits (manager.go:72-82).
QueueFits == \A v \in Viewers : Len(queue[v]) <= capacity[v]

\* The ring holds the most recent records of its stream, in order and without a
\* gap, so a late viewer is replayed exactly the newest ones (manager.go:165-168).
RingIsRecent ==
  \A s \in Streams :
    LET size == Len(ring[s]) IN
      /\ size = (IF published[s] < RingSize THEN published[s] ELSE RingSize)
      /\ \A i \in 1 .. size : ring[s][i].n = published[s] - size + i

\* A viewer gets the records of its stream in order, none twice, and none older
\* than the replay window it joined with.
OrderedFeed ==
  \A v \in Viewers : \A i, j \in 1 .. Len(Feed(v)) :
    LET a == Feed(v)[i]
        b == Feed(v)[j]
    IN a.kind # "dropped" => /\ a.n > base[v]
                             /\ i < j /\ b.kind # "dropped" => a.n < b.n

\* The records an entry stands for: itself, or those a notice reports lost.
Weight(entry) == IF entry.kind = "dropped" THEN entry.count ELSE 1

\* The records all entries of a feed stand for.
StandsFor(feed) ==
  LET upTo[i \in 0 .. Len(feed)] ==
        IF i = 0 THEN 0 ELSE upTo[i - 1] + Weight(feed[i])
  IN  upTo[Len(feed)]

Owed(v, s) ==
  published[s] - base[v] - (IF v \in sending.left THEN 1 ELSE 0)

\* Nothing disappears silently for good: every record since the viewer joined
\* is received, queued, announced by a drop notice, or still counted in
\* dropped (manager.go:169-190).
EveryRecordAccounted ==
  \A s \in Streams : \A v \in subscribers[s] :
    Owed(v, s) = dropped[v] + StandsFor(Feed(v))

\* An open stream nobody watches is on its way to be cancelled: its timer is
\* armed, a stopIfUnused call is due, or the cancellation has been made.  No
\* order of late unsubscribes and expired timers loses the timer
\* (manager.go:66-69, 96-98, 194-201).
IdleStreamIsTimed ==
  \A s \in Streams :
    phase[s] = "open" /\ subscribers[s] = {} =>
      closeTimer[s] \/ firing[s] > 0 \/ cancelled[s]

\* A late unsubscribe does little harm.  A channel is closed by the end of its
\* own stream or by an unsubscribe that finds its number: that of its own
\* viewer, or that of a namesake, which watched the same request under the same
\* number in a stream that has ended.  No unsubscribe closes two channels
\* (manager.go:70-71, 86-95).
ClosedByNamesake ==
  [][\A v \in Viewers :
       closed'[v] /\ ~closed[v] =>
         \/ phase'[source[v]] = "closed"
         \/ /\ \E w \in Viewers :
                 /\ status[w] = "leaving" /\ status'[w] = "gone"
                 /\ wanted[w] = wanted[v] /\ subID[w] = subID[v]
                 /\ w = v \/ phase[source[w]] = "closed"
            /\ \A u \in Viewers : closed'[u] /\ ~closed[u] => u = v]_vars

-----------------------------------------------------------------------------
(* Liveness *)

\* The upstream of a request nobody watches any more ends, unless a viewer
\* comes back in time.
UpstreamReleased ==
  \A s \in Streams :
    phase[s] = "open" /\ subscribers[s] = {}
      ~> phase[s] = "closed" \/ subscribers[s] # {}

\* When a stream has ended, each of its viewers gets to the end of its channel
\* (or has left): nobody waits for ever on a stream that is gone.
EndReachesViewer ==
  \A v \in Viewers, s \in Streams :
    source[v] = s /\ status[v] = "watching" /\ phase[s] = "closed"
      ~> status[v] # "watching"

\* A metrics response does not stay open behind a stream that has ended: its
\* handler sees the closed channel, returns and unsubscribes
\* (server/metrics.go:92, 104-112).
ResponseEnds ==
  \A v \in Viewers, s \in Streams :
    source[v] = s /\ status[v] = "watching" /\ phase[s] = "closed"
      ~> status[v] = "gone"

\* A viewer that left is unsubscribed in the end, and then no stream keeps it.
LeaverIsForgotten ==
  \A v \in Viewers :
    status[v] = "leaving"
      ~> status[v] = "gone" /\ \A s \in Streams : v \notin subscribers[s]

-----------------------------------------------------------------------------
(* Refinement *)

\* The records v has received.
Shown(v) ==
  {got[v][i].n : i \in {j \in 1 .. Len(got[v]) : got[v][j].kind # "dropped"}}

\* The last record shown to v; drop notices show nothing.
LastShown(v) ==
  IF Shown(v) = {} THEN base[v]
  ELSE CHOOSE n \in Shown(v) : \A m \in Shown(v) : m <= n

Finished == {s \in Streams : phase[s] = "closed"}

ShownTo == [v \in Viewers |-> LastShown(v)]

Promise == INSTANCE LiveFeed WITH
  Window   <- RingSize,
  current  <- streams,
  log      <- published,
  finished <- Finished,
  joined   <- source,
  shown    <- ShownTo

\* The manager implements LiveFeed: locks, queues, drops, timers and stale
\* unsubscribes are invisible behind it.
KeepsPromise == Promise!Spec

-----------------------------------------------------------------------------
(* What the documentation says and the code does not keep *)

\* docs/architecture.md: one upstream is shared, and it closes after the final
\* subscriber leaves.  So a channel is closed by the end of its own stream or
\* by the departure of its own viewer, never by another viewer.
ClosedByOwnCause ==
  [][\A v \in Viewers :
       closed'[v] /\ ~closed[v] =>
         phase'[source[v]] = "closed" \/ status'[v] = "gone"]_vars

\* docs/architecture.md: the upstream closes after the final subscriber leaves,
\* so a cancelled stream has no subscribers.
CancelledUnwatched ==
  \A s \in Streams :
    phase[s] = "open" /\ cancelled[s] => subscribers[s] = {}

\* docs/architecture.md: a slow viewer receives an explicit dropped-record
\* marker.  So where two records that follow each other in a feed are not
\* neighbours in the stream, the gap is marked.
GapIsMarked ==
  \A v \in Viewers : \A i \in 1 .. Len(Feed(v)) - 1 :
    LET a == Feed(v)[i]
        b == Feed(v)[i + 1]
    IN a.kind # "dropped" /\ b.kind # "dropped" => b.n = a.n + 1
=============================================================================
