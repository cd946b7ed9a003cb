# Runwake in TLA+

Runwake is a live viewer of Docker and Kubernetes workloads: one Go server with
an embedded browser interface, no database, and everything a viewer sees
streamed on demand. This directory holds TLA+ models of its stateful parts, TLC
configurations that check them on small instances, and TLAPS proofs that hold
for every size. Source paths are relative to the repository; `PROJECT.json` maps
every definition to the lines it stands for.

Contents: [the system](#1-the-system) · [the modules](#2-the-modules) ·
[the runs](#3-the-runs) · [fairness](#4-fairness) · [the proofs](#5-the-proofs) ·
[disagreements found](#6-where-code-and-documentation-disagree) ·
[what is left out](#7-what-is-not-modelled) · [the plan](#8-the-plan)

## 1. The system

| Component | State | Operations |
| --- | --- | --- |
| Activity manager, `internal/activity/manager.go` | map request key → live stream; per stream: subscribers, ids, replay ring, closed flag, linger timer; one sequence counter | `Subscribe` with replay, `unsubscribe`, `run`, `broadcast`, `stopIfUnused` |
| Metrics manager, `internal/metrics/manager.go` | the same for samples, and a snapshot cache with a load per connection | the same, `Snapshot`, `InvalidateSnapshot` |
| Stream handlers, `internal/server/{agents,metrics}.go` | one SSE response each | read a subscriber's channel, report its end, unsubscribe |
| Browser activity, `webembed/src/app/42-activity-streams.js` | open streams, highest sequence number, record buffer with the keys seen, one source and timer per target | record listener with gap detection, reconnection, merging, eviction, coalescing, stopping |
| Record store, `internal/store/store.go` | maps of connections, agents, profiles, settings and a JSON file each | save and delete with rollback, `Open` |
| Secret store, `internal/store/secrets.go` | one encrypted file per credential | `Put`, `Get`, `Delete` |
| Connection and profile handlers, `internal/server/{connections,ssh_profiles}.go` | the record each request works on | create, test a draft, PATCH, DELETE |
| Docker actions, `internal/server/docker_actions.go` | none | check the access mode, act, invalidate the caches |
| Workload inventory, `internal/workloadcache`, `connections.go:580-795` | inventory per connection with its time | plain and streamed refresh, read, delete |
| Browser inventory, `10-workloads.js`, `00-core.js` | workloads shown, cached and pending connections, open stream, number of the rendering | rendering, refresh, listeners, fallback, navigation, login, actions and what follows them |
| Settings, `store.go:200-221`, `connections.go:840` | log tail, exec policy, allow list | GET, PUT, defaults at start |
| Agent hub, client, deployment, `internal/agent`, `internal/server/agents.go` | sessions with generation and queues, sinks, bootstrap records | attach and detach, commands, deploy, enroll, remove, expire |
| Docker provider, `internal/dockerapi`; Kubernetes provider, `internal/kube` | the streams that are open to the runtime | inventory, logs, events, metrics, actions; reconcile of Pods |
| Transport, authentication, start-up, rendering, desktop shell, scripts | none, or sockets | – |

How they interact: a browser opens an SSE response; its handler subscribes to a
manager; the manager shares one provider stream among all requests with the same
key and fans its records out over one Go channel per viewer. Requests that ask
once (overview metrics, inventory) go through caches. Actions check the stored
access mode, go to the provider, and invalidate both caches; a PATCH or DELETE of a
connection drops its inventory too. Handlers and the
managers share state under `Manager.mu` and `Store.mu` only; everything else is
channels, timers and contexts. The remote-agent code is in the tree and tested
but switched off in `0.1.x` (`internal/app/app.go:114`).

What is hard here, and what should hold nevertheless:

- **Activity and metrics managers.** A broadcast holds the mutex but not the
  readers, a viewer can leave long after its stream was replaced, a linger timer
  can fire while a viewer joins, and a slow viewer drops. Viewers of one request
  share one upstream; no send hits a closed channel; the replay under the mutex
  cannot block; whatever is lost is counted; a stream nobody watches is released;
  an ended stream reaches its viewers.
- **Snapshot cache.** Loads overlap invalidations and outlive the entry they
  began with. Nobody who asks after an invalidation gets older data; concurrent
  requests share a load; nobody waits for ever.
- **Connections, profiles, secrets.** A request writes several files in
  sequence, any of which may fail, other requests run in between, and the process
  may be killed. A restart finds what was answered; no secret is orphaned; no
  record loses its secrets; a runtime is touched only after an opt-in.
- **Browser feed and activity page.** The page infers lost records from sequence
  numbers that other streams use as well; no gap may stay unannounced. It opens,
  breaks, reopens and replays several sources while listeners and whole renderings
  wait for answers: no source or timer may outlive its stream, no record may be shown twice, and the
  filter for repeats must know what is in the buffer.
- **Inventory.** Refreshes overlap actions, PATCHes, renderings and each other, a connection
  can be announced as complete before its last workloads, and a connection can fail
  after some of them. The cache holds whole answers; a refresh that completes shows
  them; the refresh button always comes back.
- **Pod streams.** Pods and containers restart between two listings, and followers
  are cancelled and started while they read. None is forgotten or left behind, and
  the lines of a run arrive.
- **Agents.** Reconnects replace sessions while commands are in flight; deploy and
  removal have five steps that can each fail.

The complete list, with lines, is `hazards` in `PROJECT.json`.

## 2. The modules

| Module | Stands for | Uses |
| --- | --- | --- |
| `SharedStream` | both managers and the handlers that read from them | – |
| `LiveFeed` | what sharing a stream promises a viewer (abstract) | – |
| `BrowserFeed` | the browser's gap detection behind a manager | extends `SharedStream` |
| `CachedReads` | what an invalidated cache promises (abstract) | – |
| `SnapshotCache` | overview metrics cache | refines `CachedReads` |
| `RecordStore` | records with rollback, secret files, reopening | – |
| `Registry` | connection, profile and action handlers | extends `RecordStore` |
| `WorkloadService` | the server's workload inventory: goroutine per connection, two channels, cache, runtime actions, PATCH | – |
| `WorkloadPage` | one browser tab's inventory, composed with that server | extends `WorkloadService` |
| `ActivityPage` | one browser tab's activity page | – |
| `PodStreams` | a Kubernetes stream: reconciliation of Pods and log followers | – |
| `MC*` | symmetry sets and constants for TLC | extend the module they name |
| `SharedStreamProofs`, `BrowserFeedProofs`, `SnapshotProofs`, `RegistryProofs`, `WorkloadPageProofs`, `ActivityPageProofs`, `PodStreamsProofs` | theorems | extend the module they name |
| `LeastElement` | a set of numbers has a least element: what the proofs use instead of an induction | – |

**SharedStream.** Variables named after the code's fields (`streams`,
`subscribers`, `nextSubID`, `ring`, `closeTimer`, `sequence`, ...). One action is
what happens under one acquisition of `Manager.mu`: `Subscribe`, `Unsubscribe`,
`CloseStream` (the end of `run`), `StopIfUnused`. The exception is `broadcast`:
`BeginBroadcast` appends to the ring and sets `sending`, each `select` is a step
(`OfferNotice`, `OfferRecord`), and `Locked` keeps everybody out until the last
one, because readers drain their channels meanwhile. The provider and `run`'s
channel between them are `Emit`, `ProviderReturns`, `BroadcastRecord`,
`SkipRecord`, `BroadcastError`. A timer is two facts: armed (`closeTimer`), and
fired but still waiting for the mutex (`firing`), when `Stop` comes too late.
`Unsubscribe` looks the key up again, as the closure does, so it may work on a
successor of its stream and on somebody else's id. The two Go files repeat the
mechanism and differ in three points, which are operators of `Payload`: drop
notices and numbered errors, the scope filter, and whether the handler ends with
its stream. A record is its position in its stream, its sequence number and its
kind; what it says is never looked at. Heartbeats and SSE framing are left out.

**BrowserFeed.** `ShowRecord` is the `activity` listener: it receives as the
handler does, compares `seq` with `lastSequence` and notes where it inserts its
own notice. Transport in between loses nothing on an open `EventSource`.

**SnapshotCache.** An entry is an object that calls hold pointers to, so a load
may complete into an entry that is no longer in the map. What a runtime contains
is a version number; `young` is the comparison with `maxAge`; `ReadRuntime` is the
moment within a load at which the provider sees the runtime.

**RecordStore, Registry.** A save is one step: map, file and rename happen under
`Store.mu`, and every reader needs that mutex. It may fail, then the map is put
back. Secrets have no mutex and are written and removed one at a time, a step
each. The handlers interleave between those steps; `Restart` kills all of them
and reads the files again. A record is its access mode and its secret ids.
The deferred cleanup of a create, of a draft test and of a failed build are the
same steps, `Discard` and `Discarded`. PATCH copies the record before it reads its
body and saves the copy, so `SaveUpdate` is a step of its own; the other handlers
read their body first. A save and the answer to its request are two steps as well
(`SaveUpdate`, `SaveCreated`, `DropRecord` and `Act`, then `Respond`): in between the
record is in use though nobody has been told, and the process may be killed.
`Managed` are the connections an earlier run saved with access mode `manage`. `saves`
is the history of the saves and deletes that took effect, and `begun` its length when a
PATCH or an action took its copy: `ActionNeedsOptIn` is a statement about that history.

**WorkloadService.** A request is a slot that holds what its handler holds: the
state of the goroutine of each connection (`job`), what they emitted (`found`), what
of it waits for the writing loop (`unsent`), and what is on the wire. `WriteItem` and
`WriteCompletion` are the two arms of the handler's `select`, in any order;
`WriteComplete` needs both channels drained. `handleWorkloads` is `AnswerList`;
`handleWorkloadCache` answers at once (`NewCachedRead`). A listing may be short
without being an error: Docker leaves out a container it cannot inspect
(`dockerapi/client.go:524-527`). When the browser closes a request its context is
cancelled (`Closed`): what has not been read is not read any more, what has been
may still be written into the cache. The wire is bounded, as a slow browser bounds
it. `RuntimeActs` and `Invalidate` are two steps with anything in between. The entry of a
connection is deleted (`Dropped`) after an action and after a PATCH, which any client
may send at any time (`Reconfigure`, `connections.go:130`); what the dialog of the tab
that sent it does next (`70-runtime-dialogs.js:47`) is left out. `answers` is a history:
of each connection the inventories it has given as a whole since the last deletion,
and those a refresh held then and had not written yet (`Unwritten`). The
connections are fixed. The deletion of one deletes its entry as well
(`connections.go:247`); a refresh under way may put it back, for a connection nobody
asks for any more.

**WorkloadPage.** Every `await` of the page ends a step, and what the function
captured before goes on with it: a rendering waits in `awaiting` for its connections
and in a request of its own for the cached inventory. `FinishRender` compares the
number of the rendering and not the route, as the code does. The listeners look at
`state.workloadStream` only, so the events of a source that was replaced are never
seen. `OnError` asks the same connections again without streaming (`fallingBack`).
"topology" stands for every page but the workloads. What the page knows of metrics,
its filters, its selection and its texts is left out, and so is the wait for the meta
data before a page is drawn, which `ActivityPage` has.

**ActivityPage.** Navigation is two steps. The stream is stopped at once (`Navigate`,
`Leave`), but the page may wait for the meta data or for its own, and nothing stops a
rendering that waits when another begins: it is counted in `waiting` and draws when its
answer comes, over whatever is shown by then (`ActivityContinues`, `OtherContinues`), or
finds itself overtaken (`Ends`). Meanwhile the old page and its controls are still there.
A token of the login form waits for its answer in the same way (`SendToken`,
`TokenAccepted`, `TokenRejected`). `overdrawn` notes that a rendering of another page,
having waited, drew over the page of the stream that is open.

Every target of a stream has a source with a status:
`checking` is the error listener that awaits the session check, `waiting` its timer.
A record is its position in a log that all targets share; records that differ are
taken to differ in content, because the page tells them apart by it (two equal lines
of one moment are one record to the page). The server behind a source is what the
source delivers, some of it lost, with numbers that start anew when the stream it joins
does. Where it begins is `Beginnings`: with the tail or from now on, if its request
starts a stream, or anywhere in the ring of one that runs already, because another
viewer has it or the linger is not over. A source that is opened again may thus be sent
again what the page has. `Structured` names the records that join no
entry. Several sources are merged by time; entries of one moment may then stand in any
order (`Merged` is a set of arrangements), because what decides between them restarts
with every stream. "other" stands for every other page, the metrics of a workload
included; their source is held by one variable and has no records to keep, and is left
out.

**PodStreams.** The cluster is external: Pods, containers, runs and lines.
`ListPods` and `Reconcile` are two steps, so that a Pod may change in between; what
the reconciliation compares is the fingerprint of the listing. A follower is numbered
by the start of its Pod, its container and whether it replays the run before. A
follower whose context is cancelled need not notice at once and may send one more
line after its replacement has taken its tail. Events, state records and messages
are left out. `kubectl.go` repeats the mechanism of `incluster.go`.

History variables (`got`, `announced`, `acted`, `strays`, `saves`, `begun`, `answers`,
`overdrawn`, `floor`, `owed`, `delivered`) record what happened for the properties; no
guard reads them. `done` in
`SnapshotCache` is not one of them: it is the set of wait channels that have been
closed.

## 3. The runs

| Run | Question | Instance |
| --- | --- | --- |
| `activity` | the invariants of the manager; how far a late unsubscribe reaches | 2 viewers, 1 key, 2 successive streams, 3 records and an error, ring 2, channel 1 |
| `activity_live` | release, end, forgetting; implements `LiveFeed` | the same, 1 record and an error, ring 1 |
| `metric` | responses end; implements `LiveFeed` without notices, under two keys | 2 viewers, 2 keys, 2 streams |
| `browser` | a gap in a slow browser is announced | 1 viewer, 1 stream, 5 records |
| `snapshot` | freshness, coalescing, wake-ups, return; implements `CachedReads` | 3 overlapping calls, 1 connection, 1 change, any number of invalidations |
| `registry` | records, secrets, opt-in | a connection saved with mode `manage`, 3 overlapping requests, up to 2 secrets each, any number of restarts and failing writes; 2.3 M states |
| `inventory` | the cache holds whole answers and nothing from before a deletion, a refresh that completes shows them | 2 connections with a container each, 2 requests at once, 2 renderings or refreshes, wire of 1, and one failure, action, PATCH, new container or refresh of the topology; 2.6 M states |
| `inventory_live` | the refresh button has something behind it and comes back | 1 connection, 1 container, 2 requests, 2 renderings, 1 broken source, 2 failures, actions or PATCHes; 1.0 M states |
| `page` | nothing left behind, no repeats, the filter knows the buffer | 2 targets, 2 records, 2 streams, 1 rendering or token that waits, ring 2, tail 1, buffer of 2 of which 1 is evicted, 1 number taken by others; 1.5 M states |
| `pods` | no follower forgotten or left, no line between two followers, lines arrive, `Stream` returns | 1 Pod, 1 container, 2 runs of 1 line, tail 1, previous run replayed, 1 lost connection; 80 k states |
| `closed_by_own_cause`, `others_untouched` | statements of the documentation that the code does not keep, see section 6 | the instances of `activity` (ring 1) and `inventory` |

Why these bounds suffice for the questions asked. Every hazard of the manager
is between two viewers, or between a viewer and a stream that has been replaced:
two viewers and two successive streams of one key give all of them. The real
numbers (ring 500 or 600, channel at least 256 or 128, 64 or 32 places beyond
the replay) only put the limits where TLC would not get to; with ring 2, channel
1 and 1 place every limit is hit, and the proofs make no assumption beyond being
positive. Three records and an error are more than ring and channel hold together,
so replay, overflow, notice and recovery occur in one behaviour. A call of the
cache can be overtaken by an invalidation, by a second load and by a third call
that waits for it: that takes three calls. Three requests cover a create or
PATCH that overlaps a DELETE or another PATCH while a third acts, before the second is
answered or after a restart. What a refresh shows can be spoilt by
another connection, by an action, by a PATCH or by the next refresh: two connections, two
requests and one event give each of these, and a wire of one event makes the handler
wait for the page. The activity page's hazards are between a stream and
its successor, between a stream and one rendering that was begun before it, and
between two merged sources; a ring as long as the log replays everything to a source
that is opened again, and a buffer of two evicts while records, notices and joined
lines are in it. Two runs and a replay are every way in which two followers of one
container can meet; the run has one container, so the restart of a neighbour in the
same Pod is in the proof of `NothingIsSkipped` only, which covers any number of Pods
and containers. `MaxRecords`, `MaxVersion`,
`MaxSecrets`, `Buffer` and the sets `Streams`, `Calls`, `Requests` (each member is
used once; in the inventory, requests at a time), `MaxRenders`, `MaxWire`, `MaxEvents`
and `MaxBreaks` of the inventory, `MaxStreams`, `MaxWaiting` and
`Taken` of the activity page (`RingSize`, `TailLines`, `BufferSize` and `Evicted` are
sizes of the code), `MaxRuns`, `MaxLines`,
`MaxBreaks` and `MaxStopping` of the Pods are the bounds; nothing else is cut off
(`MaxStarts` follows from them and is never the reason why a Pod is not started: it is
started once, and again only after a run of one of its containers has begun). Symmetry is used only with
safety properties, over sets no definition orders or chooses from. Deadlock is not
checked because all of these systems stop when their bounded supply of
viewers, calls, requests, records or runs is used up; that nothing gets stuck earlier is what
the liveness properties say.

In every run each property has a mutant: an operator next to the definition
it would replace, marked `Mutant:`, that makes a plausible mistake
(subscribers kept after close, a counter reset too early, a load stored under the
wrong entry, a deferred cleanup not switched off, a listener that arms its timer
whatever became of its stream). Each of them violates its property.

## 4. Fairness

`SharedStream!Fairness` is weak fairness of the steps the Go runtime owes:
goroutines that can run do, mutexes are granted, timers fire, a handler reads
its channel, and a provider whose context has been cancelled returns
(`CancelledProviderReturns`; every provider call of the repository takes that
context). Nobody is assumed to subscribe or disconnect, and a provider that is not
cancelled may stream for ever. `SnapshotCache!Fairness` lets each call that can go
on do so; a load ends because it has a limit of 45 seconds (`metrics/manager.go:93`).
`WorkloadPage!FairSpec`: the runtimes answer, the handlers write, and the browser
dispatches what arrives; the user need not do anything, nothing need break, and no
session need expire. Actions of the page that belong to a rendering (`awaiting`) need
no fairness, since they disable no button. `PodStreams!FairSpec`: the ticker ticks and
listings succeed in the end, the goroutines run, and the API server answers a log
request or refuses it; containers need neither start, stop nor log anything.
No strong fairness is used anywhere. `Registry` and `ActivityPage` have no liveness
property: the handlers of the one are straight lines of calls, and what the other
shows depends on users and servers that owe it nothing.

## 5. The proofs

The seven proof modules have the same shape: an inductive invariant `IInv`, a
lemma for the initial states, lemmas per action, one for the next-state relation, and
the theorems as its consequences. They assume what the modules' named assumptions
say: positive sizes, the activity manager behind `BrowserFeed`, `None` and `Failed`
different from what they stand beside, disjoint ids. No bound is used; in particular any
number of viewers, calls, requests, secrets, restarts, connections, containers, targets,
Pods and runs.

`SharedStreamProofs`: `TypeCorrect`, `UpstreamIsShared`, `SendsAreSafe`,
`ReplayNeverBlocks`, `RingHoldsNewest`, `IdleStreamIsNeverForgotten`, `FeedsAreOrdered`,
`EveryRecordIsAccounted`, `OnlyNamesakesAreClosed`, `EndsAreTold`, `LeaversAreForgotten`,
`ImplementsLiveFeed`. The invariants support each other: that no closed channel is
sent to needs the map to name exactly the open streams, because a late `Unsubscribe` may close the channel of
a viewer of the successor, which must then be removed there; that the replay fits
needs the ring's size. Beside them `IInv` needs only that open streams have keys and
that idle viewers are unused. The order of a feed needs one more invariant,
`FeedInv`: while a broadcast is at a viewer's predecessors, the newest record of the
stream is ahead of everything in that viewer's feed, so the record under way is always
the next one, sent or dropped. With it the last record shown is well defined, and the
refinement is a case per action: `Subscribe` is `Join`, the head of a broadcast is
`Publish`, `Receive` of a record is `Show`, the end of `run` is `Finish`, and the
rest is invisible.

`EveryRecordIsAccounted` says that no record a viewer was owed vanishes: received,
queued, announced as dropped and not yet announced add up to what was broadcast since
it joined. `CountInv` is that equation, in the middle of a broadcast as well, with what
a step could spoil it by: neither the ring nor a record under way is a notice, so a
replay counts as many records as it has entries, and a viewer who joins has dropped
nothing yet. What a feed stands for is a recursive function of it (`StandsFor`). An
induction over the feed is not available, so that the count of a longer feed is one
more is shown with the first place at which two counts could differ (`CountsAgree`).

`OnlyNamesakesAreClosed` bounds what a late `unsubscribe` can do (item 1 of section 6): it
closes one channel at most, and another viewer's only if that viewer watches the same
request under the same number and the leaver's own stream has ended. It needs
`SubIDInv`: a viewer that has joined asked for the key of its stream, whose object is
never made anew, and no stream gives a number twice. `EndsAreTold` and
`LeaversAreForgotten` say of the same lookup that it loses nobody: whoever is taken out of
a stream, by its end or by a namesake, finds a closed channel, and an `unsubscribe` that
has run leaves its viewer registered nowhere, because its own stream is the one it finds
as long as the viewer is registered there.

`BrowserFeedProofs`: `NoGapIsHidden`. The listener compares a record's number with the
highest it has seen, which may belong to a drop notice that overtook the record of its
own broadcast. `NumberInv` says why that hides nothing: a record a viewer missed has
taken a number between the next record's and all that came before, since the notices
of one broadcast are numbered before the next broadcast begins (the mutex again).

`SnapshotProofs`: `TypeCorrect`, `InvalidationsAreSeen`, `LoadsAreCoalesced`,
`WaitersAreWoken`, `ImplementsCachedReads`. Freshness of a result is not inductive:
results come from entries and from loads. An entry in the map is as new as the
last invalidation, because a load whose entry is still there began after it; a
load elsewhere is still new enough for its own call. The refinement is then a
case per action: only `Call`, the three ways to return, `Change` and
`InvalidateSnapshot` are visible in `CachedReads`.

`RegistryProofs`: `TypeCorrect`, `NothingIsForgotten`, `SecretsAreAccounted`,
`SecretsAreKept`, `ActionsAreOptedIn`. The invariant follows every secret: its id
names the request that made it (`SecretsAreNamed`), that request's record was
born with exactly those secrets (`StoredAsBorn`, `UpdatesKeepOrigin`), only a
DELETE of it holds them for removal (`DeletesHoldRest`), and a record is missing
only because somebody deleted it (`GoneWasDeleted`) — so a PATCH that saves an old
copy back cannot bring a profile's or an undeleted connection's secrets out of
step. That nobody acts without an opt-in is a statement about the order of the saves
(`OptedIn`): somewhere in it `manage` was granted, and every save since that took it away
was undone by a PATCH without a mode that had copied the record earlier. `ManageIsOptIn`
says of each stored record in mode `manage` that this holds of all saves so far, and of
each copy that a PATCH will save that it held when the copy was taken (`WasOpen`). The
save of such a copy is then itself what puts back whatever came in between
(`OptInGrows`); nothing that was saved earlier changes (`OptInStays`). The answer plays
no part in it: a save counts from the moment it is made.

`WorkloadPageProofs`: `TypeCorrect`, `CacheIsOneAnswer`, `CompleteIsTrue`,
`ButtonComesBack`. What a refresh shows is decided by events that were written in
any order by a handler that has forgotten about them, so the invariant follows a
workload: what the goroutines found for the stream of the page is what the page has
seen, what waits for the loop, and what is on the wire (`StreamServed`). "complete"
is the last event and is written when nothing waits; and nobody is going to find more
(`Finished`), because all targets have answered and nobody else was asked. When the
page handles it, found and seen are therefore the same. For the button,
`StreamServed`, `FallbackServed` and `ButtonServed` tie the flag to the stream, the
stream to its request, and both to the number of the latest rendering: a rendering
that starts takes the flag down with the stream, and an answer that belongs to an
earlier one finds another number.

`CacheIsOneAnswer` needs of every request that what it has found of a connection is
nothing before the answer and the whole answer, still among `answers`, after it
(`AnswersKept`). A deletion forgets all answers but those that such a request holds,
so it keeps that. The many steps that only move, close or free requests are one
lemma: whatever a request is afterwards, it has what one had before, or nothing
(`Inherits`, `Follow`).

`ActivityPageProofs`: `TypeCorrect`, `NothingStays`, `FilterKnowsBuffer`,
`BufferHasNoRepeats`. `NothingLeftBehind` speaks of open sources and
armed timers; a listener that awaits its answer may arm one later, so the invariant
adds that it belongs to a target of the stream if its stream is still the one shown
(`WatchersAreTargets`), and that a stream is open only behind the activity page, or behind
a page that a rendering drew over it after a wait (`StreamIsShown`).
The other three rest on `BufferInv`: the filter of keys and the absence of repeats hold
each other up, since a record that the filter lets through is new only if the filter
knows the buffer, and after an eviction the filter still knows what stays only if no
entry that stays has a key of one that goes. Nothing is assumed of what a source
delivers but that it is in the log, so replays of the ring are covered. Merging is
arbitrary but for the times, so that it neither adds nor drops entries is all that is
used of it.

`PodStreamsProofs`: `TypeCorrect`, `FollowersAreKnown`, `NothingIsSkipped`. A
reconciliation replaces the entries of `active` by new numbers; that no follower gets
lost needs that an entry is a start of the same Pod (part of `TypeOK`) and that
followers that run have a number already given (`LiveIsStarted`). That none is left at
the return needs the same for a `Stream` whose first listing fails (`BeginIsEmpty`).
`NothingIsSkipped` is what can be proved of `LinesArrive`: a line that has not arrived
is ahead of a follower, or the next reconciliation starts one that begins before it.
The follower that matters changes with every restart, and the one for the run before
may have been refused, cancelled or finished; so `LogsServed` says of each follower that
is there for a run, as long as the fingerprint of its Pod is the current one, that it
has yet to open the log, has sent it up to its position, or has ended because it is all
sent and nothing is added. `SeenHasBeen` is what makes the fingerprint tell a restart:
what was listed is never ahead of the cluster.

Only model-checked: the liveness properties (`UpstreamReleased`, `EndReachesViewer`,
`LeaverIsForgotten`, `ResponseEnds`, `CallsReturn`, `RefreshEnds`, `LinesArrive`,
`StreamReturns`), since TLAPS proves neither liveness under fairness nor `ENABLED`. What each of them
rests on is proved: that what it waits for is under way, or has left nothing behind
(`IdleStreamIsNeverForgotten`, `EndsAreTold`, `LeaversAreForgotten`, `WaitersAreWoken`,
`ButtonComesBack`, `NothingIsSkipped`, `FollowersAreKnown`).
Everything else the passing runs check is a theorem. The other
way round, `RingIsRecent`, `EndIsTold` and `GoneIsForgotten` are theorems without a run of
their own: the first is part of every proof about the ring, the others are defined beside
their proofs.

## 6. Where code and documentation disagree

The first two have a run whose counterexample shows it. The other four are stated in
the modules next to the properties that hold (`SharedStream`, `BrowserFeed`,
`Registry`); TLC refutes them on the instances of section 3, and no run is kept.

1. `ClosedByOwnCause`. Viewer A's stream ends, B subscribes to the same key and
   starts a new stream, in which ids begin at 1 again. A leaves: its `unsubscribe`
   finds the new stream under the key, and B under A's id. B is told that the
   stream ended while its upstream runs, and a cancellation is scheduled. What holds
   instead is `ClosedByNamesake`: nobody but the one viewer with that id is closed.
   (`activity/manager.go:88-97`; `docs/architecture.md:58`)
2. `OthersUntouched`. A refresh of one connection copies all that is shown when it
   starts and shows its copy when it ends. A container of another connection that is
   deleted in between disappears with the answer to the deletion and comes back with
   the end of the refresh. (`10-workloads.js:228`; `docs/architecture.md:72-73`)
3. `CancelledUnwatched`. The linger timer cancels a stream; before `run` has
   noticed, a viewer joins it and is shown its end. (`manager.go:52-53, 201`)
4. `GapIsMarked`. The drop notice finds the channel full, the reader takes an entry,
   the record after the notice finds room: the viewer gets a record after a gap
   without a marker. The count survives and is announced later, unless the stream
   ends first. (`manager.go:170-190`; `architecture.md:59-60`)
5. `AnnouncedIsMissing`. One counter numbers the records of all streams, the browser
   takes jumps within one stream for losses. (`manager.go:122`;
   `42-activity-streams.js:92-104`, `43-log-rendering.js:219`)
6. `RenamePreservesConfiguration`. Two overlapping PATCH requests: the rename saves
   the access mode of its copy and takes the other's change back.
   (`connections.go:98-131`; `server_test.go:500`)

Behaviours the models show that no document promises otherwise; each is a hazard in
`PROJECT.json` with a note:

- a rendering that waited, for the meta data or for its own, draws over an activity page
  that was opened meanwhile, and so does a dialog of the page that is being left; the
  stream of the activity page stays open behind it until the next navigation or login
  (`00-core.js:354`, `10-workloads.js:10`, `52-connection-submission.js:269`):
  `NothingLeftBehind` excepts it;
- a PATCH that overlaps a DELETE brings the connection back without its secrets
  (`connections.go:126`), and a DELETE that cannot write the file leaves it without them
  (`:242`): `RecordKeepsSecrets` excepts connections that somebody asked to delete;
- a rendering goes on after its `await` and draws the workloads over another page
  (`10-workloads.js:28`), or gives up because an action took its number (`:57`);
- a page that is left between the completion of a connection and the next drawing keeps
  a partial inventory marked as cached (`:258`);
- a fallback for all connections replaces everything, so the inventory of a connection
  that failed disappears, which a stream would have kept (`00-core.js:273`);
- an action on several containers whose session expires half way invalidates nothing of
  what was done (`70-runtime-dialogs.js:194`);
- a stopped stream that learns of an expired session late brings up the login form over
  a valid one (`42-activity-streams.js:133`);
- the cache can hold an inventory that was read before an action or PATCH invalidated
  it, if its refresh had not written it by then (`connections.go:787`): it is a whole
  answer, not necessarily the newest;
- a log follower that loses its connection while its Pod does not change is not opened
  again (`incluster.go:626`): `LinesArrive` excepts it.

## 7. What is not modelled

- **Agents** (hub, client, deployment): the code is switched off in this version
  (`internal/app/app.go:114`); no process reaches it.
- **Settings**: two handlers and one file; what can go wrong is that a saved zero or
  an empty list is replaced by its default at the next start (`store.go:201`), which
  needs no model to be seen.
- **Investigations** (`00-core.js:184`, `61-investigations.js`): experimental, and the
  personal store of one browser. Two hazards are listed.
- **Metric source of the page**: one source in one variable, closed by the next
  navigation; it may outlast the login form, which stops the activity stream only.
- **Docker logs, events and metrics**: per stream two goroutines that share a channel and
  nothing else.
- Parsing, decoding, formatting and rendering; kubeconfig, SSH and proxy processes;
  encryption, authentication, static files, the desktop shell, scripts and the
  third-party skills under `.agents` have no state that several actors share, or
  are I/O. The last make up most of the repository's lines.

In the modelled parts: connections are added and removed in `Registry` and fixed in
`WorkloadService`; the DELETE of a connection that a deployed agent needs is left to
the agents; `UpdateConnection` of the store has no caller among the modelled
handlers; a reconnecting browser counts as a new viewer of the managers, while
`ActivityPage` models its side; Go's memory exhaustion, a clock that jumps and a disk
that loses renamed files are taken not to happen.

## 8. The plan

Done: the shared streams with `LiveFeed` and `BrowserFeed`; the overview cache with
`CachedReads`; records, secrets and handlers; the inventory from the runtimes to the
page; the activity page; the Pod streams; proofs for each of them.

Left, in the order of what they would add:

1. An abstract inventory that `WorkloadPage` implements, once the copy at the start of a
   refresh is gone: what a page shows of a connection is an answer of that connection.
2. `ActivityPage` behind `SharedStream` instead of behind an arbitrary server, to relate
   the page's gaps to the manager's drops across reconnections.
3. `Settings`, extending `RecordStore`.
4. `AgentDeployment`, extending `Registry`, and `AgentHub` with `AgentClient`, when the
   agents are switched on.
