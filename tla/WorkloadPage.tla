---------------------------- MODULE WorkloadPage ----------------------------
(***************************************************************************)
(* The workload inventory of one browser tab, webembed/src/app:            *)
(* rendering, refreshing and the stream listeners of 10-workloads.js, the  *)
(* loaders, the router and the login of 00-core.js, refreshTopology of     *)
(* 20-topology.js and the runtime actions of 70-runtime-dialogs.js,        *)
(* composed with the server of WorkloadService.                            *)
(*                                                                         *)
(* Every await is a point where anything else may happen: a function goes  *)
(* on in a step of its own, with what it captured before.  "topology"      *)
(* stands for every page but the workloads.  Metrics, filters of the view  *)
(* and error texts are left out.                                           *)
(***************************************************************************)
EXTENDS WorkloadService

CONSTANTS
  MaxRenders,  \* bound: workloadRenderID
  MaxBreaks    \* bound: streams that break

ASSUME PageAssumption == MaxRenders \in Nat /\ MaxBreaks \in Nat

VARIABLES
  route,       \* state.route.path: "workloads" or "topology"
  drawn,       \* what is on the screen: either of them, or "login"
  renderID,    \* state.workloadRenderID
  awaiting,    \* the renders that wait for loadConnections
  shown,       \* state.workloads
  cached,      \* state.workloadCachedConnections
  pending,     \* state.workloadPendingConnections
  refreshing,  \* state.workloadRefreshing
  stream,      \* state.workloadStream
  timer,       \* state.workloadRenderTimer is set
  breaks       \* streams that broke so far

pageVars == <<route, drawn, renderID, awaiting, shown, cached, pending,
              refreshing, stream, timer, breaks>>

vars == <<serviceVars, pageVars>>

NoStream == [slot |-> None, filter |-> {}, items |-> {}, seen |-> {},
             initial |-> {}, fallingBack |-> FALSE]

Init ==
  /\ ServiceInit
  /\ route = "topology" /\ drawn = "topology"
  /\ renderID = 0 /\ awaiting = {}
  /\ shown = {} /\ cached = {} /\ pending = {}
  /\ refreshing = FALSE /\ stream = NoStream /\ timer = FALSE /\ breaks = 0

serverOnly == <<breaks, runtime, removed, cache, action, events, answers>>
unbounded  == <<breaks, runtime, removed, cache, action, answers>>

\* The requests after stopWorkloadStream: the source of the stream is closed.
Stopped == IF stream.slot = None \/ stream.fallingBack THEN request
           ELSE Closed(stream.slot)

\* state.workloadStream = null, and no timer.
StopStream == stream' = NoStream /\ timer' = FALSE

\* startWorkloadStream(renderID, true, filter), after stopWorkloadStream.
StartStream(filter, id) ==
  /\ FreeIn(Stopped) # {}
  /\ LET slot == SlotIn(Stopped) IN
       /\ request' = [Stopped EXCEPT ![slot] = NewRequest("stream", filter, id)]
       /\ stream' = [NoStream EXCEPT !.slot = slot, !.filter = filter,
                                     !.items = shown, !.initial = shown]
  /\ timer' = FALSE

\* An answer of the API has been taken from the wire of r.
Taken(r) == [request EXCEPT ![r] = Free]

-----------------------------------------------------------------------------
(* renderRoute and renderWorkloads. *)

\* Mutant: the number is taken before it is incremented.
BeginRenderPostIncrement ==
  /\ renderID < MaxRenders
  /\ renderID' = renderID + 1
  /\ awaiting' = awaiting \cup {renderID}
  /\ request' = Stopped /\ StopStream
  /\ refreshing' = FALSE
  /\ UNCHANGED <<serverOnly, shown, cached, pending>>

\* Mutant: a new rendering takes over the flag of the one it replaces.
BeginRenderStale ==
  /\ renderID < MaxRenders
  /\ renderID' = renderID + 1
  /\ awaiting' = awaiting \cup {renderID + 1}
  /\ request' = Stopped /\ StopStream
  /\ UNCHANGED <<serverOnly, shown, cached, pending, refreshing>>

\* renderWorkloads until it awaits loadConnections.
BeginRender ==
  /\ renderID < MaxRenders
  /\ renderID' = renderID + 1
  /\ awaiting' = awaiting \cup {renderID + 1}
  /\ request' = Stopped /\ StopStream
  /\ refreshing' = FALSE
  /\ UNCHANGED <<serverOnly, shown, cached, pending>>

\* Navigation to the workloads, from any page or from the page itself.  What is
\* on the screen stays there until the rendering gets to draw.
OpenWorkloads ==
  /\ drawn # "login"
  /\ route' = "workloads"
  /\ BeginRender
  /\ UNCHANGED drawn

\* Navigation to another page: the flag and the renders are left alone.
Leave ==
  /\ drawn # "login" /\ route = "workloads"
  /\ route' = "topology" /\ drawn' = "topology"
  /\ request' = Stopped /\ StopStream
  /\ UNCHANGED <<serverOnly, renderID, awaiting, shown, cached, pending,
                 refreshing>>

\* The token is accepted: renderRoute again, for the route there was.
Login ==
  /\ drawn = "login"
  /\ IF route = "workloads" THEN BeginRender /\ UNCHANGED drawn
     ELSE /\ drawn' = "topology"
          /\ request' = Stopped /\ StopStream
          /\ UNCHANGED <<serverOnly, renderID, awaiting, shown, cached, pending,
                         refreshing>>
  /\ UNCHANGED route

\* A rendering that is still the latest draws the page, wherever the user is
\* by then, and streams what is not cached.  nowCached is cached after the
\* awaited answer, released the requests without it.
FinishRender(id, nowCached, released) ==
  LET missing == (Conns \ nowCached) \cup pending IN
  IF id # renderID
  THEN request' = released /\ UNCHANGED <<drawn, refreshing, stream, timer>>
  ELSE /\ drawn' = "workloads"
       /\ refreshing' = (missing # {})
       /\ IF missing = {}
          THEN request' = released /\ UNCHANGED <<stream, timer>>
          ELSE LET slot == SlotIn(released) IN
                 /\ FreeIn(released) # {}
                 /\ request' = [released EXCEPT
                                  ![slot] = NewRequest("stream", missing, id)]
                 /\ stream' = [NoStream EXCEPT !.slot = slot, !.filter = missing,
                                 !.items = shown', !.initial = shown']
                 /\ UNCHANGED timer

\* loadConnections has answered: read the cache for the rest.
ConnectionsLoaded(id) ==
  /\ id \in awaiting /\ awaiting' = awaiting \ {id}
  /\ IF cached = Conns
     THEN /\ UNCHANGED <<shown, cached>>
          /\ FinishRender(id, cached, request)
     ELSE /\ FreeIn(request) # {}
          /\ request' = [request EXCEPT
               ![SlotIn(request)] = NewCachedRead(Conns \ cached, id)]
          /\ UNCHANGED <<drawn, shown, cached, refreshing, stream, timer>>
  /\ UNCHANGED <<serverOnly, route, renderID, pending>>

\* loadCachedWorkloads has answered: what it brings is used even by a
\* rendering that is no longer the latest.
CachedLoaded(r) ==
  /\ request[r].kind = "written" /\ request[r].wire # <<>>
  /\ LET response == Head(request[r].wire) IN
     /\ response.type = "cached"
     /\ shown' = {k \in shown : Owner[k] \notin response.observed} \cup response.items
     /\ cached' = cached \cup response.observed
     /\ FinishRender(request[r].render, cached', Taken(r))
  /\ UNCHANGED <<serverOnly, route, renderID, awaiting, pending>>

\* The user's refresh button, or the end of an action.  refreshWorkloads.
Refresh(filter) ==
  /\ pending' = pending \cup Targets(filter)
  /\ renderID < MaxRenders /\ renderID' = renderID + 1
  /\ refreshing' = TRUE
  /\ StartStream(filter, renderID + 1)

RefreshWorkloads(filter) ==
  /\ drawn = "workloads" /\ ~refreshing
  /\ Refresh(filter)
  /\ UNCHANGED <<serverOnly, route, drawn, awaiting, shown, cached>>

-----------------------------------------------------------------------------
(* The listeners of the stream: an event of a source that state no longer   *)
(* names is never looked at.                                                *)

Arrives(type) ==
  /\ stream.slot # None /\ ~stream.fallingBack
  /\ request[stream.slot].wire # <<>>
  /\ Head(request[stream.slot].wire).type = type

Event == Head(request[stream.slot].wire)

\* The event is taken off the wire.
Handled == request' = [request EXCEPT ![stream.slot].wire = Tail(@)]

OnWorkload ==
  /\ Arrives("workload") /\ Handled
  /\ stream' = [stream EXCEPT !.seen = @ \cup {Event.item},
                              !.items = @ \cup {Event.item}]
  /\ timer' = TRUE
  /\ UNCHANGED <<serverOnly, route, drawn, renderID, awaiting, shown, cached,
                 pending, refreshing>>

OnConnectionComplete ==
  /\ Arrives("connection-complete") /\ Handled
  /\ cached' = IF Event.ok THEN cached \cup {Event.conn} ELSE cached
  /\ pending' = pending \ {Event.conn}
  /\ timer' = TRUE
  /\ UNCHANGED <<serverOnly, route, drawn, renderID, awaiting, shown,
                 refreshing, stream>>

\* What the page shows at the end of a refresh: the targets' own answers, with
\* what was there before for a target that failed.
Kept(failed) ==
  {k \in stream.items :
     \/ Owner[k] \notin Targets(stream.filter)
     \/ Owner[k] \in failed /\ k \in stream.initial
     \/ k \in stream.seen}

OnComplete ==
  /\ Arrives("complete")
  /\ shown' = Kept(Event.failed)
  /\ refreshing' = FALSE
  /\ request' = Taken(stream.slot)
  /\ StopStream
  /\ UNCHANGED <<serverOnly, route, drawn, renderID, awaiting, cached, pending>>

\* The source breaks: the same connections are asked again, without streaming.
OnError ==
  /\ stream.slot # None /\ ~stream.fallingBack
  /\ breaks < MaxBreaks /\ breaks' = breaks + 1
  /\ FreeIn(Stopped) # {}
  /\ LET slot == SlotIn(Stopped) IN
       /\ request' = [Stopped EXCEPT
            ![slot] = NewRequest("list", stream.filter, request[stream.slot].render)]
       /\ stream' = [stream EXCEPT !.fallingBack = TRUE, !.slot = slot]
  /\ UNCHANGED <<runtime, removed, cache, action, events, answers, route, drawn,
                 renderID, awaiting, shown, cached, pending, refreshing, timer>>

\* The timer of scheduleWorkloadView.
DrawStream ==
  /\ timer /\ timer' = FALSE
  /\ shown' = IF stream.slot # None THEN stream.items ELSE shown
  /\ UNCHANGED <<serverOnly, request, route, drawn, renderID, awaiting, cached,
                 pending, refreshing, stream>>

-----------------------------------------------------------------------------
(* The answers of the API, with what the caller does next. *)

\* loadWorkloads takes over the answer, whoever waits for it.
TakeList(filter, response) ==
  IF filter = {}
  THEN /\ shown' = response.items
       /\ cached' = Conns \ response.failed
  ELSE /\ shown' = {k \in shown : Owner[k] \in filter => Owner[k] \in response.failed}
                     \cup response.items
       /\ cached' = cached \cup (filter \ response.failed)

\* The caller is the error listener of a refresh that is still the latest.
FallbackIsCurrent(r) == request[r].render = renderID /\ route = "workloads"

ListLoaded(r) ==
  /\ request[r].kind = "written" /\ request[r].wire # <<>>
  /\ LET response == Head(request[r].wire)
         filter == request[r].filter IN
     /\ response.type = "list"
     /\ TakeList(filter, response)
     /\ IF FallbackIsCurrent(r)
        THEN /\ refreshing' = FALSE
             /\ pending' = pending \ Targets(filter)
             /\ stream' = NoStream
        ELSE UNCHANGED <<refreshing, pending, stream>>
  /\ request' = Taken(r)
  /\ UNCHANGED <<serverOnly, route, drawn, renderID, awaiting, timer>>

\* Mutant: a fallback that fails leaves the refresh under way.
ListFailsUnhandled(r) ==
  /\ request[r].kind = "list" /\ request[r].open /\ Counted
  /\ request' = Closed(r)
  /\ UNCHANGED <<unbounded, route, drawn, renderID, awaiting, shown, cached,
                 pending, refreshing, stream, timer>>

\* The request fails on the way; the server may still be working on it.
ListFails(r) ==
  /\ request[r].kind = "list" /\ request[r].open /\ Counted
  /\ request' = Closed(r)
  /\ IF request[r].render = renderID
     THEN refreshing' = FALSE /\ stream' = NoStream
     ELSE UNCHANGED <<refreshing, stream>>
  /\ UNCHANGED <<unbounded, route, drawn, renderID, awaiting, shown, cached,
                 pending, timer>>

\* loadConnections or loadCachedWorkloads fails: the rendering ends there.
RenderFails(id, released) ==
  /\ Counted
  /\ request' = released
  /\ refreshing' = IF id = renderID THEN FALSE ELSE refreshing
  /\ UNCHANGED <<unbounded, route, drawn, renderID, shown, cached, pending,
                 stream, timer>>

ConnectionsFail(id) ==
  /\ id \in awaiting /\ awaiting' = awaiting \ {id}
  /\ RenderFails(id, request)

CachedFails(r) ==
  /\ request[r].kind = "written" /\ request[r].wire # <<>>
  /\ Head(request[r].wire).type = "cached"
  /\ RenderFails(request[r].render, Taken(r))
  /\ UNCHANGED awaiting

\* An answer of 401: the login form, and the caller ends.
SignOut(stopped) ==
  /\ Counted
  /\ drawn' = "login"
  /\ request' = stopped /\ StopStream
  /\ UNCHANGED <<breaks, runtime, removed, cache, answers, route, renderID,
                 shown, cached, pending, refreshing>>

\* r is a call of the API, not a source of events.
IsCall(r) ==
  \/ request[r].kind = "list" /\ request[r].open
  \/ /\ request[r].kind = "written" /\ request[r].wire # <<>>
     /\ Head(request[r].wire).type \in {"list", "cached"}

Unauthorized ==
  \/ \E id \in awaiting : /\ awaiting' = awaiting \ {id}
                          /\ SignOut(Stopped) /\ UNCHANGED action
  \/ \E r \in Requests : /\ IsCall(r)
                         /\ SignOut([Stopped EXCEPT ![r] = Free])
                         /\ UNCHANGED <<awaiting, action>>
  \/ /\ action.step = "asked" /\ action' = NoAction
     /\ SignOut(Stopped) /\ UNCHANGED awaiting

\* refreshTopology of connection c, unless one is under way.
MayRefreshTopology ==
  /\ \A r \in Requests : ~(/\ request[r].kind \in {"list", "written"}
                           /\ request[r].render = 0 /\ request[r].open)
  /\ FreeIn(request) # {}

AskList(c) == request' = [request EXCEPT ![SlotIn(request)] = NewRequest("list", {c}, 0)]

RefreshTopology(c) ==
  /\ drawn = "topology" /\ MayRefreshTopology
  /\ AskList(c) /\ Counted
  /\ UNCHANGED <<runtime, removed, cache, action, answers, pageVars>>

-----------------------------------------------------------------------------
(* performDockerRuntimeAction and performSelectedDockerRuntimeAction. *)

\* The user confirms the action for one container, or on the workloads page
\* for the selected ones.
BeginAction(op, items) ==
  /\ action.step = "none" /\ drawn # "login"
  /\ items # {} /\ items \subseteq shown
  /\ drawn = "topology" => Cardinality(items) = 1
  /\ Counted
  /\ action' = [NoAction EXCEPT !.step = "asked", !.op = op, !.todo = items]
  /\ UNCHANGED <<runtime, removed, cache, request, answers, pageVars>>

\* The answer for one container; the next one follows.
ActionAnswered ==
  LET ok == action.step = "succeeded" IN
  /\ action.step \in {"succeeded", "failed"}
  /\ action' = [action EXCEPT !.step = "asked", !.todo = @ \ {action.item},
                              !.done = IF ok THEN @ \cup {Owner[action.item]} ELSE @]
  /\ shown' = IF ok /\ action.op = "delete" THEN shown \ {action.item} ELSE shown
  /\ UNCHANGED <<breaks, runtime, removed, cache, events, answers, request, route,
                 drawn, renderID, awaiting, cached, pending, refreshing, stream,
                 timer>>

\* All are answered: the connections that changed are asked again, by the page
\* the user is on by then, unless it is refreshing already.
EndAction ==
  LET changed == action.done IN
  /\ action.step = "asked" /\ action.todo = {}
  /\ action' = NoAction
  /\ cached' = cached \ changed
  /\ \/ /\ changed # {} /\ route = "workloads" /\ ~refreshing
        /\ Refresh(changed)
     \/ /\ changed # {} /\ route = "topology" /\ MayRefreshTopology
        /\ pending' = pending \cup changed
        /\ \E c \in changed : AskList(c)
        /\ UNCHANGED <<renderID, refreshing, stream, timer>>
     \/ /\ \/ changed = {}
           \/ route = "workloads" /\ refreshing
           \/ route = "topology" /\ ~MayRefreshTopology
        /\ pending' = pending \cup changed
        /\ UNCHANGED <<renderID, refreshing, stream, timer, request>>
  /\ UNCHANGED <<breaks, runtime, removed, cache, events, answers, route, drawn,
                 awaiting, shown>>

-----------------------------------------------------------------------------
PageNext ==
  \/ OpenWorkloads \/ Leave \/ Login \/ Unauthorized
  \/ \E id \in awaiting : ConnectionsLoaded(id) \/ ConnectionsFail(id)
  \/ \E r \in Requests : CachedLoaded(r) \/ CachedFails(r)
                         \/ ListLoaded(r) \/ ListFails(r)
  \/ \E filter \in SUBSET Conns : RefreshWorkloads(filter)
  \/ OnWorkload \/ OnConnectionComplete \/ OnComplete \/ OnError \/ DrawStream
  \/ \E c \in Conns : RefreshTopology(c)
  \/ \E op \in {"delete", "restart"}, items \in SUBSET Containers : BeginAction(op, items)
  \/ ActionAnswered \/ EndAction

Next == \/ ServiceNext /\ UNCHANGED pageVars
        \/ PageNext

Spec == Init /\ [][Next]_vars

\* The runtimes answer, the handlers write and the browser dispatches.  A user
\* need not do anything, nothing need break and no token expire.
FairSpec ==
  /\ Spec
  /\ \A r \in Requests :
       /\ WF_vars(/\ UNCHANGED pageVars
                  /\ \E c \in Conns : Read(r, c) \/ WriteCompletion(r, c))
       /\ WF_vars(/\ UNCHANGED pageVars
                  /\ \/ WriteComplete(r) \/ AnswerList(r)
                     \/ \E k \in Containers : WriteItem(r, k))
       /\ WF_vars(ListLoaded(r))
  /\ WF_vars(OnWorkload) /\ WF_vars(OnConnectionComplete) /\ WF_vars(OnComplete)

-----------------------------------------------------------------------------
TypeOK ==
  /\ runtime \subseteq Containers /\ removed \subseteq Containers
  /\ cache \in [Conns -> {None} \cup SUBSET Containers]
  /\ answers \in [Conns -> SUBSET SUBSET Containers]
  /\ route \in {"workloads", "topology"}
  /\ drawn \in {"workloads", "topology", "login"}
  /\ renderID \in 0..MaxRenders /\ awaiting \subseteq 1..renderID
  /\ shown \subseteq Containers
  /\ cached \subseteq Conns /\ pending \subseteq Conns
  /\ refreshing \in BOOLEAN /\ timer \in BOOLEAN
  /\ stream.slot \in Requests \cup {None}

\* What the cache serves for a connection is one answer of that connection as a
\* whole: never what was emitted before a failure, nor the answers of two
\* refreshes mixed.  And what was stored before an action or a PATCH is gone for
\* good: only a refresh that had its answer by then, or one that asks the
\* runtime later, puts an entry back.
CacheHoldsAnswers ==
  \A c \in Conns : cache[c] = None \/ cache[c] \in answers[c]

\* The refresh button of the workloads page is never disabled for good: while
\* it is, a stream is open or its fallback under way.
RefreshingHasStream ==
  route = "workloads" /\ drawn = "workloads" /\ refreshing
    => stream.slot # None /\ request[stream.slot].open

\* When a refresh completes the page shows, of every target that answered, that
\* answer and nothing else, whatever order the events were written in.
CompleteShowsAnswers ==
  [][OnComplete =>
       \A c \in Targets(stream.filter) \ Event.failed :
         shown' \cap Of(c) = request[stream.slot].found \cap Of(c)]_vars

\* A refresh that is under way ends, unless the user leaves the page or has to
\* sign in.
RefreshEnds ==
  route = "workloads" /\ drawn = "workloads" /\ refreshing
    ~> ~refreshing \/ route # "workloads" \/ drawn = "login"

\* docs/architecture.md:72-73: "A partial refresh replaces inventory for its
\* target connections and leaves every other connection untouched."
OthersUntouched ==
  [][OnComplete =>
       \A k \in Containers : Owner[k] \notin Targets(stream.filter)
                             => (k \in shown' <=> k \in shown)]_vars
=============================================================================
