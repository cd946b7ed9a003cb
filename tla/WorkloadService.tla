--------------------------- MODULE WorkloadService ---------------------------
(***************************************************************************)
(* The workload inventory of the server: the plain and the streamed        *)
(* refresh and the read of internal/server/connections.go, the runtime     *)
(* actions of docker_actions.go, the PATCH of a connection, and the cache  *)
(* of internal/workloadcache they share.                                   *)
(*                                                                         *)
(* A refresh asks every target connection in a goroutine of its own and    *)
(* puts what each one answered into the cache; a runtime action and a      *)
(* PATCH delete the entry of their connection.  What is on the wire to the *)
(* browser is a sequence of events per request.  A workload is its         *)
(* identity; a request whose answer has been handled frees its slot.       *)
(***************************************************************************)
EXTENDS Integers, Sequences, FiniteSets

CONSTANTS
  Conns,       \* connections; none is added or removed
  Containers,  \* workloads that may come into being
  Owner,       \* the connection each belongs to
  Requests,    \* slots; bounds the requests that are under way at once
  None,        \* no value
  MaxWire,     \* bound: events on the wire of a stream
  MaxEvents    \* bound: failed calls, runtime actions, containers that appear,
               \* PATCHes and refreshes of the topology, together

ASSUME ServiceAssumption ==
  /\ Owner \in [Containers -> Conns]
  /\ MaxWire \in Nat \ {0} /\ MaxEvents \in Nat
  /\ None \notin Requests
  /\ \A items \in SUBSET Containers : items # None

VARIABLES
  runtime,  \* the containers that exist
  removed,  \* those that existed: an identity is not used again
  cache,    \* Memory.entries: the inventory of each connection, or None
  request,  \* the requests under way
  action,   \* the runtime action under way
  events,   \* what MaxEvents bounds, so far
  answers   \* history: of each connection, the inventories it has given as a
            \* whole since it was last invalidated, or that were on their way
            \* into the cache then

serviceVars == <<runtime, removed, cache, request, action, events, answers>>

\* One more of the events that are bounded.
Counted == events < MaxEvents /\ events' = events + 1

Of(c) == {k \in Containers : Owner[k] = c}

\* No filter asks for every connection.
Targets(filter) == IF filter = {} THEN Conns ELSE filter

Free == [kind |-> "free", filter |-> {}, render |-> 0, open |-> FALSE,
         job |-> [c \in Conns |-> "idle"], found |-> {}, unsent |-> {},
         wire |-> <<>>]

NoAction == [step |-> "none", op |-> "none", todo |-> {},
             item |-> None, done |-> {}]

\* A request of the browser: filter is its connection_id parameters, render
\* the workloadRenderID of the caller (0 for the topology page).
NewRequest(kind, filter, render) ==
  [Free EXCEPT !.kind = kind, !.filter = filter, !.render = render,
               !.open = TRUE,
               !.job = [c \in Conns |-> IF c \in Targets(filter)
                                        THEN "asked" ELSE "idle"]]

\* handleWorkloadCache answers at once, from the entries there are; the answer
\* may stay on the wire.
CachedAnswer(filter) ==
  LET observed == {c \in Targets(filter) : cache[c] # None} IN
    [type |-> "cached", observed |-> observed,
     items |-> UNION {cache[c] : c \in observed}]

NewCachedRead(filter, render) ==
  [Free EXCEPT !.kind = "written", !.filter = filter, !.render = render,
               !.open = TRUE, !.wire = <<CachedAnswer(filter)>>]

\* Slots: a new request takes one that is free.
FreeIn(requests) == {r \in Requests : requests[r].kind = "free"}
SlotIn(requests) == CHOOSE r \in FreeIn(requests) : TRUE

\* The browser closes r.  The context is cancelled: what has not been read is
\* not read any more, what has been may still be written to the cache.
Closed(r) ==
  LET job == request[r].job IN
    [request EXCEPT ![r] =
      IF @.kind # "written" /\ \E c \in Conns : job[c] = "answered"
      THEN [@ EXCEPT !.open = FALSE, !.wire = <<>>, !.unsent = {},
                     !.job = [c \in Conns |-> IF job[c] \in {"idle", "answered"}
                                             THEN job[c] ELSE "erred"]]
      ELSE Free]

ServiceInit ==
  /\ runtime \in SUBSET Containers
  /\ removed = {}
  /\ cache = [c \in Conns |-> None]
  /\ request = [r \in Requests |-> Free]
  /\ action = NoAction /\ events = 0
  /\ answers = [c \in Conns |-> {}]

-----------------------------------------------------------------------------
(* The runtimes. *)

Appear(k) ==
  /\ k \notin runtime \cup removed
  /\ runtime' = runtime \cup {k} /\ Counted
  /\ UNCHANGED <<removed, cache, request, action, answers>>

\* The goroutine of connection c gets its answer.  Docker leaves out the
\* containers it cannot inspect; a failure may come after some were emitted.
Read(r, c) ==
  /\ request[r].job[c] = "asked"
  /\ \E items \in SUBSET (runtime \cap Of(c)), ok \in BOOLEAN :
       /\ IF ok /\ items = runtime \cap Of(c) THEN UNCHANGED events ELSE Counted
       /\ request' = [request EXCEPT
            ![r].job[c] = IF ok THEN "answered" ELSE "failed",
            ![r].found = @ \cup items,
            ![r].unsent = IF request[r].kind = "stream" THEN @ \cup items ELSE @]
       /\ answers' = [answers EXCEPT ![c] = IF ok THEN @ \cup {items} ELSE @]
  /\ UNCHANGED <<runtime, removed, cache, action>>

-----------------------------------------------------------------------------
(* handleWorkloadsStream: the loop that writes the events.  It takes an     *)
(* item or a result, whichever it picks, until both channels are drained.   *)

\* There is room on the wire for one more event.
MayWrite(r) == Len(request[r].wire) < MaxWire

\* Nothing is kept for a browser that has closed the source.
Written(r, event) == IF request[r].open THEN Append(request[r].wire, event)
                                        ELSE <<>>

WriteItem(r, k) ==
  /\ request[r].kind = "stream" /\ MayWrite(r) /\ k \in request[r].unsent
  /\ request' = [request EXCEPT
       ![r].unsent = @ \ {k},
       ![r].wire = Written(r, [type |-> "workload", item |-> k])]
  /\ UNCHANGED <<runtime, removed, cache, action, events, answers>>

\* Mutant: the cache takes what a connection emitted before it failed.
WriteCompletionOfAny(r, c) ==
  /\ request[r].kind = "stream" /\ MayWrite(r)
  /\ request[r].job[c] \in {"answered", "failed"}
  /\ cache' = [cache EXCEPT ![c] = request[r].found \cap Of(c)]
  /\ request' = [request EXCEPT
       ![r].job[c] = IF @ = "answered" THEN "done" ELSE "erred",
       ![r].wire = Written(r, [type |-> "connection-complete", conn |-> c,
                               ok |-> request[r].job[c] = "answered"])]
  /\ UNCHANGED <<runtime, removed, action, events, answers>>

WriteCompletion(r, c) ==
  /\ request[r].kind = "stream" /\ MayWrite(r)
  /\ request[r].job[c] \in {"answered", "failed"}
  /\ cache' = IF request[r].job[c] = "answered"
              THEN [cache EXCEPT ![c] = request[r].found \cap Of(c)]
              ELSE cache
  /\ request' = [request EXCEPT
       ![r].job[c] = IF @ = "answered" THEN "done" ELSE "erred",
       ![r].wire = Written(r, [type |-> "connection-complete", conn |-> c,
                               ok |-> request[r].job[c] = "answered"])]
  /\ UNCHANGED <<runtime, removed, action, events, answers>>

Erred(r) == {c \in Conns : request[r].job[c] \in {"failed", "erred"}}

\* Mutant: the loop ends when the results are drained, items left over or not.
ResultsDrained(r) ==
  \A c \in Targets(request[r].filter) : request[r].job[c] \in {"done", "erred"}

\* Both channels are closed and drained.
Drained(r) ==
  /\ request[r].unsent = {}
  /\ \A c \in Targets(request[r].filter) : request[r].job[c] \in {"done", "erred"}

WriteComplete(r) ==
  /\ request[r].kind = "stream" /\ Drained(r) /\ MayWrite(r)
  /\ request' = [request EXCEPT ![r] =
       IF request[r].open
       THEN [@ EXCEPT !.kind = "written",
                      !.wire = Append(request[r].wire, [type |-> "complete",
                                                        failed |-> Erred(r)])]
       ELSE Free]
  /\ UNCHANGED <<runtime, removed, cache, action, events, answers>>

\* The handler notices that the browser has gone.
Abandon(r) ==
  /\ request[r].kind = "stream" /\ ~request[r].open
  /\ request' = [request EXCEPT ![r] = Free]
  /\ UNCHANGED <<runtime, removed, cache, action, events, answers>>

-----------------------------------------------------------------------------
(* handleWorkloads. *)
\* The answers of all connections are in: the good ones go into the cache.
AnswerList(r) ==
  LET good == {c \in Conns : request[r].job[c] = "answered"} IN
  /\ request[r].kind = "list"
  /\ \A c \in Conns : request[r].job[c] # "asked"
  /\ cache' = [c \in Conns |-> IF c \in good THEN request[r].found \cap Of(c)
                                             ELSE cache[c]]
  /\ request' = [request EXCEPT ![r] =
       IF request[r].open
       THEN [@ EXCEPT !.kind = "written",
                      !.wire = <<[type |-> "list", failed |-> Erred(r),
                                  items |-> {k \in request[r].found : Owner[k] \in good}]>>]
       ELSE Free]
  /\ UNCHANGED <<runtime, removed, action, events, answers>>

-----------------------------------------------------------------------------
(* The runtime actions: the runtime first, then the cache. *)

\* The runtime carries out the action on container k, or fails, before or
\* after it had an effect.
RuntimeActs(k) ==
  /\ action.step = "asked" /\ k \in action.todo
  /\ \E step \in {"acted", "failed"}, effect \in BOOLEAN :
       /\ IF step = "acted" THEN effect /\ UNCHANGED events ELSE Counted
       /\ runtime' = IF effect /\ action.op = "delete" THEN runtime \ {k} ELSE runtime
       /\ removed' = IF effect /\ action.op = "delete" THEN removed \cup {k} ELSE removed
       /\ action' = [action EXCEPT !.step = step, !.item = k]
  /\ UNCHANGED <<cache, request, answers>>

\* The answers of connection c that a refresh has and has not written yet.
Unwritten(c) == {request[r].found \cap Of(c) :
                   r \in {s \in Requests : request[s].job[c] = "answered"}}

\* Memory.Delete.
Dropped(c) ==
  /\ cache' = [cache EXCEPT ![c] = None]
  /\ answers' = [answers EXCEPT ![c] = Unwritten(c)]

\* invalidateDockerRuntime, and the response.
Invalidate ==
  /\ action.step = "acted"
  /\ Dropped(Owner[action.item])
  /\ action' = [action EXCEPT !.step = "succeeded"]
  /\ UNCHANGED <<runtime, removed, request, events>>

\* handleConnectionUpdate once the record is saved, for any client.
Reconfigure(c) ==
  /\ Dropped(c) /\ Counted
  /\ UNCHANGED <<runtime, removed, request, action>>

ServiceNext ==
  \/ \E k \in Containers : Appear(k) \/ RuntimeActs(k)
  \/ \E r \in Requests, c \in Conns : Read(r, c) \/ WriteCompletion(r, c)
  \/ \E r \in Requests, k \in Containers : WriteItem(r, k)
  \/ \E r \in Requests : WriteComplete(r) \/ Abandon(r) \/ AnswerList(r)
  \/ Invalidate \/ \E c \in Conns : Reconfigure(c)
=============================================================================
