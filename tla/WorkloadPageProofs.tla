------------------------- MODULE WorkloadPageProofs -------------------------
(***************************************************************************)
(* Theorems about WorkloadPage, for any connections, containers and        *)
(* requests: its types, what the cache of the server holds, what a refresh *)
(* shows when it completes, and that the refresh button has a request      *)
(* behind it while it is disabled.                                         *)
(*                                                                         *)
(* What a refresh shows is settled by events that were written in any      *)
(* order by a handler that has forgotten about them.  The invariant        *)
(* therefore follows a workload from the goroutine that found it to the    *)
(* page: it is waiting for the loop, on the wire, or has been seen         *)
(* (StreamServed), and "complete" is written only when none is waiting and *)
(* nobody is going to find more (Finished).                                *)
(*                                                                         *)
(* What the cache holds is settled by goroutines that answer long before   *)
(* it is written, for requests that may be closed and taken again          *)
(* meanwhile.  Every step of the page and most of the server leave the     *)
(* answers of a request alone or drop it (Follow), and only a Read adds    *)
(* one, of its own connection (AnswersKept).                               *)
(***************************************************************************)
EXTENDS WorkloadPage, SequenceTheorems, TLAPS

Kinds == {"free", "list", "stream", "written"}
Jobs == {"idle", "asked", "answered", "failed", "done", "erred"}

StreamEvents ==
  [type : {"workload"}, item : Containers]
    \cup [type : {"connection-complete"}, conn : Conns, ok : BOOLEAN]
    \cup [type : {"complete"}, failed : SUBSET Conns]
ListAnswers == [type : {"list"}, failed : SUBSET Conns, items : SUBSET Containers]
CachedAnswers == [type : {"cached"}, observed : SUBSET Conns, items : SUBSET Containers]
Events == StreamEvents \cup ListAnswers \cup CachedAnswers

RequestSet ==
  [kind : Kinds, filter : SUBSET Conns, render : 0..MaxRenders, open : BOOLEAN,
   job : [Conns -> Jobs], found : SUBSET Containers, unsent : SUBSET Containers,
   wire : Seq(Events)]

\* Nobody is going to find more for request q.
Finished(q) == \A c \in Conns : q.job[c] # "asked"

\* A request that may be under way: only its targets are asked, and it is
\* written when they have answered.
GoodRequest ==
  {q \in RequestSet :
     /\ q.open => q.kind # "free"
     /\ \A c \in Conns \ Targets(q.filter) : q.job[c] = "idle"
     /\ q.kind = "written" => Finished(q)}

StreamSet ==
  [slot : Requests \cup {None}, filter : SUBSET Conns, items : SUBSET Containers,
   seen : SUBSET Containers, initial : SUBSET Containers, fallingBack : BOOLEAN]

ActionSet ==
  {a \in [step : {"none", "asked", "acted", "failed", "succeeded"},
          op : {"none", "delete", "restart"}, todo : SUBSET Containers,
          item : Containers \cup {None}, done : SUBSET Conns] :
     a.step \in {"acted", "failed", "succeeded"} => a.item \in Containers}

Types ==
  /\ TypeOK
  /\ request \in [Requests -> GoodRequest]
  /\ stream \in StreamSet
  /\ action \in ActionSet

\* The workloads on a wire.
Carried(wire) == {wire[i].item : i \in {j \in DOMAIN wire : wire[j].type = "workload"}}

\* The stream s of the page is what request q serves.
Serves(q, s) ==
  /\ q.open /\ q.render = renderID
  /\ q.kind \in {"stream", "written"}
  /\ q.wire \in Seq(StreamEvents)
  /\ q.found = s.seen \cup q.unsent \cup Carried(q.wire)
  /\ s.seen \subseteq s.items
  /\ \A i \in DOMAIN q.wire : q.wire[i].type = "complete" =>
       q.kind = "written" /\ q.unsent = {} /\ i = Len(q.wire)

StreamServed ==
  stream.slot # None /\ ~stream.fallingBack => Serves(request[stream.slot], stream)

\* Request q is the fallback of the stream of the page.
FallsBack(q) ==
  /\ q.open /\ q.render = renderID
  /\ q.kind \in {"list", "written"}
  /\ q.wire \in Seq(ListAnswers)

FallbackServed ==
  stream.slot # None /\ stream.fallingBack /\ route = "workloads"
    => FallsBack(request[stream.slot])

\* The refresh button has a stream behind it.
ButtonServed ==
  route = "workloads" /\ drawn = "workloads" /\ refreshing => stream.slot # None

IInv == Types /\ StreamServed /\ FallbackServed /\ ButtonServed

-----------------------------------------------------------------------------
(* Requests. *)

\* A request is a record of its fields.
LEMMA FieldsOfRequest ==
  ASSUME NEW q \in GoodRequest
  PROVE  /\ q \in RequestSet
         /\ q.kind \in Kinds /\ q.filter \subseteq Conns /\ q.render \in 0..MaxRenders
         /\ q.open \in BOOLEAN /\ q.job \in [Conns -> Jobs]
         /\ q.found \subseteq Containers /\ q.unsent \subseteq Containers
         /\ q.wire \in Seq(Events)
         /\ q.open => q.kind # "free"
         /\ \A c \in Conns \ Targets(q.filter) : q.job[c] = "idle"
         /\ q.kind = "written" => Finished(q)
BY DEF GoodRequest, RequestSet

\* An empty slot.
LEMMA FreeIsGood ==
  Free \in GoodRequest /\ ~Free.open /\ Free.kind = "free"
<1>1. Free.job \in [Conns -> Jobs] /\ \A c \in Conns : Free.job[c] = "idle"
  BY DEF Free, Jobs
<1>2. Free \in RequestSet
  BY <1>1, PageAssumption DEF Free, RequestSet, Kinds
<1> QED
  BY <1>1, <1>2 DEF GoodRequest, Free

\* A request that is sent.
LEMMA NewIsGood ==
  ASSUME NEW kind \in {"list", "stream"}, NEW filter \in SUBSET Conns,
         NEW id \in 0..MaxRenders
  PROVE  LET q == NewRequest(kind, filter, id) IN
         /\ q \in GoodRequest
         /\ q.kind = kind /\ q.open /\ q.render = id
         /\ q.wire = <<>> /\ q.found = {} /\ q.unsent = {}
<1> DEFINE job == [c \in Conns |-> IF c \in Targets(filter) THEN "asked" ELSE "idle"]
           q == [Free EXCEPT !.kind = kind, !.filter = filter, !.render = id,
                             !.open = TRUE, !.job = job]
<1>1. Free \in RequestSet /\ Free.wire = <<>> /\ Free.found = {} /\ Free.unsent = {}
  BY FreeIsGood, FieldsOfRequest DEF Free
<1>2. job \in [Conns -> Jobs] /\ \A c \in Conns \ Targets(filter) : job[c] = "idle"
  BY DEF Jobs
<1>3. kind \in Kinds
  BY DEF Kinds
<1>4. NewRequest(kind, filter, id) = q
  BY DEF NewRequest
<1> HIDE DEF job
<1>5. q \in RequestSet
  BY <1>1, <1>2, <1>3 DEF RequestSet
<1>6. /\ q.kind = kind /\ q.filter = filter /\ q.open /\ q.render = id /\ q.job = job
      /\ q.wire = Free.wire /\ q.found = Free.found /\ q.unsent = Free.unsent
  BY <1>1 DEF RequestSet
<1> HIDE DEF q
<1>7. q \in GoodRequest
  BY <1>2, <1>5, <1>6 DEF GoodRequest
<1> QED
  BY <1>1, <1>4, <1>6, <1>7

\* A read of the cache, answered at once.
LEMMA CachedReadIsGood ==
  ASSUME Types, NEW filter \in SUBSET Conns, NEW id \in 0..MaxRenders
  PROVE  LET q == NewCachedRead(filter, id) IN q \in GoodRequest /\ q.open
<1> DEFINE answer == CachedAnswer(filter)
           wire == <<answer>>
           q == [Free EXCEPT !.kind = "written", !.filter = filter, !.render = id,
                             !.open = TRUE, !.wire = wire]
<1>1. \A c \in Targets(filter) : cache[c] # None => cache[c] \subseteq Containers
  BY DEF Types, TypeOK, Targets
<1>2. answer \in CachedAnswers
  BY <1>1 DEF CachedAnswer, CachedAnswers, Targets
<1>3. wire \in Seq(Events)
  <2> HIDE DEF answer
  <2> QED
    BY <1>2 DEF Events
<1>4. NewCachedRead(filter, id) = q
  BY DEF NewCachedRead
<1> HIDE DEF wire, answer
<1>5. Free \in RequestSet /\ \A c \in Conns : Free.job[c] = "idle"
  BY FreeIsGood, FieldsOfRequest DEF Free
<1>6. q \in RequestSet
  BY <1>3, <1>5 DEF RequestSet, Kinds
<1>7. q.kind = "written" /\ q.open /\ q.job = Free.job
  BY <1>5 DEF RequestSet
<1> HIDE DEF q
<1>8. q \in GoodRequest
  BY <1>5, <1>6, <1>7 DEF GoodRequest, Finished
<1> QED
  BY <1>4, <1>7, <1>8

\* A request the browser has closed; the others are left alone.
LEMMA ClosedIsGood ==
  ASSUME Types, NEW r \in Requests
  PROVE  /\ Closed(r) \in [Requests -> GoodRequest]
         /\ \A s \in Requests \ {r} : Closed(r)[s] = request[s]
<1> DEFINE q == request[r]
           job == [c \in Conns |-> IF q.job[c] \in {"idle", "answered"} THEN q.job[c] ELSE "erred"]
           none == <<>>
           kept == [q EXCEPT !.open = FALSE, !.wire = none, !.unsent = {}, !.job = job]
<1>1. q \in GoodRequest
  BY DEF Types
<1>2. job \in [Conns -> Jobs]
  BY <1>1, FieldsOfRequest DEF Jobs
<1>3. \A c \in Conns : q.job[c] = "idle" => job[c] = "idle"
  OBVIOUS
<1> HIDE DEF job
<1>4. /\ kept \in RequestSet
      /\ kept.kind = q.kind /\ kept.filter = q.filter /\ kept.open = FALSE /\ kept.job = job
  <2>1. none \in Seq(Events) /\ q \in RequestSet
    BY <1>1, FieldsOfRequest
  <2> HIDE DEF none, q
  <2> QED
    BY <1>2, <2>1 DEF RequestSet
<1>5. ASSUME q.kind # "written" PROVE kept \in GoodRequest
  BY <1>1, <1>3, <1>4, <1>5, FieldsOfRequest DEF GoodRequest
<1>6. Closed(r) = [request EXCEPT ![r] =
        IF q.kind # "written" /\ \E c \in Conns : q.job[c] = "answered" THEN kept ELSE Free]
  BY DEF Closed, job, Types
<1> HIDE DEF kept
<1> QED
  BY <1>5, <1>6, FreeIsGood DEF Types

LEMMA StoppedIsGood ==
  ASSUME Types PROVE Stopped \in [Requests -> GoodRequest]
BY ClosedIsGood DEF Stopped, Types, StreamSet

\* What a new request takes is a free slot.
LEMMA SlotIsFree ==
  ASSUME NEW requests \in [Requests -> GoodRequest], FreeIn(requests) # {}
  PROVE  /\ SlotIn(requests) \in Requests
         /\ requests[SlotIn(requests)].kind = "free"
         /\ ~requests[SlotIn(requests)].open
<1>1. SlotIn(requests) \in FreeIn(requests)
  BY DEF SlotIn
<1> QED
  BY <1>1, FieldsOfRequest DEF FreeIn

-----------------------------------------------------------------------------
(* Events. *)

\* What an event brings, by its type.
LEMMA EventFields ==
  ASSUME NEW e \in Events
  PROVE  /\ e.type = "workload" => e.item \in Containers
         /\ e.type = "connection-complete" => e.conn \in Conns /\ e.ok \in BOOLEAN
         /\ e.type = "complete" => e.failed \in SUBSET Conns
         /\ e.type = "list" => e.failed \in SUBSET Conns /\ e.items \in SUBSET Containers
         /\ e.type = "cached" => e.observed \in SUBSET Conns /\ e.items \in SUBSET Containers
BY DEF Events, StreamEvents, ListAnswers, CachedAnswers

\* An event of a stream is none of the answers, and the other way round.
LEMMA EventsApart ==
  /\ \A e \in StreamEvents : e.type \notin {"list", "cached"}
  /\ \A e \in ListAnswers : e.type = "list"
BY DEF StreamEvents, ListAnswers

LEMMA EventsAreEvents ==
  /\ \A wire \in Seq(StreamEvents) : wire \in Seq(Events)
  /\ \A wire \in Seq(ListAnswers) : wire \in Seq(Events)
<1>1. StreamEvents \subseteq Events /\ ListAnswers \subseteq Events
  BY DEF Events
<1> HIDE DEF Events, StreamEvents, ListAnswers
<1> QED
  BY <1>1

\* One more event on the wire.
LEMMA CarriedAppend ==
  ASSUME NEW S, NEW wire \in Seq(S), NEW e
  PROVE  Carried(Append(wire, e)) =
           Carried(wire) \cup (IF e.type = "workload" THEN {e.item} ELSE {})
<1> DEFINE long == Append(wire, e)
<1>1. /\ long \in Seq(S \cup {e}) /\ Len(long) = Len(wire) + 1
      /\ \A i \in 1..Len(wire) : long[i] = wire[i]
      /\ long[Len(wire) + 1] = e
      /\ DOMAIN wire = 1..Len(wire) /\ DOMAIN long = 1..(Len(wire) + 1) /\ Len(wire) \in Nat
  BY AppendProperties, LenProperties
<1> HIDE DEF long
<1>2. ASSUME NEW k PROVE k \in Carried(long) <=>
        k \in Carried(wire) \cup (IF e.type = "workload" THEN {e.item} ELSE {})
  <2>1. ASSUME k \in Carried(long)
        PROVE  k \in Carried(wire) \cup (IF e.type = "workload" THEN {e.item} ELSE {})
    BY <1>1, <2>1 DEF Carried
  <2>2. ASSUME k \in Carried(wire) PROVE k \in Carried(long)
    BY <1>1, <2>2 DEF Carried
  <2>3. ASSUME e.type = "workload", k = e.item PROVE k \in Carried(long)
    BY <1>1, <2>3 DEF Carried
  <2> QED
    BY <2>1, <2>2, <2>3
<1> QED
  BY <1>2 DEF long

\* The first event off the wire.
LEMMA CarriedTail ==
  ASSUME NEW S, NEW wire \in Seq(S), wire # <<>>
  PROVE  Carried(wire) = Carried(Tail(wire)) \cup
           (IF Head(wire).type = "workload" THEN {Head(wire).item} ELSE {})
<1> DEFINE rest == Tail(wire)
<1>1. /\ Len(wire) \in Nat \ {0} /\ Len(rest) = Len(wire) - 1
      /\ \A i \in 1..Len(rest) : rest[i] = wire[i + 1]
      /\ Head(wire) = wire[1]
      /\ DOMAIN wire = 1..Len(wire) /\ DOMAIN rest = 1..Len(rest)
  BY HeadTailProperties, EmptySeq, LenProperties
<1> HIDE DEF rest
<1>2. ASSUME NEW k PROVE k \in Carried(wire) <=> k \in Carried(rest) \cup
        (IF Head(wire).type = "workload" THEN {Head(wire).item} ELSE {})
  <2>1. ASSUME k \in Carried(wire)
        PROVE  k \in Carried(rest) \cup
                 (IF Head(wire).type = "workload" THEN {Head(wire).item} ELSE {})
    <3>1. PICK i \in 1..Len(wire) : wire[i].type = "workload" /\ k = wire[i].item
      BY <1>1, <2>1 DEF Carried
    <3>2. CASE i = 1
      BY <1>1, <3>1, <3>2
    <3>3. CASE i # 1
      <4>1. i - 1 \in 1..Len(rest) /\ rest[i - 1] = wire[i]
        BY <1>1, <3>3
      <4> QED
        BY <1>1, <3>1, <4>1 DEF Carried
    <3> QED
      BY <3>2, <3>3
  <2>2. ASSUME k \in Carried(rest) PROVE k \in Carried(wire)
    <3>1. PICK i \in 1..Len(rest) : rest[i].type = "workload" /\ k = rest[i].item
      BY <1>1, <2>2 DEF Carried
    <3>2. i + 1 \in 1..Len(wire) /\ rest[i] = wire[i + 1]
      BY <1>1
    <3> QED
      BY <1>1, <3>1, <3>2 DEF Carried
  <2>3. ASSUME Head(wire).type = "workload", k = Head(wire).item PROVE k \in Carried(wire)
    BY <1>1, <2>3 DEF Carried
  <2> QED
    BY <2>1, <2>2, <2>3
<1> QED
  BY <1>2 DEF rest

-----------------------------------------------------------------------------
(* What keeps the stream of the page served. *)

\* A free slot serves nobody.
LEMMA FreeServesNobody ==
  ASSUME NEW q \in GoodRequest, q.kind = "free", NEW s
  PROVE  ~Serves(q, s) /\ ~FallsBack(q)
BY FieldsOfRequest DEF Serves, FallsBack

\* Neither does one with another answer on its wire.
LEMMA AnswerServesNobody ==
  ASSUME NEW q, q.wire # <<>>, NEW s
  PROVE  /\ Head(q.wire).type \in {"list", "cached"} => ~Serves(q, s)
         /\ Head(q.wire).type = "cached" => ~FallsBack(q)
<1>1. ASSUME NEW S, q.wire \in Seq(S) PROVE Head(q.wire) \in S
  BY <1>1, HeadTailProperties
<1> HIDE DEF StreamEvents, ListAnswers
<1>2. q.wire \in Seq(StreamEvents) => Head(q.wire).type \notin {"list", "cached"}
  BY <1>1, EventsApart
<1>3. q.wire \in Seq(ListAnswers) => Head(q.wire).type = "list"
  BY <1>1, EventsApart
<1> QED
  BY <1>2, <1>3 DEF Serves, FallsBack

\* A step that touches one request, and neither the stream nor the number of
\* the rendering, need only look at that request.
LEMMA StaysServed ==
  ASSUME IInv, NEW r \in Requests,
         request' \in [Requests -> GoodRequest],
         \A s \in Requests \ {r} : request'[s] = request[s],
         UNCHANGED <<stream, renderID>>,
         route' = "workloads" => route = "workloads",
         stream.slot = r /\ Serves(request[r], stream) => Serves(request'[r], stream),
         stream.slot = r /\ route = "workloads" /\ FallsBack(request[r])
           => FallsBack(request'[r])
  PROVE  StreamServed' /\ FallbackServed'
<1>1. stream.slot \in Requests \cup {None}
  BY DEF IInv, Types, TypeOK
<1>2. StreamServed'
  <2>1. ASSUME stream.slot # None, ~stream.fallingBack
        PROVE  Serves(request'[stream.slot], stream)
    <3>1. Serves(request[stream.slot], stream)
      BY <2>1 DEF IInv, StreamServed
    <3> QED
      BY <1>1, <2>1, <3>1
  <2> QED
    BY <2>1 DEF StreamServed, Serves
<1>3. FallbackServed'
  <2>1. ASSUME stream.slot # None, stream.fallingBack, route' = "workloads"
        PROVE  FallsBack(request'[stream.slot])
    <3>1. FallsBack(request[stream.slot])
      BY <2>1 DEF IInv, FallbackServed
    <3> QED
      BY <1>1, <2>1, <3>1
  <2> QED
    BY <2>1 DEF FallbackServed, FallsBack
<1> QED
  BY <1>2, <1>3

\* A step that touches no request.
LEMMA StaysServedAlone ==
  ASSUME IInv, UNCHANGED <<request, stream, renderID>>,
         route' = "workloads" => route = "workloads"
  PROVE  StreamServed' /\ FallbackServed'
BY DEF IInv, StreamServed, FallbackServed, Serves, FallsBack

\* A new request takes a free slot, and disturbs nothing.
LEMMA NewIsApart ==
  ASSUME IInv, FreeIn(request) # {}, NEW q \in GoodRequest,
         request' = [request EXCEPT ![SlotIn(request)] = q],
         UNCHANGED <<stream, renderID>>,
         route' = "workloads" => route = "workloads"
  PROVE  request' \in [Requests -> GoodRequest] /\ StreamServed' /\ FallbackServed'
<1> DEFINE r == SlotIn(request)
<1>1. request \in [Requests -> GoodRequest]
  BY DEF IInv, Types
<1>2. r \in Requests /\ request[r] \in GoodRequest /\ request[r].kind = "free"
  BY <1>1, SlotIsFree
<1>3. ~Serves(request[r], stream) /\ ~FallsBack(request[r])
  BY <1>2, FreeServesNobody
<1>4. request' \in [Requests -> GoodRequest] /\ \A s \in Requests \ {r} : request'[s] = request[s]
  BY <1>1, <1>2
<1> HIDE DEF r
<1> QED
  BY <1>2, <1>3, <1>4, StaysServed

\* No stream, nothing to serve.
LEMMA NoStreamIsServed ==
  ASSUME stream' = NoStream
  PROVE  stream' \in StreamSet /\ StreamServed' /\ FallbackServed' /\ stream'.slot = None
BY DEF NoStream, StreamSet, StreamServed, FallbackServed

\* A new stream starts out with what the page shows, and is served.
LEMMA NewStreamIsServed ==
  ASSUME NEW requests \in [Requests -> GoodRequest], FreeIn(requests) # {},
         NEW filter \in SUBSET Conns, NEW id \in 0..MaxRenders,
         NEW items \in SUBSET Containers,
         request' = [requests EXCEPT ![SlotIn(requests)] = NewRequest("stream", filter, id)],
         stream' = [NoStream EXCEPT !.slot = SlotIn(requests), !.filter = filter,
                                    !.items = items, !.initial = items],
         renderID' = id
  PROVE  /\ request' \in [Requests -> GoodRequest] /\ stream' \in StreamSet
         /\ StreamServed' /\ FallbackServed'
         /\ stream'.slot # None
<1> DEFINE slot == SlotIn(requests)
           q == NewRequest("stream", filter, id)
<1>1. slot \in Requests /\ slot # None
  BY SlotIsFree, ServiceAssumption
<1>2. q \in GoodRequest /\ q.kind = "stream" /\ q.open /\ q.render = id
      /\ q.wire = <<>> /\ q.found = {} /\ q.unsent = {}
  BY NewIsGood
<1> HIDE DEF slot, q
<1>3. request' \in [Requests -> GoodRequest] /\ request'[slot] = q
  BY <1>1, <1>2 DEF slot, q
<1>4. /\ stream' \in StreamSet /\ stream'.slot = slot /\ stream'.seen = {}
      /\ stream'.fallingBack = FALSE /\ stream'.items = items
  BY <1>1 DEF NoStream, StreamSet, slot
<1>5. Carried(q.wire) = {} /\ DOMAIN q.wire = {} /\ q.wire \in Seq(StreamEvents)
  BY <1>2, EmptySeq DEF Carried
<1>6. StreamServed'
  BY <1>2, <1>3, <1>4, <1>5 DEF StreamServed, Serves
<1> QED
  BY <1>1, <1>3, <1>4, <1>6 DEF StreamServed, FallbackServed

-----------------------------------------------------------------------------
(* The steps of the server. *)

CacheSet == [Conns -> {None} \cup SUBSET Containers]

\* The cache, and what it may hold.
Memory == cache \in CacheSet /\ answers \in [Conns -> SUBSET SUBSET Containers]

\* A step of the server that touches one request need only look at it.
LEMMA ServiceStep ==
  ASSUME IInv, UNCHANGED pageVars, UNCHANGED <<runtime, removed, action>>,
         Memory',
         NEW r \in Requests, NEW q \in GoodRequest,
         request' = [request EXCEPT ![r] = q],
         Serves(request[r], stream) => Serves(q, stream),
         FallsBack(request[r]) => FallsBack(q)
  PROVE  IInv'
<1>1. /\ request' \in [Requests -> GoodRequest] /\ request'[r] = q
      /\ \A s \in Requests \ {r} : request'[s] = request[s]
  BY DEF IInv, Types
<1>2. StreamServed' /\ FallbackServed'
  BY <1>1, StaysServed DEF pageVars
<1>3. Types'
  BY <1>1 DEF IInv, Types, TypeOK, pageVars, Memory, CacheSet
<1>4. ButtonServed'
  BY DEF IInv, ButtonServed, pageVars
<1> QED
  BY <1>2, <1>3, <1>4 DEF IInv

\* A step of the server that touches no request.
LEMMA ServiceStepAlone ==
  ASSUME IInv, UNCHANGED pageVars, UNCHANGED request,
         runtime' \subseteq Containers, removed' \subseteq Containers,
         Memory', action' \in ActionSet
  PROVE  IInv'
<1>1. StreamServed' /\ FallbackServed'
  BY StaysServedAlone DEF pageVars
<1>2. Types'
  BY DEF IInv, Types, TypeOK, pageVars, Memory, CacheSet
<1>3. ButtonServed'
  BY DEF IInv, ButtonServed, pageVars
<1> QED
  BY <1>1, <1>2, <1>3 DEF IInv

\* What a connection was found to run can be put into the cache.
LEMMA CacheStaysTyped ==
  ASSUME IInv, NEW c \in Conns, NEW items \in SUBSET Containers
  PROVE  cache \in CacheSet /\ [cache EXCEPT ![c] = items] \in CacheSet
         /\ [cache EXCEPT ![c] = None] \in CacheSet
BY DEF IInv, Types, TypeOK, CacheSet

LEMMA AppearKeeps ==
  ASSUME IInv, UNCHANGED pageVars, NEW k \in Containers, Appear(k)
  PROVE  IInv'
<1>1. runtime' \subseteq Containers /\ UNCHANGED <<removed, cache, answers, request, action>>
  BY DEF Appear, IInv, Types, TypeOK
<1> QED
  BY <1>1, ServiceStepAlone DEF IInv, Types, TypeOK, Memory, CacheSet

LEMMA RuntimeActsKeeps ==
  ASSUME IInv, UNCHANGED pageVars, NEW k \in Containers, RuntimeActs(k)
  PROVE  IInv'
<1>1. PICK step \in {"acted", "failed"} :
        /\ action' = [action EXCEPT !.step = step, !.item = k]
        /\ runtime' \in {runtime, runtime \ {k}}
        /\ removed' \in {removed, removed \cup {k}}
        /\ UNCHANGED <<cache, answers, request>>
  BY DEF RuntimeActs
<1>2. action' \in ActionSet
  BY <1>1 DEF IInv, Types, ActionSet
<1>3. runtime' \subseteq Containers /\ removed' \subseteq Containers /\ Memory'
  BY <1>1 DEF IInv, Types, TypeOK, Memory, CacheSet
<1> QED
  BY <1>1, <1>2, <1>3, ServiceStepAlone

\* An entry that is deleted.
LEMMA DroppedIsTyped ==
  ASSUME IInv, NEW c \in Conns, Dropped(c)
  PROVE  Memory'
<1>1. \A r \in Requests : request[r].found \subseteq Containers
  BY FieldsOfRequest DEF IInv, Types
<1>2. Unwritten(c) \in SUBSET SUBSET Containers
  BY <1>1 DEF Unwritten
<1> QED
  BY <1>2 DEF Dropped, IInv, Types, TypeOK, Memory, CacheSet

LEMMA ReconfigureKeeps ==
  ASSUME IInv, UNCHANGED pageVars, NEW c \in Conns, Reconfigure(c)
  PROVE  IInv'
<1>1. Memory' /\ UNCHANGED <<runtime, removed, request, action>>
  BY DroppedIsTyped DEF Reconfigure
<1> QED
  BY <1>1, ServiceStepAlone DEF IInv, Types, TypeOK

LEMMA InvalidateKeeps ==
  ASSUME IInv, UNCHANGED pageVars, Invalidate
  PROVE  IInv'
<1>1. action.item \in Containers /\ Owner[action.item] \in Conns
  BY ServiceAssumption DEF Invalidate, IInv, Types, ActionSet
<1>2. action' \in ActionSet
  BY <1>1 DEF Invalidate, IInv, Types, ActionSet
<1>3. Memory'
  BY <1>1, DroppedIsTyped DEF Invalidate
<1>4. UNCHANGED <<request, runtime, removed>>
  BY DEF Invalidate
<1> QED
  BY <1>2, <1>3, <1>4, ServiceStepAlone DEF IInv, Types, TypeOK

\* An answer of a runtime: what it brings waits for the loop.
LEMMA ReadKeeps ==
  ASSUME IInv, UNCHANGED pageVars, NEW r \in Requests, NEW c \in Conns, Read(r, c)
  PROVE  IInv'
<1> DEFINE p == request[r]
<1>1. PICK items \in SUBSET (runtime \cap Of(c)), ok \in BOOLEAN :
        request' = [request EXCEPT
            ![r].job[c] = IF ok THEN "answered" ELSE "failed",
            ![r].found = @ \cup items,
            ![r].unsent = IF request[r].kind = "stream" THEN @ \cup items ELSE @]
  BY DEF Read
<1> DEFINE job == [p.job EXCEPT ![c] = IF ok THEN "answered" ELSE "failed"]
           found == p.found \cup items
           unsent == IF p.kind = "stream" THEN p.unsent \cup items ELSE p.unsent
           q == [p EXCEPT !.job = job, !.found = found, !.unsent = unsent]
<1>2. p \in GoodRequest /\ p.job[c] = "asked" /\ runtime \subseteq Containers
  BY DEF IInv, Types, TypeOK, Read
<1>3. p.kind # "written"
  BY <1>2, FieldsOfRequest DEF Finished
<1>4. /\ job \in [Conns -> Jobs] /\ found \in SUBSET Containers /\ unsent \in SUBSET Containers
      /\ \A d \in Conns \ Targets(p.filter) : job[d] = "idle"
  BY <1>2, FieldsOfRequest DEF Jobs
<1>5. request' = [request EXCEPT ![r] = q]
  BY <1>1, <1>2, FieldsOfRequest DEF IInv, Types, RequestSet
<1>6. p \in RequestSet
  BY <1>2, FieldsOfRequest
<1>7. p.kind = "stream" => unsent = p.unsent \cup items
  OBVIOUS
<1>8. found = p.found \cup items
  OBVIOUS
<1> HIDE DEF p, job, found, unsent
<1>9. /\ q \in RequestSet
      /\ q.kind = p.kind /\ q.filter = p.filter /\ q.render = p.render /\ q.open = p.open
      /\ q.wire = p.wire /\ q.job = job /\ q.found = found /\ q.unsent = unsent
  BY <1>4, <1>6 DEF RequestSet
<1> HIDE DEF q
<1>10. q \in GoodRequest
  BY <1>2, <1>3, <1>4, <1>9, FieldsOfRequest DEF GoodRequest
<1>11. Serves(p, stream) => Serves(q, stream)
  BY <1>3, <1>7, <1>8, <1>9 DEF Serves
<1>12. FallsBack(p) => FallsBack(q)
  BY <1>9 DEF FallsBack
<1>13. UNCHANGED <<runtime, removed, action>> /\ Memory'
  BY DEF Read, IInv, Types, TypeOK, Memory, CacheSet
<1> QED
  BY <1>5, <1>10, <1>11, <1>12, <1>13, ServiceStep DEF p

\* An event that is written keeps the stream served: what it carries no longer
\* waits, and "complete" is the last of all.
LEMMA AppendServes ==
  ASSUME NEW p, NEW q, NEW s, NEW e \in StreamEvents,
         Serves(p, s), p.kind = "stream",
         q.kind \in {"stream", "written"}, q.open = p.open, q.render = p.render,
         q.found = p.found, q.wire = Append(p.wire, e),
         e.type = "complete" => q.kind = "written" /\ q.unsent = {},
         p.unsent = q.unsent \cup (IF e.type = "workload" THEN {e.item} ELSE {})
  PROVE  Serves(q, s)
<1>1. p.wire \in Seq(StreamEvents)
  BY DEF Serves
<1> HIDE DEF StreamEvents
<1>2. /\ q.wire \in Seq(StreamEvents) /\ Len(q.wire) = Len(p.wire) + 1 /\ Len(p.wire) \in Nat
      /\ \A i \in 1..Len(p.wire) : q.wire[i] = p.wire[i]
      /\ q.wire[Len(p.wire) + 1] = e
      /\ DOMAIN q.wire = 1..(Len(p.wire) + 1) /\ DOMAIN p.wire = 1..Len(p.wire)
  BY <1>1, AppendProperties, LenProperties
<1>3. Carried(q.wire) = Carried(p.wire) \cup (IF e.type = "workload" THEN {e.item} ELSE {})
  BY <1>1, CarriedAppend
<1>4. \A i \in DOMAIN p.wire : p.wire[i].type # "complete"
  BY DEF Serves
<1>5. ASSUME NEW i \in DOMAIN q.wire, q.wire[i].type = "complete"
      PROVE  q.kind = "written" /\ q.unsent = {} /\ i = Len(q.wire)
  <2>1. i = Len(p.wire) + 1
    BY <1>2, <1>4, <1>5
  <2> QED
    BY <1>2, <1>5, <2>1
<1>6. q.found = s.seen \cup q.unsent \cup Carried(q.wire)
  BY <1>3 DEF Serves
<1> QED
  BY <1>2, <1>5, <1>6 DEF Serves

\* What is written for a browser that is still there, and for one that has gone.
LEMMA WrittenIsTyped ==
  ASSUME IInv, NEW r \in Requests, NEW e \in StreamEvents
  PROVE  /\ Written(r, e) \in Seq(Events)
         /\ request[r].open => Written(r, e) = Append(request[r].wire, e)
<1>1. request[r].wire \in Seq(Events)
  BY FieldsOfRequest DEF IInv, Types
<1>2. e \in Events
  BY DEF Events
<1> HIDE DEF Events, StreamEvents
<1> QED
  BY <1>1, <1>2, AppendProperties, EmptySeq DEF Written

LEMMA WriteItemKeeps ==
  ASSUME IInv, UNCHANGED pageVars, NEW r \in Requests, NEW k \in Containers, WriteItem(r, k)
  PROVE  IInv'
<1> DEFINE p == request[r]
           e == [type |-> "workload", item |-> k]
           unsent == p.unsent \ {k}
           wire == Written(r, e)
           q == [p EXCEPT !.unsent = unsent, !.wire = wire]
<1>1. p \in GoodRequest /\ p.kind = "stream" /\ k \in p.unsent
  BY DEF IInv, Types, WriteItem
<1>2. request' = [request EXCEPT ![r] = q]
  BY <1>1, FieldsOfRequest DEF WriteItem, IInv, Types, RequestSet
<1>3. e \in StreamEvents /\ e.type = "workload" /\ e.item = k
  BY DEF StreamEvents
<1>4. wire \in Seq(Events) /\ (p.open => wire = Append(p.wire, e))
  BY <1>3, WrittenIsTyped
<1>5. unsent \in SUBSET Containers /\ p.unsent = unsent \cup {k} /\ p \in RequestSet
  BY <1>1, FieldsOfRequest
<1> HIDE DEF p, e, unsent, wire
<1>6. /\ q \in RequestSet
      /\ q.kind = p.kind /\ q.filter = p.filter /\ q.render = p.render /\ q.open = p.open
      /\ q.wire = wire /\ q.job = p.job /\ q.found = p.found /\ q.unsent = unsent
  BY <1>4, <1>5 DEF RequestSet
<1> HIDE DEF q
<1>7. q \in GoodRequest
  BY <1>1, <1>6, FieldsOfRequest DEF GoodRequest
<1>8. ASSUME Serves(p, stream) PROVE Serves(q, stream)
  <2>1. p.open
    BY <1>8 DEF Serves
  <2> QED
    BY <1>1, <1>3, <1>4, <1>5, <1>6, <1>8, <2>1, AppendServes
<1>9. ~FallsBack(p)
  BY <1>1 DEF FallsBack
<1>10. UNCHANGED <<runtime, removed, action>> /\ Memory'
  BY DEF WriteItem, IInv, Types, TypeOK, Memory, CacheSet
<1> QED
  BY <1>2, <1>7, <1>8, <1>9, <1>10, ServiceStep DEF p

LEMMA WriteCompletionKeeps ==
  ASSUME IInv, UNCHANGED pageVars, NEW r \in Requests, NEW c \in Conns, WriteCompletion(r, c)
  PROVE  IInv'
<1> DEFINE p == request[r]
           e == [type |-> "connection-complete", conn |-> c, ok |-> p.job[c] = "answered"]
           ended == IF p.job[c] = "answered" THEN "done" ELSE "erred"
           job == [p.job EXCEPT ![c] = ended]
           wire == Written(r, e)
           q == [p EXCEPT !.job = job, !.wire = wire]
<1>1. p \in GoodRequest /\ p.kind = "stream" /\ p.job[c] \in {"answered", "failed"}
  BY DEF IInv, Types, WriteCompletion
<1>2. e \in StreamEvents /\ e.type = "connection-complete"
  <2>1. (p.job[c] = "answered") \in BOOLEAN
    OBVIOUS
  <2> QED
    BY <2>1 DEF StreamEvents
<1>3. wire \in Seq(Events) /\ (p.open => wire = Append(p.wire, e))
  BY <1>2, WrittenIsTyped
<1>4. /\ job \in [Conns -> Jobs] /\ p \in RequestSet
      /\ \A d \in Conns \ Targets(p.filter) : job[d] = "idle"
  BY <1>1, FieldsOfRequest DEF Jobs
<1>5. request' = [request EXCEPT ![r] = q]
  <2>1. request' = [request EXCEPT ![r].job[c] = ended, ![r].wire = wire]
    BY <1>1, FieldsOfRequest DEF WriteCompletion, IInv, Types, RequestSet
  <2>2. request' = [request EXCEPT ![r] = [p EXCEPT !.job[c] = ended, !.wire = wire]]
    BY <2>1, <1>4 DEF IInv, Types
  <2>3. [p EXCEPT !.job[c] = ended, !.wire = wire] = q
    OBVIOUS
  <2> HIDE DEF q
  <2> QED
    BY <2>2, <2>3
<1> HIDE DEF p, e, job, wire
<1>6. /\ q \in RequestSet
      /\ q.kind = p.kind /\ q.filter = p.filter /\ q.render = p.render /\ q.open = p.open
      /\ q.wire = wire /\ q.job = job /\ q.found = p.found /\ q.unsent = p.unsent
  BY <1>3, <1>4 DEF RequestSet
<1> HIDE DEF q
<1>7. q \in GoodRequest
  BY <1>1, <1>4, <1>6, FieldsOfRequest DEF GoodRequest
<1>8. ASSUME Serves(p, stream) PROVE Serves(q, stream)
  <2>1. p.open
    BY <1>8 DEF Serves
  <2> QED
    BY <1>1, <1>2, <1>3, <1>6, <1>8, <2>1, AppendServes
<1>9. ~FallsBack(p)
  BY <1>1 DEF FallsBack
<1>10. UNCHANGED <<runtime, removed, action>>
  BY DEF WriteCompletion
<1>11. p.found \cap Of(c) \in SUBSET Containers
  BY <1>1, FieldsOfRequest
<1>12. Memory'
  BY <1>11, CacheStaysTyped DEF WriteCompletion, p, IInv, Types, TypeOK, Memory
<1> QED
  BY <1>5, <1>7, <1>8, <1>9, <1>10, <1>12, ServiceStep DEF p

\* "complete" is written when nothing waits and nobody will find more.
LEMMA WriteCompleteKeeps ==
  ASSUME IInv, UNCHANGED pageVars, NEW r \in Requests, WriteComplete(r)
  PROVE  IInv'
<1> DEFINE p == request[r]
           e == [type |-> "complete", failed |-> Erred(r)]
           wire == Append(p.wire, e)
           full == [p EXCEPT !.kind = "written", !.wire = wire]
           q == IF p.open THEN full ELSE Free
<1>1. p \in GoodRequest /\ p.kind = "stream"
  BY DEF IInv, Types, WriteComplete
<1>2. p.unsent = {} /\ \A c \in Targets(p.filter) : p.job[c] \in {"done", "erred"}
  BY DEF WriteComplete, Drained
<1>3. request' = [request EXCEPT ![r] = q]
  BY DEF WriteComplete
<1>4. e \in StreamEvents /\ e.type = "complete"
  BY DEF StreamEvents, Erred
<1>5. p \in RequestSet /\ p.wire \in Seq(Events)
  BY <1>1, FieldsOfRequest
<1>6. wire \in Seq(Events)
  <2>1. e \in Events
    BY <1>4 DEF Events
  <2> HIDE DEF Events, e, p
  <2> QED
    BY <1>5, <2>1, AppendProperties
<1>7. wire = Append(p.wire, e)
  OBVIOUS
<1>8. Finished(p)
  BY <1>1, <1>2, FieldsOfRequest DEF Finished
<1> HIDE DEF p, e, wire
<1>9. /\ full \in RequestSet
      /\ full.kind = "written" /\ full.filter = p.filter /\ full.render = p.render
      /\ full.open = p.open /\ full.wire = wire /\ full.job = p.job
      /\ full.found = p.found /\ full.unsent = p.unsent
  BY <1>5, <1>6 DEF RequestSet, Kinds
<1> HIDE DEF full
<1>10. full \in GoodRequest
  BY <1>1, <1>8, <1>9, FieldsOfRequest DEF GoodRequest, Finished
<1>11. q \in GoodRequest
  BY <1>10, FreeIsGood
<1>12. ASSUME Serves(p, stream) PROVE Serves(q, stream)
  <2>1. p.open
    BY <1>12 DEF Serves
  <2>2. Serves(full, stream)
    BY <1>1, <1>2, <1>4, <1>7, <1>9, <1>12, AppendServes
  <2> QED
    BY <2>1, <2>2
<1>13. ~FallsBack(p)
  BY <1>1 DEF FallsBack
<1>14. UNCHANGED <<runtime, removed, action>> /\ Memory'
  BY DEF WriteComplete, IInv, Types, TypeOK, Memory, CacheSet
<1> HIDE DEF q
<1> QED
  BY <1>3, <1>11, <1>12, <1>13, <1>14, ServiceStep DEF p

LEMMA AbandonKeeps ==
  ASSUME IInv, UNCHANGED pageVars, NEW r \in Requests, Abandon(r)
  PROVE  IInv'
<1>1. ~Serves(request[r], stream) /\ ~FallsBack(request[r])
  BY DEF Abandon, Serves, FallsBack
<1>2. /\ request' = [request EXCEPT ![r] = Free]
      /\ UNCHANGED <<runtime, removed, action>> /\ Memory'
  BY DEF Abandon, IInv, Types, TypeOK, Memory, CacheSet
<1> QED
  BY <1>1, <1>2, FreeIsGood, ServiceStep

LEMMA AnswerListKeeps ==
  ASSUME IInv, UNCHANGED pageVars, NEW r \in Requests, AnswerList(r)
  PROVE  IInv'
<1> DEFINE p == request[r]
           good == {c \in Conns : p.job[c] = "answered"}
           e == [type |-> "list", failed |-> Erred(r),
                 items |-> {k \in p.found : Owner[k] \in good}]
           wire == <<e>>
           full == [p EXCEPT !.kind = "written", !.wire = wire]
           q == IF p.open THEN full ELSE Free
<1>1. p \in GoodRequest /\ p.kind = "list" /\ Finished(p)
  BY DEF IInv, Types, AnswerList, Finished
<1>2. request' = [request EXCEPT ![r] = q]
  BY DEF AnswerList
<1>3. p \in RequestSet /\ p.found \subseteq Containers
  BY <1>1, FieldsOfRequest
<1>4. e \in ListAnswers
  BY <1>3 DEF ListAnswers, Erred
<1>5. wire \in Seq(ListAnswers)
  <2> HIDE DEF e, ListAnswers
  <2> QED
    BY <1>4
<1>6. wire \in Seq(Events)
  BY <1>5, EventsAreEvents
<1>7. Memory'
  <2>1. \A c \in Conns : p.found \cap Of(c) \in SUBSET Containers
    BY <1>3
  <2> QED
    BY <2>1 DEF AnswerList, IInv, Types, TypeOK, Memory, CacheSet
<1> HIDE DEF p, wire
<1>8. /\ full \in RequestSet
      /\ full.kind = "written" /\ full.filter = p.filter /\ full.render = p.render
      /\ full.open = p.open /\ full.wire = wire /\ full.job = p.job
  BY <1>3, <1>6 DEF RequestSet, Kinds
<1> HIDE DEF full
<1>9. full \in GoodRequest
  BY <1>1, <1>8, FieldsOfRequest DEF GoodRequest, Finished
<1>10. q \in GoodRequest
  BY <1>9, FreeIsGood
<1>11. ~Serves(p, stream)
  BY <1>1 DEF Serves
<1>12. FallsBack(p) => FallsBack(q)
  BY <1>5, <1>8 DEF FallsBack
<1>13. UNCHANGED <<runtime, removed, action>>
  BY DEF AnswerList
<1> HIDE DEF q
<1> QED
  BY <1>2, <1>7, <1>10, <1>11, <1>12, <1>13, ServiceStep DEF p

\* The server keeps the invariant, whatever it does.
LEMMA ServiceKeeps ==
  ASSUME IInv, ServiceNext, UNCHANGED pageVars
  PROVE  IInv'
BY AppearKeeps, RuntimeActsKeeps, InvalidateKeeps, ReconfigureKeeps, ReadKeeps, WriteItemKeeps,
   WriteCompletionKeeps, WriteCompleteKeeps, AbandonKeeps, AnswerListKeeps DEF ServiceNext

-----------------------------------------------------------------------------
(* The steps of the page. *)

\* The types of what the steps of the page seldom change.
LEMMA ServerTypes ==
  ASSUME IInv, UNCHANGED <<runtime, removed, cache, answers>>
  PROVE  runtime' \subseteq Containers /\ removed' \subseteq Containers
         /\ cache' \in [Conns -> {None} \cup SUBSET Containers]
         /\ answers' \in [Conns -> SUBSET SUBSET Containers]
BY DEF IInv, Types, TypeOK

\* A step that stops the stream, and disables no button of the page.
LEMMA StoppingKeeps ==
  ASSUME TypeOK', request' \in [Requests -> GoodRequest], action' \in ActionSet,
         stream' = NoStream,
         ~(route' = "workloads" /\ drawn' = "workloads" /\ refreshing')
  PROVE  IInv'
<1>1. stream' \in StreamSet /\ StreamServed' /\ FallbackServed'
  BY NoStreamIsServed
<1> QED
  BY <1>1 DEF IInv, Types, ButtonServed

LEMMA BeginRenderKeeps ==
  ASSUME IInv, BeginRender, route' \in {"workloads", "topology"},
         drawn' \in {"workloads", "topology", "login"}
  PROVE  IInv'
<1>1. stream' = NoStream /\ refreshing' = FALSE /\ action' \in ActionSet
  BY DEF BeginRender, StopStream, serverOnly, IInv, Types
<1>2. request' \in [Requests -> GoodRequest]
  BY StoppedIsGood DEF BeginRender, IInv
<1>3. renderID' \in 0..MaxRenders /\ awaiting' \subseteq 1..renderID'
  BY PageAssumption DEF BeginRender, IInv, Types, TypeOK
<1>4. stream'.slot \in Requests \cup {None}
  BY <1>1 DEF NoStream
<1>5. TypeOK'
  BY <1>1, <1>3, <1>4, ServerTypes
     DEF BeginRender, StopStream, serverOnly, IInv, Types, TypeOK
<1> QED
  BY <1>1, <1>2, <1>5, StoppingKeeps

LEMMA OpenWorkloadsKeeps ==
  ASSUME IInv, OpenWorkloads
  PROVE  IInv'
BY BeginRenderKeeps DEF OpenWorkloads, IInv, Types, TypeOK

LEMMA LeaveKeeps ==
  ASSUME IInv, Leave
  PROVE  IInv'
<1>1. stream' = NoStream /\ route' = "topology" /\ action' \in ActionSet
  BY DEF Leave, StopStream, serverOnly, IInv, Types
<1>2. request' \in [Requests -> GoodRequest]
  BY StoppedIsGood DEF Leave, IInv
<1>3. stream'.slot \in Requests \cup {None}
  BY <1>1 DEF NoStream
<1>4. TypeOK'
  BY <1>1, <1>3, ServerTypes DEF Leave, StopStream, serverOnly, IInv, Types, TypeOK
<1> QED
  BY <1>1, <1>2, <1>4, StoppingKeeps

LEMMA LoginKeeps ==
  ASSUME IInv, Login
  PROVE  IInv'
<1>1. CASE route = "workloads"
  BY <1>1, BeginRenderKeeps DEF Login, IInv, Types, TypeOK
<1>2. CASE route # "workloads"
  <2>1. /\ stream' = NoStream /\ route' = "topology" /\ drawn' = "topology"
        /\ action' \in ActionSet
    BY <1>2 DEF Login, StopStream, serverOnly, IInv, Types, TypeOK
  <2>2. request' \in [Requests -> GoodRequest]
    BY <1>2, StoppedIsGood DEF Login, IInv
  <2>3. stream'.slot \in Requests \cup {None}
    BY <2>1 DEF NoStream
  <2>4. TypeOK'
    BY <1>2, <2>1, <2>3, ServerTypes DEF Login, StopStream, serverOnly, IInv, Types, TypeOK
  <2> QED
    BY <2>1, <2>2, <2>4, StoppingKeeps
<1> QED
  BY <1>1, <1>2

LEMMA SignOutKeeps ==
  ASSUME IInv, NEW stopped \in [Requests -> GoodRequest], SignOut(stopped),
         awaiting' \subseteq awaiting, action' \in ActionSet
  PROVE  IInv'
<1>1. stream' = NoStream /\ drawn' = "login" /\ request' \in [Requests -> GoodRequest]
  BY DEF SignOut, StopStream
<1>2. stream'.slot \in Requests \cup {None}
  BY <1>1 DEF NoStream
<1>3. TypeOK'
  BY <1>1, <1>2, ServerTypes DEF SignOut, StopStream, IInv, Types, TypeOK
<1> QED
  BY <1>1, <1>3, StoppingKeeps

LEMMA NoActionIsTyped ==
  NoAction \in ActionSet
BY DEF NoAction, ActionSet

LEMMA UnauthorizedKeeps ==
  ASSUME IInv, Unauthorized
  PROVE  IInv'
<1>1. Stopped \in [Requests -> GoodRequest] /\ action \in ActionSet
  BY StoppedIsGood DEF IInv, Types
<1>2. \A r \in Requests : [Stopped EXCEPT ![r] = Free] \in [Requests -> GoodRequest]
  BY <1>1, FreeIsGood
<1>3. ASSUME NEW id \in awaiting, awaiting' = awaiting \ {id}, SignOut(Stopped), UNCHANGED action
      PROVE  IInv'
  BY <1>1, <1>3, SignOutKeeps
<1>4. ASSUME NEW r \in Requests, SignOut([Stopped EXCEPT ![r] = Free]),
             UNCHANGED <<awaiting, action>>
      PROVE  IInv'
  BY <1>1, <1>2, <1>4, SignOutKeeps
<1>5. ASSUME action' = NoAction, SignOut(Stopped), UNCHANGED awaiting
      PROVE  IInv'
  BY <1>1, <1>5, NoActionIsTyped, SignOutKeeps
<1> QED
  BY <1>3, <1>4, <1>5 DEF Unauthorized

\* A new stream for the latest rendering: the button has something behind it.
LEMMA StreamingKeeps ==
  ASSUME IInv, UNCHANGED <<runtime, removed, cache, answers, route>>,
         NEW requests \in [Requests -> GoodRequest], FreeIn(requests) # {},
         NEW filter \in SUBSET Conns, NEW id \in 0..MaxRenders,
         NEW items \in SUBSET Containers,
         request' = [requests EXCEPT ![SlotIn(requests)] = NewRequest("stream", filter, id)],
         stream' = [NoStream EXCEPT !.slot = SlotIn(requests), !.filter = filter,
                                    !.items = items, !.initial = items],
         renderID' = id, awaiting' \subseteq 1..id, action' \in ActionSet,
         drawn' \in {"workloads", "topology", "login"}, shown' \subseteq Containers,
         cached' \subseteq Conns, pending' \subseteq Conns,
         refreshing' \in BOOLEAN, timer' \in BOOLEAN
  PROVE  IInv'
<1>1. /\ request' \in [Requests -> GoodRequest] /\ stream' \in StreamSet
      /\ StreamServed' /\ FallbackServed' /\ stream'.slot # None
  BY NewStreamIsServed
<1>2. TypeOK'
  BY <1>1, ServerTypes DEF IInv, Types, TypeOK, StreamSet
<1> QED
  BY <1>1, <1>2 DEF IInv, Types, ButtonServed

\* The button, or the end of an action on the connections.
LEMMA RefreshKeeps ==
  ASSUME IInv, NEW filter \in SUBSET Conns, Refresh(filter),
         UNCHANGED <<runtime, removed, cache, answers, route, drawn, awaiting, shown>>,
         cached' \subseteq Conns, action' \in ActionSet
  PROVE  IInv'
<1>1. Stopped \in [Requests -> GoodRequest] /\ FreeIn(Stopped) # {}
  BY StoppedIsGood DEF IInv, Refresh, StartStream
<1>2. renderID + 1 \in 0..MaxRenders /\ renderID' = renderID + 1
      /\ awaiting' \subseteq 1..(renderID + 1)
  BY PageAssumption DEF Refresh, IInv, Types, TypeOK
<1>3. /\ request' = [Stopped EXCEPT
            ![SlotIn(Stopped)] = NewRequest("stream", filter, renderID + 1)]
      /\ stream' = [NoStream EXCEPT !.slot = SlotIn(Stopped), !.filter = filter,
                                    !.items = shown, !.initial = shown]
      /\ timer' = FALSE
  BY DEF Refresh, StartStream
<1>4. /\ drawn' \in {"workloads", "topology", "login"} /\ shown \in SUBSET Containers
      /\ shown' \subseteq Containers /\ pending' \subseteq Conns /\ refreshing' \in BOOLEAN
  BY DEF Refresh, IInv, Types, TypeOK, Targets
<1> QED
  BY <1>1, <1>2, <1>3, <1>4, StreamingKeeps

LEMMA RefreshWorkloadsKeeps ==
  ASSUME IInv, NEW filter \in SUBSET Conns, RefreshWorkloads(filter)
  PROVE  IInv'
<1>1. /\ UNCHANGED <<runtime, removed, cache, answers, route, drawn, awaiting, shown>>
      /\ cached' \subseteq Conns /\ action' \in ActionSet
  BY DEF RefreshWorkloads, serverOnly, IInv, Types, TypeOK
<1> QED
  BY <1>1, RefreshKeeps DEF RefreshWorkloads

\* A rendering that has its answer: it streams, or leaves the stream alone.
LEMMA FinishRenderKeeps ==
  ASSUME IInv, NEW id \in 0..MaxRenders, NEW nowCached \in SUBSET Conns,
         NEW released \in [Requests -> GoodRequest],
         FinishRender(id, nowCached, released),
         request' = released /\ UNCHANGED stream => StreamServed' /\ FallbackServed',
         UNCHANGED <<serverOnly, route, renderID, pending>>,
         awaiting' \subseteq awaiting, shown' \in SUBSET Containers, cached' \subseteq Conns
  PROVE  IInv'
<1> DEFINE missing == (Conns \ nowCached) \cup pending
<1>1. /\ missing \in SUBSET Conns /\ action' \in ActionSet
      /\ UNCHANGED <<runtime, removed, cache, answers, route, pending>>
      /\ pending' \subseteq Conns /\ renderID' = renderID /\ renderID \in 0..MaxRenders
  BY DEF serverOnly, IInv, Types, TypeOK
<1>2. ASSUME request' = released, UNCHANGED <<stream, timer>>,
             drawn' \in {"workloads", "topology", "login"}, refreshing' \in BOOLEAN,
             \/ UNCHANGED <<drawn, refreshing>>
             \/ refreshing' = FALSE
      PROVE  IInv'
  <2>1. Types'
    BY <1>1, <1>2, ServerTypes DEF IInv, Types, TypeOK
  <2>2. ButtonServed'
    BY <1>1, <1>2 DEF IInv, ButtonServed
  <2> QED
    BY <1>2, <2>1, <2>2 DEF IInv
<1>3. CASE id # renderID
  <2>1. request' = released /\ UNCHANGED <<drawn, refreshing, stream, timer>>
    BY <1>3 DEF FinishRender
  <2>2. drawn' \in {"workloads", "topology", "login"} /\ refreshing' \in BOOLEAN
    BY <2>1 DEF IInv, Types, TypeOK
  <2> QED
    BY <1>2, <2>1, <2>2
<1>4. CASE id = renderID /\ missing = {}
  <2>1. request' = released /\ UNCHANGED <<stream, timer>> /\ drawn' = "workloads"
        /\ refreshing' = FALSE
    BY <1>4 DEF FinishRender
  <2> QED
    BY <1>2, <2>1
<1>5. CASE id = renderID /\ missing # {}
  <2>1. /\ drawn' = "workloads" /\ refreshing' = TRUE /\ UNCHANGED timer
        /\ FreeIn(released) # {}
        /\ request' = [released EXCEPT
             ![SlotIn(released)] = NewRequest("stream", missing, renderID)]
        /\ stream' = [NoStream EXCEPT !.slot = SlotIn(released), !.filter = missing,
                        !.items = shown', !.initial = shown']
    BY <1>5 DEF FinishRender
  <2>2. awaiting' \subseteq 1..renderID /\ timer' \in BOOLEAN
    BY <2>1 DEF IInv, Types, TypeOK
  <2> HIDE DEF missing
  <2> QED
    BY <1>1, <2>1, <2>2, StreamingKeeps
<1> QED
  BY <1>3, <1>4, <1>5

LEMMA ConnectionsLoadedKeeps ==
  ASSUME IInv, NEW id \in awaiting, ConnectionsLoaded(id)
  PROVE  IInv'
<1>1. /\ id \in 0..MaxRenders /\ awaiting' \subseteq awaiting
      /\ UNCHANGED <<serverOnly, route, renderID, pending>>
      /\ cached \subseteq Conns /\ shown \in SUBSET Containers
      /\ request \in [Requests -> GoodRequest]
  BY PageAssumption DEF ConnectionsLoaded, IInv, Types, TypeOK
<1>2. CASE cached = Conns
  <2>1. UNCHANGED <<shown, cached>> /\ FinishRender(id, cached, request)
    BY <1>2 DEF ConnectionsLoaded
  <2>2. request' = request /\ UNCHANGED stream => StreamServed' /\ FallbackServed'
    BY <1>1, StaysServedAlone
  <2> QED
    BY <1>1, <2>1, <2>2, FinishRenderKeeps
<1>3. CASE cached # Conns
  <2> DEFINE q == NewCachedRead(Conns \ cached, id)
  <2>1. /\ FreeIn(request) # {} /\ request' = [request EXCEPT ![SlotIn(request)] = q]
        /\ UNCHANGED <<drawn, shown, cached, refreshing, stream, timer>>
    BY <1>3 DEF ConnectionsLoaded
  <2>2. q \in GoodRequest
    BY <1>1, CachedReadIsGood DEF IInv
  <2> HIDE DEF q
  <2>3. request' \in [Requests -> GoodRequest] /\ StreamServed' /\ FallbackServed'
    BY <1>1, <2>1, <2>2, NewIsApart
  <2>4. Types'
    BY <1>1, <2>1, <2>3, ServerTypes DEF serverOnly, IInv, Types, TypeOK
  <2>5. ButtonServed'
    BY <1>1, <2>1 DEF IInv, ButtonServed
  <2> QED
    BY <2>3, <2>4, <2>5 DEF IInv
<1> QED
  BY <1>2, <1>3

\* What the answer at the head of a wire brings.
LEMMA HeadFields ==
  ASSUME IInv, NEW r \in Requests, request[r].wire # <<>>
  PROVE  Head(request[r].wire) \in Events
<1>1. request[r].wire \in Seq(Events)
  BY FieldsOfRequest DEF IInv, Types
<1> HIDE DEF Events
<1> QED
  BY <1>1, HeadTailProperties

LEMMA TakenIsGood ==
  ASSUME IInv, NEW r \in Requests
  PROVE  /\ Taken(r) \in [Requests -> GoodRequest]
         /\ \A s \in Requests \ {r} : Taken(r)[s] = request[s]
BY FreeIsGood DEF Taken, IInv, Types

LEMMA CachedLoadedKeeps ==
  ASSUME IInv, NEW r \in Requests, CachedLoaded(r)
  PROVE  IInv'
<1> DEFINE response == Head(request[r].wire)
<1>1. /\ request[r].wire # <<>> /\ response.type = "cached"
      /\ shown' = {k \in shown : Owner[k] \notin response.observed} \cup response.items
      /\ cached' = cached \cup response.observed
      /\ FinishRender(request[r].render, cached', Taken(r))
      /\ UNCHANGED <<serverOnly, route, renderID, awaiting, pending>>
  BY DEF CachedLoaded
<1>2. response.observed \in SUBSET Conns /\ response.items \in SUBSET Containers
  BY <1>1, HeadFields, EventFields
<1>3. ~Serves(request[r], stream) /\ ~FallsBack(request[r])
  BY <1>1, AnswerServesNobody
<1>4. request[r].render \in 0..MaxRenders
  BY FieldsOfRequest DEF IInv, Types
<1> HIDE DEF response
<1>5. shown' \in SUBSET Containers /\ cached' \in SUBSET Conns
  BY <1>1, <1>2 DEF IInv, Types, TypeOK
<1>6. request' = Taken(r) /\ UNCHANGED stream => StreamServed' /\ FallbackServed'
  BY <1>1, <1>3, TakenIsGood, StaysServed
<1> QED
  BY <1>1, <1>4, <1>5, <1>6, TakenIsGood, FinishRenderKeeps

\* A call that fails, and the end of the rendering.
LEMMA RenderFailsKeeps ==
  ASSUME IInv, NEW id, NEW released \in [Requests -> GoodRequest],
         RenderFails(id, released), awaiting' \subseteq awaiting,
         StreamServed' /\ FallbackServed'
  PROVE  IInv'
<1>1. /\ UNCHANGED <<runtime, removed, cache, answers, action, route, drawn, renderID, shown,
                     cached, pending, stream, timer>>
      /\ request' = released /\ refreshing' \in {FALSE, refreshing}
  BY DEF RenderFails, unbounded
<1>2. Types'
  BY <1>1, ServerTypes DEF IInv, Types, TypeOK
<1>3. ButtonServed'
  BY <1>1 DEF IInv, ButtonServed
<1> QED
  BY <1>2, <1>3 DEF IInv

LEMMA ConnectionsFailKeeps ==
  ASSUME IInv, NEW id \in awaiting, ConnectionsFail(id)
  PROVE  IInv'
<1>1. RenderFails(id, request) /\ awaiting' \subseteq awaiting
      /\ request \in [Requests -> GoodRequest]
  BY DEF ConnectionsFail, IInv, Types
<1>2. StreamServed' /\ FallbackServed'
  BY <1>1, StaysServedAlone DEF RenderFails
<1> QED
  BY <1>1, <1>2, RenderFailsKeeps

LEMMA CachedFailsKeeps ==
  ASSUME IInv, NEW r \in Requests, CachedFails(r)
  PROVE  IInv'
<1>1. /\ RenderFails(request[r].render, Taken(r)) /\ awaiting' = awaiting
      /\ request[r].wire # <<>> /\ Head(request[r].wire).type = "cached"
  BY DEF CachedFails
<1>2. ~Serves(request[r], stream) /\ ~FallsBack(request[r])
  BY <1>1, AnswerServesNobody
<1>3. StreamServed' /\ FallbackServed'
  BY <1>1, <1>2, TakenIsGood, StaysServed DEF RenderFails
<1> QED
  BY <1>1, <1>3, TakenIsGood, RenderFailsKeeps

-----------------------------------------------------------------------------
(* The listeners. *)

\* What arrives is an event of the stream of the page.
LEMMA ArrivingIsServed ==
  ASSUME IInv, NEW type, Arrives(type)
  PROVE  /\ stream.slot \in Requests /\ stream.slot # None /\ ~stream.fallingBack
         /\ Serves(request[stream.slot], stream)
         /\ request[stream.slot].wire # <<>>
         /\ Event \in Events /\ Event.type = type
<1>1. /\ stream.slot \in Requests /\ stream.slot # None /\ ~stream.fallingBack
      /\ request[stream.slot].wire # <<>> /\ Event.type = type
  BY DEF Arrives, Event, IInv, Types, TypeOK
<1>2. Serves(request[stream.slot], stream)
  BY <1>1 DEF IInv, StreamServed
<1>3. Event \in Events
  BY <1>1, HeadFields DEF Event
<1> QED
  BY <1>1, <1>2, <1>3

\* What has been taken off the wire has been seen.
LEMMA TailServes ==
  ASSUME NEW p, NEW q, NEW s, NEW t, Serves(p, s), p.wire # <<>>,
         q.kind = p.kind, q.open = p.open, q.render = p.render, q.found = p.found,
         q.unsent = p.unsent, q.wire = Tail(p.wire),
         t.seen = s.seen \cup (IF Head(p.wire).type = "workload"
                               THEN {Head(p.wire).item} ELSE {}),
         t.seen \subseteq t.items
  PROVE  Serves(q, t)
<1>1. p.wire \in Seq(StreamEvents)
  BY DEF Serves
<1> HIDE DEF StreamEvents
<1>2. /\ q.wire \in Seq(StreamEvents) /\ Len(p.wire) \in Nat \ {0}
      /\ Len(q.wire) = Len(p.wire) - 1
      /\ \A i \in 1..Len(q.wire) : q.wire[i] = p.wire[i + 1]
      /\ DOMAIN p.wire = 1..Len(p.wire) /\ DOMAIN q.wire = 1..Len(q.wire)
  BY <1>1, HeadTailProperties, EmptySeq, LenProperties
<1>3. Carried(p.wire) = Carried(q.wire) \cup
        (IF Head(p.wire).type = "workload" THEN {Head(p.wire).item} ELSE {})
  BY <1>1, CarriedTail
<1>4. q.found = t.seen \cup q.unsent \cup Carried(q.wire)
  BY <1>3 DEF Serves
<1>5. ASSUME NEW i \in DOMAIN q.wire, q.wire[i].type = "complete"
      PROVE  q.kind = "written" /\ q.unsent = {} /\ i = Len(q.wire)
  <2>1. i + 1 \in DOMAIN p.wire /\ p.wire[i + 1].type = "complete"
    BY <1>2, <1>5
  <2>2. p.kind = "written" /\ p.unsent = {} /\ i + 1 = Len(p.wire)
    BY <2>1 DEF Serves
  <2> QED
    BY <1>2, <2>2
<1> QED
  BY <1>2, <1>4, <1>5 DEF Serves

\* The request with one event less on its wire.
LEMMA HandledIsGood ==
  ASSUME IInv, stream.slot \in Requests, request[stream.slot].wire # <<>>, Handled
  PROVE  LET p == request[stream.slot]
             q == request'[stream.slot] IN
         /\ request' \in [Requests -> GoodRequest]
         /\ \A s \in Requests \ {stream.slot} : request'[s] = request[s]
         /\ q.kind = p.kind /\ q.open = p.open /\ q.render = p.render /\ q.found = p.found
         /\ q.unsent = p.unsent /\ q.wire = Tail(p.wire)
<1> DEFINE p == request[stream.slot]
           wire == Tail(p.wire)
           q == [p EXCEPT !.wire = wire]
<1>1. p \in GoodRequest /\ p \in RequestSet /\ p.wire \in Seq(Events)
  BY FieldsOfRequest DEF IInv, Types
<1>2. wire \in Seq(Events)
  <2> HIDE DEF Events, p
  <2> QED
    BY <1>1, HeadTailProperties DEF p
<1>3. request' = [request EXCEPT ![stream.slot] = q]
  BY <1>1 DEF Handled, IInv, Types
<1>4. wire = Tail(p.wire)
  OBVIOUS
<1> HIDE DEF p, wire
<1>5. /\ q \in RequestSet
      /\ q.kind = p.kind /\ q.filter = p.filter /\ q.render = p.render /\ q.open = p.open
      /\ q.wire = wire /\ q.job = p.job /\ q.found = p.found /\ q.unsent = p.unsent
  BY <1>1, <1>2 DEF RequestSet
<1> HIDE DEF q
<1>6. q \in GoodRequest
  BY <1>1, <1>5, FieldsOfRequest DEF GoodRequest, Finished
<1>7. /\ request' \in [Requests -> GoodRequest] /\ request'[stream.slot] = q
      /\ \A s \in Requests \ {stream.slot} : request'[s] = request[s]
  BY <1>3, <1>6 DEF IInv, Types
<1> QED
  BY <1>4, <1>5, <1>7 DEF p

LEMMA OnWorkloadKeeps ==
  ASSUME IInv, OnWorkload
  PROVE  IInv'
<1> DEFINE slot == stream.slot
           seen == stream.seen \cup {Event.item}
           items == stream.items \cup {Event.item}
<1>1. /\ slot \in Requests /\ slot # None /\ ~stream.fallingBack
      /\ Serves(request[slot], stream) /\ request[slot].wire # <<>>
      /\ Event \in Events /\ Event.type = "workload"
  BY ArrivingIsServed DEF OnWorkload
<1>2. Event.item \in Containers
  BY <1>1, EventFields
<1>3. /\ stream' = [stream EXCEPT !.seen = seen, !.items = items]
      /\ UNCHANGED <<serverOnly, route, drawn, renderID, awaiting, shown, cached,
                     pending, refreshing>>
      /\ timer' = TRUE /\ Handled
  BY DEF OnWorkload, IInv, Types, StreamSet
<1>4. seen \in SUBSET Containers /\ items \in SUBSET Containers /\ seen \subseteq items
  BY <1>1, <1>2 DEF Serves, IInv, Types, StreamSet
<1>5. Event = Head(request[slot].wire)
  BY DEF Event
<1>6. seen = stream.seen \cup {Event.item}
  OBVIOUS
<1> HIDE DEF Event, seen, items
<1>7. /\ stream' \in StreamSet /\ stream'.slot = slot /\ stream'.fallingBack = FALSE
      /\ stream'.seen = seen /\ stream'.items = items
  BY <1>1, <1>3, <1>4 DEF IInv, Types, StreamSet
<1>8. Serves(request'[slot], stream')
  <2> DEFINE p == request[slot]
             q == request'[slot]
  <2>1. /\ q.kind = p.kind /\ q.open = p.open /\ q.render = p.render /\ q.found = p.found
        /\ q.unsent = p.unsent /\ q.wire = Tail(p.wire)
    BY <1>1, <1>3, HandledIsGood
  <2>2. /\ Serves(p, stream) /\ p.wire # <<>>
        /\ Head(p.wire).type = "workload" /\ Head(p.wire).item = Event.item
    BY <1>1, <1>5
  <2>3. /\ stream'.seen = stream.seen \cup {Event.item}
        /\ stream'.seen \subseteq stream'.items
    BY <1>4, <1>6, <1>7
  <2> HIDE DEF p, q
  <2>4. Serves(q, stream')
    BY <2>1, <2>2, <2>3, TailServes
  <2> QED
    BY <2>4 DEF q
<1>9. StreamServed' /\ FallbackServed'
  BY <1>3, <1>7, <1>8 DEF StreamServed, FallbackServed, Serves
<1>10. Types'
  BY <1>1, <1>3, <1>7, HandledIsGood, ServerTypes DEF serverOnly, IInv, Types, TypeOK
<1>11. ButtonServed'
  BY <1>1, <1>7 DEF ButtonServed
<1> QED
  BY <1>9, <1>10, <1>11 DEF IInv

LEMMA OnConnectionCompleteKeeps ==
  ASSUME IInv, OnConnectionComplete
  PROVE  IInv'
<1> DEFINE slot == stream.slot
<1>1. /\ slot \in Requests /\ slot # None /\ ~stream.fallingBack
      /\ Serves(request[slot], stream) /\ request[slot].wire # <<>>
      /\ Event \in Events /\ Event.type = "connection-complete"
  BY ArrivingIsServed DEF OnConnectionComplete
<1>2. Event.conn \in Conns
  BY <1>1, EventFields
<1>3. /\ UNCHANGED <<serverOnly, route, drawn, renderID, awaiting, shown, refreshing, stream>>
      /\ timer' = TRUE /\ Handled
      /\ cached' \in {cached, cached \cup {Event.conn}} /\ pending' = pending \ {Event.conn}
  BY DEF OnConnectionComplete
<1>4. Event = Head(request[slot].wire)
  BY DEF Event
<1> HIDE DEF Event
<1>5. stream.seen \subseteq stream.items /\ Head(request[slot].wire).type # "workload"
  BY <1>1, <1>4 DEF Serves
<1>6. Serves(request'[slot], stream)
  <2> DEFINE p == request[slot]
             q == request'[slot]
  <2>1. /\ q.kind = p.kind /\ q.open = p.open /\ q.render = p.render /\ q.found = p.found
        /\ q.unsent = p.unsent /\ q.wire = Tail(p.wire)
    BY <1>1, <1>3, HandledIsGood
  <2>2. Serves(p, stream) /\ p.wire # <<>> /\ Head(p.wire).type # "workload"
    BY <1>1, <1>5
  <2> HIDE DEF p, q
  <2>3. Serves(q, stream)
    BY <1>5, <2>1, <2>2, TailServes
  <2> QED
    BY <2>3 DEF q
<1>7. StreamServed' /\ FallbackServed'
  BY <1>1, <1>3, <1>6 DEF StreamServed, FallbackServed, Serves
<1>8. cached' \subseteq Conns /\ pending' \subseteq Conns
  BY <1>2, <1>3 DEF IInv, Types, TypeOK
<1>9. Types'
  BY <1>1, <1>3, <1>8, HandledIsGood, ServerTypes DEF serverOnly, IInv, Types, TypeOK
<1>10. ButtonServed'
  BY <1>1, <1>3 DEF ButtonServed
<1> QED
  BY <1>7, <1>9, <1>10 DEF IInv

LEMMA OnCompleteKeeps ==
  ASSUME IInv, OnComplete
  PROVE  IInv'
<1>1. /\ stream' = NoStream /\ timer' = FALSE /\ refreshing' = FALSE
      /\ UNCHANGED <<serverOnly, route, drawn, renderID, awaiting, cached, pending>>
      /\ request' = Taken(stream.slot) /\ shown' \subseteq stream.items
  BY DEF OnComplete, StopStream, Kept
<1>2. stream.slot \in Requests /\ stream.items \subseteq Containers
  BY ArrivingIsServed DEF OnComplete, IInv, Types, StreamSet
<1>3. request' \in [Requests -> GoodRequest] /\ action' \in ActionSet
  BY <1>1, <1>2, TakenIsGood DEF serverOnly, IInv, Types
<1>4. stream'.slot \in Requests \cup {None}
  BY <1>1 DEF NoStream
<1>5. TypeOK'
  BY <1>1, <1>2, <1>4, ServerTypes DEF serverOnly, IInv, Types, TypeOK
<1> QED
  BY <1>1, <1>3, <1>5, StoppingKeeps

\* The source breaks: the fallback has the number of the rendering.
LEMMA OnErrorKeeps ==
  ASSUME IInv, OnError
  PROVE  IInv'
<1> DEFINE slot == SlotIn(Stopped)
           filter == stream.filter
           id == request[stream.slot].render
           q == NewRequest("list", filter, id)
<1>1. /\ stream.slot # None /\ ~stream.fallingBack /\ FreeIn(Stopped) # {}
      /\ request' = [Stopped EXCEPT ![slot] = q]
      /\ stream' = [stream EXCEPT !.fallingBack = TRUE, !.slot = slot]
      /\ UNCHANGED <<runtime, removed, cache, answers, action, route, drawn, renderID, awaiting,
                     shown, cached, pending, refreshing, timer>>
  BY DEF OnError
<1>2. id = renderID /\ id \in 0..MaxRenders /\ filter \in SUBSET Conns
  BY <1>1 DEF IInv, StreamServed, Serves, Types, TypeOK, StreamSet
<1>3. /\ q \in GoodRequest /\ q.kind = "list" /\ q.open /\ q.render = renderID
      /\ q.wire = <<>>
  <2>1. "list" \in {"list", "stream"}
    OBVIOUS
  <2> HIDE DEF filter, id
  <2> QED
    BY <1>2, <2>1, NewIsGood
<1>4. Stopped \in [Requests -> GoodRequest] /\ slot \in Requests
  BY <1>1, StoppedIsGood, SlotIsFree DEF IInv
<1> HIDE DEF slot, q
<1>5. request' \in [Requests -> GoodRequest] /\ request'[slot] = q
  BY <1>1, <1>3, <1>4
<1>6. /\ stream' \in StreamSet /\ stream'.slot = slot /\ stream'.fallingBack = TRUE
      /\ slot # None
  BY <1>1, <1>4, ServiceAssumption DEF IInv, Types, StreamSet
<1>7. q.wire \in Seq(ListAnswers)
  BY <1>3, EmptySeq
<1>8. StreamServed' /\ FallbackServed'
  BY <1>1, <1>3, <1>5, <1>6, <1>7 DEF StreamServed, FallbackServed, FallsBack
<1>9. Types'
  BY <1>1, <1>4, <1>5, <1>6, ServerTypes DEF IInv, Types, TypeOK
<1>10. ButtonServed'
  BY <1>6 DEF ButtonServed
<1> QED
  BY <1>8, <1>9, <1>10 DEF IInv

LEMMA DrawStreamKeeps ==
  ASSUME IInv, DrawStream
  PROVE  IInv'
<1>1. /\ UNCHANGED <<serverOnly, request, route, drawn, renderID, awaiting, cached,
                     pending, refreshing, stream>>
      /\ timer' = FALSE /\ shown' \in {shown, stream.items}
  BY DEF DrawStream
<1>2. StreamServed' /\ FallbackServed'
  BY <1>1, StaysServedAlone
<1>3. Types'
  BY <1>1, ServerTypes DEF serverOnly, IInv, Types, TypeOK, StreamSet
<1>4. ButtonServed'
  BY <1>1 DEF IInv, ButtonServed
<1> QED
  BY <1>2, <1>3, <1>4 DEF IInv

-----------------------------------------------------------------------------
(* The answers of the API, and the actions. *)

LEMMA ListLoadedKeeps ==
  ASSUME IInv, NEW r \in Requests, ListLoaded(r)
  PROVE  IInv'
<1> DEFINE response == Head(request[r].wire)
           filter == request[r].filter
<1>1. /\ request[r].kind = "written" /\ request[r].wire # <<>> /\ response.type = "list"
      /\ TakeList(filter, response) /\ request' = Taken(r)
      /\ UNCHANGED <<serverOnly, route, drawn, renderID, awaiting, timer>>
      /\ IF FallbackIsCurrent(r)
         THEN refreshing' = FALSE /\ pending' = pending \ Targets(filter) /\ stream' = NoStream
         ELSE UNCHANGED <<refreshing, pending, stream>>
  BY DEF ListLoaded
<1>2. /\ response.failed \in SUBSET Conns /\ response.items \in SUBSET Containers
      /\ filter \in SUBSET Conns
  BY <1>1, HeadFields, EventFields, FieldsOfRequest DEF IInv, Types
<1>3. ~Serves(request[r], stream)
  BY <1>1, AnswerServesNobody
<1> HIDE DEF response, filter
<1>4. shown' \subseteq Containers /\ cached' \subseteq Conns
  BY <1>1, <1>2 DEF TakeList, IInv, Types, TypeOK
<1>5. request' \in [Requests -> GoodRequest] /\ action' \in ActionSet
  BY <1>1, TakenIsGood DEF serverOnly, IInv, Types
<1>6. CASE FallbackIsCurrent(r)
  <2>1. stream'.slot \in Requests \cup {None} /\ stream' = NoStream /\ refreshing' = FALSE
        /\ pending' \subseteq Conns
    BY <1>1, <1>6 DEF NoStream, IInv, Types, TypeOK
  <2>2. TypeOK'
    BY <1>1, <1>4, <2>1, ServerTypes DEF serverOnly, IInv, Types, TypeOK
  <2> QED
    BY <1>5, <2>1, <2>2, StoppingKeeps
<1>7. CASE ~FallbackIsCurrent(r)
  <2>1. UNCHANGED <<refreshing, pending, stream, renderID, route>>
    BY <1>1, <1>7
  <2>2. route = "workloads" => ~FallsBack(request[r])
    BY <1>7 DEF FallbackIsCurrent, FallsBack
  <2>3. StreamServed' /\ FallbackServed'
    BY <1>1, <1>3, <1>5, <2>1, <2>2, TakenIsGood, StaysServed
  <2>4. Types'
    BY <1>1, <1>4, <1>5, <2>1, ServerTypes DEF serverOnly, IInv, Types, TypeOK
  <2>5. ButtonServed'
    BY <1>1, <2>1 DEF IInv, ButtonServed
  <2> QED
    BY <2>3, <2>4, <2>5 DEF IInv
<1> QED
  BY <1>6, <1>7

LEMMA ListFailsKeeps ==
  ASSUME IInv, NEW r \in Requests, ListFails(r)
  PROVE  IInv'
<1>1. /\ request[r].kind = "list" /\ request' = Closed(r)
      /\ UNCHANGED <<unbounded, route, drawn, renderID, awaiting, shown, cached,
                     pending, timer>>
      /\ IF request[r].render = renderID
         THEN refreshing' = FALSE /\ stream' = NoStream
         ELSE UNCHANGED <<refreshing, stream>>
  BY DEF ListFails
<1>2. /\ request' \in [Requests -> GoodRequest] /\ action' \in ActionSet
      /\ \A s \in Requests \ {r} : request'[s] = request[s]
  BY <1>1, ClosedIsGood DEF unbounded, IInv, Types
<1>3. CASE request[r].render = renderID
  <2>1. stream'.slot \in Requests \cup {None} /\ stream' = NoStream /\ refreshing' = FALSE
    BY <1>1, <1>3 DEF NoStream
  <2>2. TypeOK'
    BY <1>1, <2>1, ServerTypes DEF unbounded, IInv, Types, TypeOK
  <2> QED
    BY <1>2, <2>1, <2>2, StoppingKeeps
<1>4. CASE request[r].render # renderID
  <2>1. UNCHANGED <<refreshing, stream>>
    BY <1>1, <1>4
  <2>2. ~Serves(request[r], stream) /\ ~FallsBack(request[r])
    BY <1>4 DEF Serves, FallsBack
  <2>3. StreamServed' /\ FallbackServed'
    BY <1>1, <1>2, <2>1, <2>2, StaysServed
  <2>4. Types'
    BY <1>1, <1>2, <2>1, ServerTypes DEF unbounded, IInv, Types, TypeOK
  <2>5. ButtonServed'
    BY <1>1, <2>1 DEF IInv, ButtonServed
  <2> QED
    BY <2>3, <2>4, <2>5 DEF IInv
<1> QED
  BY <1>3, <1>4

\* A call for the topology page takes a slot of its own.
LEMMA AskListIsGood ==
  ASSUME IInv, NEW c \in Conns, MayRefreshTopology, AskList(c),
         UNCHANGED <<stream, renderID, route>>
  PROVE  request' \in [Requests -> GoodRequest] /\ StreamServed' /\ FallbackServed'
<1> DEFINE q == NewRequest("list", {c}, 0)
<1>1. q \in GoodRequest
  <2>1. {c} \in SUBSET Conns /\ 0 \in 0..MaxRenders
    BY PageAssumption
  <2> QED
    BY <2>1, NewIsGood
<1>2. FreeIn(request) # {} /\ request' = [request EXCEPT ![SlotIn(request)] = q]
  BY DEF MayRefreshTopology, AskList
<1> HIDE DEF q
<1> QED
  BY <1>1, <1>2, NewIsApart

LEMMA RefreshTopologyKeeps ==
  ASSUME IInv, NEW c \in Conns, RefreshTopology(c)
  PROVE  IInv'
<1>1. /\ MayRefreshTopology /\ AskList(c)
      /\ UNCHANGED <<runtime, removed, cache, answers, action, pageVars>>
  BY DEF RefreshTopology
<1>2. request' \in [Requests -> GoodRequest] /\ StreamServed' /\ FallbackServed'
  BY <1>1, AskListIsGood DEF pageVars
<1>3. Types'
  BY <1>1, <1>2 DEF pageVars, IInv, Types, TypeOK
<1>4. ButtonServed'
  BY <1>1 DEF pageVars, IInv, ButtonServed
<1> QED
  BY <1>2, <1>3, <1>4 DEF IInv

\* A step of an action that touches no request and no stream.
LEMMA ActionStepKeeps ==
  ASSUME IInv, UNCHANGED <<runtime, removed, cache, answers, request, route, drawn, renderID,
                           awaiting, refreshing, stream, timer>>,
         action' \in ActionSet, shown' \subseteq Containers,
         cached' \subseteq Conns, pending' \subseteq Conns
  PROVE  IInv'
<1>1. StreamServed' /\ FallbackServed'
  BY StaysServedAlone
<1>2. Types'
  BY ServerTypes DEF IInv, Types, TypeOK
<1>3. ButtonServed'
  BY DEF IInv, ButtonServed
<1> QED
  BY <1>1, <1>2, <1>3 DEF IInv

LEMMA BeginActionKeeps ==
  ASSUME IInv, NEW op \in {"delete", "restart"}, NEW items \in SUBSET Containers,
         BeginAction(op, items)
  PROVE  IInv'
<1>1. /\ action' = [NoAction EXCEPT !.step = "asked", !.op = op, !.todo = items]
      /\ UNCHANGED <<runtime, removed, cache, answers, request, pageVars>>
  BY DEF BeginAction
<1>2. action' \in ActionSet
  BY <1>1 DEF NoAction, ActionSet
<1> QED
  BY <1>1, <1>2, ActionStepKeeps DEF pageVars, IInv, Types, TypeOK

LEMMA ActionAnsweredKeeps ==
  ASSUME IInv, ActionAnswered
  PROVE  IInv'
<1>1. action \in ActionSet /\ action.item \in Containers /\ Owner[action.item] \in Conns
  BY ServiceAssumption DEF ActionAnswered, IInv, Types, ActionSet
<1>2. PICK todo \in SUBSET Containers, done \in SUBSET Conns :
        action' = [action EXCEPT !.step = "asked", !.todo = todo, !.done = done]
  <2> DEFINE todo == action.todo \ {action.item}
             done == IF action.step = "succeeded" THEN action.done \cup {Owner[action.item]}
                                                  ELSE action.done
  <2>1. todo \in SUBSET Containers /\ done \in SUBSET Conns
    BY <1>1 DEF ActionSet
  <2>2. action' = [action EXCEPT !.step = "asked", !.todo = todo, !.done = done]
    BY <1>1 DEF ActionAnswered, ActionSet
  <2> HIDE DEF todo, done
  <2> QED
    BY <2>1, <2>2
<1>3. action' \in ActionSet
  BY <1>1, <1>2 DEF ActionSet
<1>4. /\ UNCHANGED <<runtime, removed, cache, answers, request, route, drawn, renderID,
                     awaiting, refreshing, stream, timer, cached, pending>>
      /\ shown' \in {shown, shown \ {action.item}}
  BY DEF ActionAnswered
<1> QED
  BY <1>3, <1>4, ActionStepKeeps DEF IInv, Types, TypeOK

LEMMA EndActionKeeps ==
  ASSUME IInv, EndAction
  PROVE  IInv'
<1> DEFINE changed == action.done
<1>1. /\ action' = NoAction /\ cached' = cached \ changed
      /\ UNCHANGED <<breaks, runtime, removed, cache, answers, events, route, drawn,
                     awaiting, shown>>
  BY DEF EndAction
<1>2. action' \in ActionSet /\ changed \in SUBSET Conns /\ cached' \subseteq Conns
      /\ (pending \cup changed) \subseteq Conns
  BY <1>1, NoActionIsTyped DEF IInv, Types, TypeOK, ActionSet
<1>3. CASE Refresh(changed)
  BY <1>1, <1>2, <1>3, RefreshKeeps
<1>4. ASSUME NEW c \in changed, MayRefreshTopology, AskList(c),
             pending' = pending \cup changed,
             UNCHANGED <<renderID, refreshing, stream, timer>>
      PROVE  IInv'
  <2>1. request' \in [Requests -> GoodRequest] /\ StreamServed' /\ FallbackServed'
    BY <1>1, <1>2, <1>4, AskListIsGood
  <2>2. Types'
    BY <1>1, <1>2, <1>4, <2>1, ServerTypes DEF IInv, Types, TypeOK
  <2>3. ButtonServed'
    BY <1>1, <1>4 DEF IInv, ButtonServed
  <2> QED
    BY <2>1, <2>2, <2>3 DEF IInv
<1>5. CASE /\ pending' = pending \cup changed
           /\ UNCHANGED <<renderID, refreshing, stream, timer, request>>
  BY <1>1, <1>2, <1>5, ActionStepKeeps DEF IInv, Types, TypeOK
<1> QED
  BY <1>3, <1>4, <1>5 DEF EndAction

LEMMA PageKeeps ==
  ASSUME IInv, PageNext
  PROVE  IInv'
BY OpenWorkloadsKeeps, LeaveKeeps, LoginKeeps, UnauthorizedKeeps, ConnectionsLoadedKeeps,
   ConnectionsFailKeeps, CachedLoadedKeeps, CachedFailsKeeps, ListLoadedKeeps,
   ListFailsKeeps, RefreshWorkloadsKeeps, OnWorkloadKeeps, OnConnectionCompleteKeeps,
   OnCompleteKeeps, OnErrorKeeps, DrawStreamKeeps, RefreshTopologyKeeps,
   BeginActionKeeps, ActionAnsweredKeeps, EndActionKeeps DEF PageNext

-----------------------------------------------------------------------------
(* The invariant, and what follows from it. *)

LEMMA InitIsGood ==
  ASSUME Init PROVE IInv
<1>1. NoStream \in StreamSet /\ NoStream.slot = None
  BY DEF NoStream, StreamSet
<1>2. request \in [Requests -> GoodRequest] /\ action \in ActionSet /\ stream \in StreamSet
  BY <1>1, FreeIsGood, NoActionIsTyped DEF Init, ServiceInit
<1>3. TypeOK
  <2>1. cache \in [Conns -> {None} \cup SUBSET Containers]
    BY DEF Init, ServiceInit
  <2>2. renderID \in 0..MaxRenders /\ awaiting \subseteq 1..renderID
    BY PageAssumption DEF Init
  <2> QED
    BY <1>1, <2>1, <2>2 DEF Init, ServiceInit, TypeOK
<1> QED
  BY <1>1, <1>2, <1>3 DEF Init, IInv, Types, StreamServed, FallbackServed, ButtonServed

LEMMA StutterKeeps ==
  ASSUME IInv, UNCHANGED vars PROVE IInv'
BY DEF vars, serviceVars, pageVars, IInv, Types, TypeOK, StreamServed, FallbackServed,
       ButtonServed, Serves, FallsBack

LEMMA NextKeeps ==
  ASSUME IInv, [Next]_vars PROVE IInv'
BY ServiceKeeps, PageKeeps, StutterKeeps DEF Next

THEOREM Invariance == Spec => []IInv
BY InitIsGood, NextKeeps, PTL DEF Spec

\* Every variable of the server and of the page keeps to its type, whatever is
\* answered, fails, breaks or is refused, and in whatever order.
THEOREM TypeCorrect == Spec => []TypeOK
<1>1. IInv => TypeOK
  BY DEF IInv, Types
<1> QED
  BY <1>1, Invariance, PTL

\* The refresh button is never disabled with nothing behind it: the stream it
\* waits for, or the fallback, is still open.
THEOREM ButtonComesBack == Spec => []RefreshingHasStream
<1>1. ASSUME IInv PROVE RefreshingHasStream
  <2> SUFFICES ASSUME route = "workloads", drawn = "workloads", refreshing
               PROVE  stream.slot # None /\ request[stream.slot].open
    BY DEF RefreshingHasStream
  <2>1. stream.slot # None
    BY <1>1 DEF IInv, ButtonServed
  <2>2. CASE stream.fallingBack
    BY <1>1, <2>1, <2>2 DEF IInv, FallbackServed, FallsBack
  <2>3. CASE ~stream.fallingBack
    BY <1>1, <2>1, <2>3 DEF IInv, StreamServed, Serves
  <2> QED
    BY <2>1, <2>2, <2>3
<1> QED
  BY <1>1, Invariance, PTL

-----------------------------------------------------------------------------
(* What the cache holds. *)

\* Of connection c a refresh has nothing while it waits, and one answer as a
\* whole once it has been answered.
AnswerKept(q, c) ==
  /\ q.job[c] = "asked" => q.found \cap Of(c) = {}
  /\ q.job[c] = "answered" => q.found \cap Of(c) \in answers[c]

AnswersKept == \A r \in Requests : \A c \in Conns : AnswerKept(request[r], c)

CacheInv == CacheHoldsAnswers /\ AnswersKept

\* As far as its answers go, request q is p, or has been sent just now.
Inherits(q, p) ==
  \A c \in Conns : q.job[c] \in {"asked", "answered"} =>
    \/ q.job[c] = p.job[c] /\ q.found = p.found
    \/ q.job[c] = "asked" /\ q.found = {}

\* And so are all the requests there are.
Follow(requests) ==
  DOMAIN requests = Requests /\ \A r \in Requests : Inherits(requests[r], request[r])

\* What is new inherits from anything.
LEMMA NewInherits ==
  ASSUME NEW p
  PROVE  /\ Inherits(Free, p)
         /\ \A kind, filter, id : Inherits(NewRequest(kind, filter, id), p)
         /\ \A filter, id : Inherits(NewCachedRead(filter, id), p)
BY DEF Inherits, Free, NewRequest, NewCachedRead

LEMMA SameFollow ==
  ASSUME Types PROVE Follow(request)
BY DEF Follow, Inherits, Types

\* One request that is replaced.
LEMMA ExceptFollows ==
  ASSUME NEW requests, Follow(requests), NEW r, NEW q,
         r \in Requests => Inherits(q, request[r])
  PROVE  Follow([requests EXCEPT ![r] = q])
<1> DEFINE next == [requests EXCEPT ![r] = q]
<1>1. DOMAIN next = Requests
  BY DEF Follow
<1>2. ASSUME NEW s \in Requests PROVE next[s] = IF s = r THEN q ELSE requests[s]
  BY DEF Follow
<1> HIDE DEF next
<1>3. ASSUME NEW s \in Requests PROVE Inherits(next[s], request[s])
  <2>1. CASE s = r
    BY <1>2, <2>1
  <2>2. CASE s # r
    BY <1>2, <2>2 DEF Follow
  <2> QED
    BY <2>1, <2>2
<1> QED
  BY <1>1, <1>3 DEF Follow, next

\* A request whose answers are the same.
LEMMA SameInherits ==
  ASSUME NEW p, NEW q, q.job = p.job, q.found = p.found
  PROVE  Inherits(q, p)
BY DEF Inherits

\* A request the browser closes keeps its answers or loses them.
LEMMA ClosedFollows ==
  ASSUME Types, NEW r \in Requests PROVE Follow(Closed(r))
<1> DEFINE q == request[r]
           none == <<>>
           empty == {}
           job == [c \in Conns |-> IF q.job[c] \in {"idle", "answered"} THEN q.job[c] ELSE "erred"]
           kept == [q EXCEPT !.open = FALSE, !.wire = none, !.unsent = empty, !.job = job]
<1>1. Closed(r) = [request EXCEPT ![r] =
        IF q.kind # "written" /\ \E c \in Conns : q.job[c] = "answered" THEN kept ELSE Free]
  BY DEF Closed, Types
<1>2. q \in GoodRequest
  BY DEF Types
<1>3. \A c \in Conns : job[c] \in {"asked", "answered"} => job[c] = q.job[c]
  OBVIOUS
<1> HIDE DEF q, none, empty, job
<1>4. kept.job = job /\ kept.found = q.found
  BY <1>2 DEF GoodRequest, RequestSet
<1> HIDE DEF kept
<1>5. Inherits(kept, q)
  BY <1>3, <1>4 DEF Inherits
<1> DEFINE left == IF q.kind # "written" /\ \E c \in Conns : q.job[c] = "answered"
                   THEN kept ELSE Free
<1>6. Inherits(left, q)
  BY <1>5, NewInherits
<1>7. Closed(r) = [request EXCEPT ![r] = left]
  BY <1>1
<1> HIDE DEF left
<1>8. Follow([request EXCEPT ![r] = left])
  BY <1>6, SameFollow, ExceptFollows DEF q
<1> QED
  BY <1>7, <1>8

LEMMA StoppedFollows ==
  ASSUME Types PROVE Follow(Stopped)
BY ClosedFollows, SameFollow DEF Stopped, Types, StreamSet

\* An answer that is taken, and an event.
LEMMA TakenFollows ==
  ASSUME Types, NEW r PROVE Follow(Taken(r))
BY SameFollow, NewInherits, ExceptFollows DEF Taken

LEMMA HandledFollows ==
  ASSUME Types, Handled PROVE Follow(request')
<1> DEFINE r == stream.slot
           q == [request[r] EXCEPT !.wire = Tail(@)]
<1>1. request' = [request EXCEPT ![r] = q]
  BY DEF Handled
<1>2. ASSUME r \in Requests PROVE Inherits(q, request[r])
  <2>1. request[r] \in RequestSet
    BY <1>2 DEF Types, GoodRequest
  <2>2. q.job = request[r].job /\ q.found = request[r].found
    BY <2>1 DEF RequestSet
  <2> HIDE DEF q
  <2> QED
    BY <2>2, SameInherits
<1> HIDE DEF r, q
<1> QED
  BY <1>1, <1>2, SameFollow, ExceptFollows DEF r

\* A new request beside what is left of the others.
LEMMA StreamFollows ==
  ASSUME NEW requests, Follow(requests), NEW kind, NEW filter, NEW id
  PROVE  Follow([requests EXCEPT ![SlotIn(requests)] = NewRequest(kind, filter, id)])
BY NewInherits, ExceptFollows

LEMMA StartFollows ==
  ASSUME Types, NEW filter, NEW id, StartStream(filter, id) PROVE Follow(request')
BY StoppedFollows, StreamFollows DEF StartStream

LEMMA FinishFollows ==
  ASSUME NEW id, NEW nowCached, NEW released, Follow(released),
         FinishRender(id, nowCached, released)
  PROVE  Follow(request')
BY StreamFollows DEF FinishRender

\* No step of the page touches the cache, and none brings an answer.
LEMMA PageFollows ==
  ASSUME Types, PageNext
  PROVE  UNCHANGED <<cache, answers>> /\ Follow(request')
<1>1. UNCHANGED <<cache, answers>>
  BY DEF PageNext, OpenWorkloads, Leave, Login, BeginRender, Unauthorized, SignOut,
         ConnectionsLoaded, ConnectionsFail, CachedLoaded, CachedFails, RenderFails,
         ListLoaded, ListFails, RefreshWorkloads, OnWorkload, OnConnectionComplete,
         OnComplete, OnError, DrawStream, RefreshTopology, BeginAction, ActionAnswered,
         EndAction, serverOnly, unbounded
<1> SUFFICES Follow(request')
  BY <1>1
<1>2. CASE OpenWorkloads \/ Leave \/ Login
  BY <1>2, StoppedFollows DEF OpenWorkloads, Leave, Login, BeginRender
<1>3. CASE Unauthorized
  <2>1. request' = Stopped \/ \E r \in Requests : request' = [Stopped EXCEPT ![r] = Free]
    BY <1>3 DEF Unauthorized, SignOut
  <2> QED
    BY <2>1, StoppedFollows, NewInherits, ExceptFollows
<1>4. ASSUME NEW id \in awaiting, ConnectionsLoaded(id) PROVE Follow(request')
  <2>1. CASE FinishRender(id, cached, request)
    BY <2>1, SameFollow, FinishFollows
  <2>2. CASE request' = [request EXCEPT ![SlotIn(request)] = NewCachedRead(Conns \ cached, id)]
    BY <2>2, SameFollow, NewInherits, ExceptFollows
  <2> QED
    BY <1>4, <2>1, <2>2 DEF ConnectionsLoaded
<1>5. ASSUME NEW id \in awaiting, ConnectionsFail(id) PROVE Follow(request')
  BY <1>5, SameFollow DEF ConnectionsFail, RenderFails
<1>6. ASSUME NEW r \in Requests, CachedLoaded(r) PROVE Follow(request')
  BY <1>6, TakenFollows, FinishFollows DEF CachedLoaded
<1>7. ASSUME NEW r \in Requests, CachedFails(r) \/ ListLoaded(r) PROVE Follow(request')
  BY <1>7, TakenFollows DEF CachedFails, RenderFails, ListLoaded
<1>8. ASSUME NEW r \in Requests, ListFails(r) PROVE Follow(request')
  BY <1>8, ClosedFollows DEF ListFails
<1>9. ASSUME NEW filter \in SUBSET Conns, RefreshWorkloads(filter) PROVE Follow(request')
  BY <1>9, StartFollows DEF RefreshWorkloads, Refresh
<1>10. CASE OnWorkload \/ OnConnectionComplete
  BY <1>10, HandledFollows DEF OnWorkload, OnConnectionComplete
<1>11. CASE OnComplete
  BY <1>11, TakenFollows DEF OnComplete
<1>12. CASE OnError
  BY <1>12, StoppedFollows, StreamFollows DEF OnError
<1>13. ASSUME NEW c \in Conns, RefreshTopology(c) PROVE Follow(request')
  BY <1>13, SameFollow, StreamFollows DEF RefreshTopology, AskList
<1>14. CASE DrawStream \/ ActionAnswered
  BY <1>14, SameFollow DEF DrawStream, ActionAnswered
<1>15. ASSUME NEW op, NEW items, BeginAction(op, items) PROVE Follow(request')
  BY <1>15, SameFollow DEF BeginAction
<1>16. CASE EndAction
  <2>1. CASE Refresh(action.done)
    BY <2>1, StartFollows DEF Refresh
  <2>2. ASSUME NEW c, AskList(c) PROVE Follow(request')
    BY <2>2, SameFollow, StreamFollows DEF AskList
  <2>3. CASE request' = request
    BY <2>3, SameFollow
  <2> QED
    BY <1>16, <2>1, <2>2, <2>3 DEF EndAction
<1> QED
  BY <1>2, <1>3, <1>4, <1>5, <1>6, <1>7, <1>8, <1>9, <1>10, <1>11, <1>12, <1>13, <1>14,
     <1>15, <1>16 DEF PageNext

\* Nor do the steps of the server that write what is there already.
LEMMA WritingFollows ==
  ASSUME Types, NEW r \in Requests,
         \/ \E k \in Containers : WriteItem(r, k)
         \/ WriteComplete(r) \/ Abandon(r) \/ AnswerList(r)
         \/ \E c \in Conns : WriteCompletion(r, c)
  PROVE  Follow(request')
<1> DEFINE p == request[r]
<1>1. p \in GoodRequest /\ p.job \in [Conns -> Jobs]
  BY FieldsOfRequest DEF Types
<1>2. Inherits(Free, p)
  BY NewInherits
<1>3. ASSUME NEW k \in Containers, WriteItem(r, k) PROVE Follow(request')
  <2> DEFINE q == [p EXCEPT !.unsent = p.unsent \ {k},
                            !.wire = Written(r, [type |-> "workload", item |-> k])]
  <2>1. request' = [request EXCEPT ![r] = q]
    BY <1>1, <1>3 DEF WriteItem, Types
  <2>2. q.job = p.job /\ q.found = p.found
    BY <1>1 DEF GoodRequest, RequestSet
  <2> HIDE DEF q
  <2>3. Inherits(q, p)
    BY <2>2, SameInherits
  <2> QED
    BY <2>1, <2>3, SameFollow, ExceptFollows
<1>4. CASE WriteComplete(r) \/ Abandon(r) \/ AnswerList(r)
  <2>1. PICK wire : request' \in {[request EXCEPT ![r] = [p EXCEPT !.kind = "written", !.wire = wire]],
                                  [request EXCEPT ![r] = Free]}
    BY <1>4 DEF WriteComplete, Abandon, AnswerList
  <2> DEFINE q == [p EXCEPT !.kind = "written", !.wire = wire]
  <2>2. q.job = p.job /\ q.found = p.found
    BY <1>1 DEF GoodRequest, RequestSet
  <2>3. request' = [request EXCEPT ![r] = q] \/ request' = [request EXCEPT ![r] = Free]
    BY <2>1
  <2> HIDE DEF q
  <2>4. Inherits(q, p)
    BY <2>2, SameInherits
  <2> QED
    BY <1>2, <2>3, <2>4, SameFollow, ExceptFollows
<1>5. ASSUME NEW c \in Conns, WriteCompletion(r, c) PROVE Follow(request')
  <2> DEFINE ended == IF p.job[c] = "answered" THEN "done" ELSE "erred"
             job == [p.job EXCEPT ![c] = ended]
             wire == Written(r, [type |-> "connection-complete", conn |-> c,
                                 ok |-> p.job[c] = "answered"])
             q == [p EXCEPT !.job = job, !.wire = wire]
  <2>1. request' = [request EXCEPT ![r] = q]
    <3>1. p \in RequestSet
      BY <1>1, FieldsOfRequest
    <3>2. request' = [request EXCEPT ![r].job[c] = ended, ![r].wire = wire]
      BY <1>5 DEF WriteCompletion
    <3>3. request' = [request EXCEPT ![r] = [p EXCEPT !.job[c] = ended, !.wire = wire]]
      BY <3>1, <3>2 DEF Types
    <3>4. [p EXCEPT !.job[c] = ended, !.wire = wire] = q
      OBVIOUS
    <3> HIDE DEF q
    <3> QED
      BY <3>3, <3>4
  <2>2. \A d \in Conns : job[d] \in {"asked", "answered"} => job[d] = p.job[d]
    BY <1>1
  <2>3. q.job = job /\ q.found = p.found
    BY <1>1 DEF GoodRequest, RequestSet
  <2> HIDE DEF q, job
  <2>4. Inherits(q, p)
    BY <2>2, <2>3 DEF Inherits
  <2> QED
    BY <2>1, <2>4, SameFollow, ExceptFollows
<1> QED
  BY <1>3, <1>4, <1>5

\* Requests that follow keep their answers.
LEMMA FollowingKeeps ==
  ASSUME AnswersKept, Follow(request'), UNCHANGED answers
  PROVE  AnswersKept'
BY DEF AnswersKept, AnswerKept, Follow, Inherits

\* The goroutine of a connection finds nothing of another one.
LEMMA ReadKeepsAnswers ==
  ASSUME IInv, CacheInv, NEW r \in Requests, NEW c \in Conns, Read(r, c)
  PROVE  CacheInv'
<1> DEFINE p == request[r]
<1>1. PICK items \in SUBSET (runtime \cap Of(c)), ok \in BOOLEAN :
        /\ request' = [request EXCEPT
             ![r].job[c] = IF ok THEN "answered" ELSE "failed",
             ![r].found = @ \cup items,
             ![r].unsent = IF request[r].kind = "stream" THEN @ \cup items ELSE @]
        /\ answers' = [answers EXCEPT ![c] = IF ok THEN @ \cup {items} ELSE @]
  BY DEF Read
<1> DEFINE job == [p.job EXCEPT ![c] = IF ok THEN "answered" ELSE "failed"]
           found == p.found \cup items
           unsent == IF p.kind = "stream" THEN p.unsent \cup items ELSE p.unsent
           q == [p EXCEPT !.job = job, !.found = found, !.unsent = unsent]
<1>2. p \in RequestSet /\ p.job \in [Conns -> Jobs] /\ p.job[c] = "asked"
  BY FieldsOfRequest DEF IInv, Types, Read
<1>3. request' = [request EXCEPT ![r] = q]
  BY <1>1, <1>2 DEF IInv, Types, RequestSet
<1>4. q.job = job /\ q.found = found
  BY <1>2 DEF RequestSet
<1>5. request'[r] = q /\ \A s \in Requests \ {r} : request'[s] = request[s]
  BY <1>3 DEF IInv, Types
<1>6. /\ \A d \in Conns \ {c} : answers'[d] = answers[d]
      /\ answers[c] \subseteq answers'[c]
      /\ ok => items \in answers'[c]
  BY <1>1 DEF IInv, Types, TypeOK
<1>7. AnswersKept'
  <2>1. ASSUME NEW s \in Requests \ {r}, NEW d \in Conns PROVE AnswerKept(request[s], d)'
    <3>1. request'[s] = request[s] /\ answers[d] \subseteq answers'[d]
      BY <1>5, <1>6
    <3>2. AnswerKept(request[s], d)
      BY DEF CacheInv, AnswersKept
    <3> QED
      BY <3>1, <3>2 DEF AnswerKept
  <2>2. ASSUME NEW d \in Conns \ {c}
        PROVE  /\ q.job[d] = "asked" => q.found \cap Of(d) = {}
               /\ q.job[d] = "answered" => q.found \cap Of(d) \in answers'[d]
    <3>1. job[d] = p.job[d]
      BY <1>2
    <3>2. found \cap Of(d) = p.found \cap Of(d)
      BY DEF Of
    <3>3. AnswerKept(p, d)
      BY DEF CacheInv, AnswersKept
    <3> HIDE DEF p, job, found, q
    <3> QED
      BY <1>4, <1>6, <3>1, <3>2, <3>3 DEF AnswerKept
  <2>3. /\ q.job[c] # "asked"
        /\ q.job[c] = "answered" => q.found \cap Of(c) \in answers'[c]
    <3>1. AnswerKept(p, c)
      BY DEF CacheInv, AnswersKept
    <3>2. found \cap Of(c) = items
      BY <1>2, <3>1 DEF AnswerKept
    <3>3. job[c] = IF ok THEN "answered" ELSE "failed"
      BY <1>2
    <3> HIDE DEF p, job, found, q
    <3> QED
      BY <1>4, <1>6, <3>2, <3>3
  <2> HIDE DEF q
  <2> QED
    BY <1>5, <2>1, <2>2, <2>3 DEF AnswersKept, AnswerKept
<1>8. CacheHoldsAnswers'
  <2>1. UNCHANGED cache
    BY DEF Read
  <2> QED
    BY <1>6, <2>1 DEF CacheInv, CacheHoldsAnswers
<1> QED
  BY <1>7, <1>8 DEF CacheInv

\* An entry that is deleted: the answers that are still to be written remain.
LEMMA DroppedKeepsAnswers ==
  ASSUME IInv, CacheInv, NEW c \in Conns, Dropped(c), UNCHANGED request
  PROVE  CacheInv'
<1>1. /\ cache' = [cache EXCEPT ![c] = None]
      /\ answers' = [answers EXCEPT ![c] = Unwritten(c)]
      /\ cache \in [Conns -> {None} \cup SUBSET Containers]
      /\ answers \in [Conns -> SUBSET SUBSET Containers]
  BY DEF Dropped, IInv, Types, TypeOK
<1>2. CacheHoldsAnswers'
  BY <1>1 DEF CacheInv, CacheHoldsAnswers
<1>3. ASSUME NEW r \in Requests, request[r].job[c] = "answered"
      PROVE  request[r].found \cap Of(c) \in Unwritten(c)
  BY <1>3 DEF Unwritten
<1>4. AnswersKept'
  BY <1>1, <1>3 DEF CacheInv, AnswersKept, AnswerKept
<1> QED
  BY <1>2, <1>4 DEF CacheInv

\* The server keeps it.
LEMMA ServiceKeepsAnswers ==
  ASSUME IInv, CacheInv, ServiceNext
  PROVE  CacheInv'
<1> USE DEF CacheInv
<1>1. Types /\ cache \in [Conns -> {None} \cup SUBSET Containers]
  BY DEF IInv, Types, TypeOK
<1>2. ASSUME NEW k \in Containers, Appear(k) \/ RuntimeActs(k) PROVE CacheInv'
  BY <1>2 DEF Appear, RuntimeActs, CacheHoldsAnswers, AnswersKept, AnswerKept
<1>3. ASSUME NEW r \in Requests, NEW k \in Containers, WriteItem(r, k) PROVE CacheInv'
  BY <1>1, <1>3, WritingFollows, FollowingKeeps DEF WriteItem, CacheHoldsAnswers
<1>4. ASSUME NEW r \in Requests, WriteComplete(r) \/ Abandon(r) PROVE CacheInv'
  BY <1>1, <1>4, WritingFollows, FollowingKeeps
     DEF WriteComplete, Abandon, CacheHoldsAnswers
<1>5. ASSUME NEW r \in Requests, NEW c \in Conns, WriteCompletion(r, c) PROVE CacheInv'
  <2>1. AnswersKept'
    BY <1>1, <1>5, WritingFollows, FollowingKeeps DEF WriteCompletion
  <2>2. request[r].job[c] = "answered" => request[r].found \cap Of(c) \in answers[c]
    BY DEF AnswersKept, AnswerKept
  <2>3. CacheHoldsAnswers'
    BY <1>1, <1>5, <2>2 DEF WriteCompletion, CacheHoldsAnswers
  <2> QED
    BY <2>1, <2>3
<1>6. ASSUME NEW r \in Requests, AnswerList(r) PROVE CacheInv'
  <2>1. AnswersKept'
    BY <1>1, <1>6, WritingFollows, FollowingKeeps DEF AnswerList
  <2>2. \A c \in Conns : request[r].job[c] = "answered" =>
          request[r].found \cap Of(c) \in answers[c]
    BY DEF AnswersKept, AnswerKept
  <2>3. CacheHoldsAnswers'
    BY <1>1, <1>6, <2>2 DEF AnswerList, CacheHoldsAnswers
  <2> QED
    BY <2>1, <2>3
<1>7. CASE Invalidate
  <2>1. Owner[action.item] \in Conns
    BY <1>7, ServiceAssumption DEF Invalidate, IInv, Types, ActionSet
  <2> QED
    BY <1>7, <2>1, DroppedKeepsAnswers DEF Invalidate
<1>8. ASSUME NEW c \in Conns, Reconfigure(c) PROVE CacheInv'
  BY <1>8, DroppedKeepsAnswers DEF Reconfigure
<1> QED
  BY <1>2, <1>3, <1>4, <1>5, <1>6, <1>7, <1>8, ReadKeepsAnswers DEF ServiceNext

\* So do the page, and a step of neither.
LEMMA NextKeepsAnswers ==
  ASSUME IInv, CacheInv, [Next]_vars
  PROVE  CacheInv'
<1>1. CASE PageNext
  BY <1>1, PageFollows, FollowingKeeps DEF IInv, CacheInv, CacheHoldsAnswers
<1>2. CASE UNCHANGED vars
  BY <1>2 DEF vars, serviceVars, CacheInv, CacheHoldsAnswers, AnswersKept, AnswerKept
<1> QED
  BY <1>1, <1>2, ServiceKeepsAnswers DEF Next

\* What the cache serves for a connection is one answer of that connection as a
\* whole, whatever failed, was closed or overlapped; and after a runtime action
\* or a PATCH it is none that was stored before.
THEOREM CacheIsOneAnswer == Spec => []CacheHoldsAnswers
<1>1. Init => CacheInv
  BY DEF Init, ServiceInit, Free, CacheInv, CacheHoldsAnswers, AnswersKept, AnswerKept
<1>2. IInv /\ CacheInv /\ [Next]_vars => CacheInv'
  BY NextKeepsAnswers
<1>3. CacheInv => CacheHoldsAnswers
  BY DEF CacheInv
<1> QED
  BY <1>1, <1>2, <1>3, Invariance, PTL DEF Spec

-----------------------------------------------------------------------------
\* When a refresh completes the page shows, of every target that answered, what
\* that target answered: the events that carried it have all been handled.
THEOREM CompleteIsTrue == Spec => CompleteShowsAnswers
<1> DEFINE Shows == OnComplete =>
       \A c \in Targets(stream.filter) \ Event.failed :
         shown' \cap Of(c) = request[stream.slot].found \cap Of(c)
<1>1. ASSUME IInv PROVE Shows
  <2> SUFFICES ASSUME OnComplete, NEW c \in Targets(stream.filter) \ Event.failed
               PROVE  shown' \cap Of(c) = request[stream.slot].found \cap Of(c)
    OBVIOUS
  <2> DEFINE q == request[stream.slot]
  <2>1. /\ Serves(q, stream) /\ q.wire # <<>> /\ Event.type = "complete"
    BY <1>1, ArrivingIsServed DEF OnComplete
  <2>2. q.wire \in Seq(StreamEvents)
    BY <2>1 DEF Serves
  <2>3. Len(q.wire) \in Nat \ {0} /\ DOMAIN q.wire = 1..Len(q.wire) /\ Event = q.wire[1]
    <3> HIDE DEF StreamEvents, q
    <3> QED
      BY <2>1, <2>2, HeadTailProperties, EmptySeq, LenProperties DEF Event, q
  <2>4. q.unsent = {} /\ Len(q.wire) = 1
    <3>1. 1 \in DOMAIN q.wire /\ q.wire[1].type = "complete"
      BY <2>1, <2>3
    <3> HIDE DEF q, Event
    <3> QED
      BY <2>1, <3>1 DEF Serves
  <2>5. Carried(q.wire) = {}
    BY <2>1, <2>3, <2>4 DEF Carried
  <2>6. q.found = stream.seen /\ stream.seen \subseteq stream.items
    BY <2>1, <2>4, <2>5 DEF Serves
  <2>7. shown' = Kept(Event.failed)
    BY DEF OnComplete
  <2> HIDE DEF q, Event
  <2> QED
    BY <2>6, <2>7 DEF Kept, Of, q
<1>2. IInv => [Shows]_vars
  BY <1>1
<1> QED
  BY <1>2, Invariance, PTL DEF CompleteShowsAnswers
=============================================================================
