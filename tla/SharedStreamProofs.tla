------------------------- MODULE SharedStreamProofs -------------------------
(***************************************************************************)
(* Theorems about SharedStream, for every set of viewers, keys and streams *)
(* and every value of the bounds.                                          *)
(*                                                                         *)
(* IInv is the inductive invariant.  Beside the properties themselves it   *)
(* needs three facts about objects in and out of use: an open stream has   *)
(* a key, a viewer that has subscribed asked for a key, and one that has   *)
(* not has no stream and an open channel.                                  *)
(*                                                                         *)
(* FeedInv, inductive given IInv, is about the order of what a viewer      *)
(* gets: between the head of a broadcast and the send to a viewer, the     *)
(* newest record of the stream is not yet in the reckoning for that viewer.*)
(* The refinement of LiveFeed needs it to know what was shown last.        *)
(*                                                                         *)
(* CountInv, inductive given both, is about what is missing from a feed:   *)
(* beside the account of every registered viewer it needs that neither the *)
(* ring nor a broadcast holds a notice (a replayed or broadcast notice     *)
(* would count records twice), and that a viewer has nothing dropped       *)
(* before it has joined.                                                   *)
(*                                                                         *)
(* SubIDInv, inductive given IInv, says that a stream gives no number      *)
(* twice: whom a late unsubscribe can hit.  DepartInv, inductive given     *)
(* both, says that who is taken out of a stream is told, and that who has  *)
(* left is in none: what the liveness properties of the manager rest on.   *)
(***************************************************************************)
EXTENDS SharedStream, TLAPS, SequenceTheorems, LeastElement

\* An open stream has the key it was made for.
OpenHasKey == \A s \in Streams : phase[s] = "open" => keyOf[s] \in Keys

\* A viewer that has not subscribed has no stream, and no closed channel.
IdleIsFresh ==
  \A v \in Viewers : status[v] = "idle" => source[v] = None /\ ~closed[v]

\* A viewer that has subscribed asked for a key.
JoinedHasKey ==
  \A v \in Viewers : status[v] \in {"watching", "ended", "leaving"} => wanted[v] \in Keys

\* The first half of NoSendAfterClose: whoever is registered can be sent to.
RegisteredCanReceive ==
  \A s \in Streams : \A v \in subscribers[s] :
    phase[s] = "open" /\ source[v] = s /\ ~closed[v]

\* Its second half: a broadcast works on registered subscribers only.
BroadcastServesRegistered ==
  Locked => sending.left # {} /\ sending.left \subseteq subscribers[sending.stream]

IInv ==
  /\ TypeOK
  /\ RingIsRecent
  /\ OpenHasKey
  /\ IdleIsFresh
  /\ JoinedHasKey
  /\ SharedUpstream
  /\ RegisteredCanReceive
  /\ BroadcastServesRegistered
  /\ QueueFits
  /\ IdleStreamIsTimed

-----------------------------------------------------------------------------
(* Lemmas about the operators *)

\* The ring stays a sequence of entries; it grows until it is full, and then
\* drops its oldest entry for each new one.
LEMMA RingAppendShifts ==
  ASSUME NEW r \in Seq(Entry), Len(r) <= RingSize, NEW e \in Entry
  PROVE  /\ RingAppend(r, e) \in Seq(Entry)
         /\ Len(r) < RingSize =>
              /\ Len(RingAppend(r, e)) = Len(r) + 1
              /\ \A i \in 1 .. Len(r) : RingAppend(r, e)[i] = r[i]
              /\ RingAppend(r, e)[Len(r) + 1] = e
         /\ Len(r) = RingSize =>
              /\ Len(RingAppend(r, e)) = RingSize
              /\ \A i \in 1 .. RingSize - 1 : RingAppend(r, e)[i] = r[i + 1]
              /\ RingAppend(r, e)[RingSize] = e
<1> DEFINE longer == Append(r, e)
<1>1. /\ longer \in Seq(Entry) /\ Len(longer) = Len(r) + 1
      /\ \A i \in 1 .. Len(r) : longer[i] = r[i]
      /\ longer[Len(r) + 1] = e
  BY AppendProperties
<1>2. CASE Len(r) < RingSize
  BY <1>1, <1>2, ConstantsAssumption DEF RingAppend
<1>3. CASE Len(r) = RingSize
  <2>1. RingSize \in Nat /\ RingSize >= 1
    BY ConstantsAssumption
  <2>2. RingAppend(r, e) = SubSeq(longer, 2, RingSize + 1)
    BY <1>3, <2>1 DEF RingAppend
  <2>3. \A i \in 2 .. RingSize + 1 : longer[i] \in Entry
    BY <1>1, <1>3, <2>1
  <2> HIDE DEF longer
  <2>4. /\ SubSeq(longer, 2, RingSize + 1) \in Seq(Entry)
        /\ Len(SubSeq(longer, 2, RingSize + 1)) = RingSize
        /\ \A i \in 1 .. RingSize :
             SubSeq(longer, 2, RingSize + 1)[i] = longer[i + 1]
    <3>1. 2 \in Int /\ RingSize + 1 \in Int /\ 2 <= RingSize + 1
      BY <2>1
    <3>2. (RingSize + 1) - 2 + 1 = RingSize
      BY <2>1
    <3>3. \A i \in 1 .. RingSize : 2 + i - 1 = i + 1
      BY <2>1
    <3> QED
      BY <2>3, <3>1, <3>2, <3>3, SubSeqProperties
  <2> QED
    BY <1>1, <1>3, <2>1, <2>2, <2>4
<1> QED
  BY <1>2, <1>3, ConstantsAssumption

\* The channel made by Subscribe holds its replay.
LEMMA CapacityHoldsReplay ==
  ASSUME NEW n \in Nat
  PROVE  Capacity(n) \in Nat /\ n <= Capacity(n)
BY ConstantsAssumption DEF Capacity

-----------------------------------------------------------------------------
LEMMA InitIInv == Init => IInv
<1> SUFFICES ASSUME Init PROVE IInv
  OBVIOUS
<1>1. TypeOK
  BY DEF Init, TypeOK
<1>2. RingIsRecent
  BY ConstantsAssumption DEF Init, RingIsRecent
<1>3. OpenHasKey /\ IdleIsFresh /\ JoinedHasKey /\ IdleStreamIsTimed /\ RegisteredCanReceive
  BY DEF Init, OpenHasKey, IdleIsFresh, JoinedHasKey, IdleStreamIsTimed, RegisteredCanReceive
<1>4. SharedUpstream
  BY ConstantsAssumption DEF Init, SharedUpstream
<1>5. BroadcastServesRegistered
  BY DEF Init, BroadcastServesRegistered, Locked
<1>6. QueueFits
  <2>1. \A v \in Viewers : queue[v] = <<>> /\ capacity[v] = 0
    BY DEF Init
  <2>2. Len(<<>>) <= 0
    OBVIOUS
  <2> QED
    BY <2>1, <2>2 DEF QueueFits
<1> QED
  BY <1>1, <1>2, <1>3, <1>4, <1>5, <1>6 DEF IInv

-----------------------------------------------------------------------------
(* Types *)

LEMMA SubscribeType ==
  ASSUME TypeOK, RingIsRecent, NEW v \in Viewers, NEW k \in Keys, Subscribe(v, k)
  PROVE  TypeOK'
<1>1. PICK s \in Streams :
        /\ streams' = [streams EXCEPT ![k] = s]
        /\ phase' = [phase EXCEPT ![s] = "open"]
        /\ keyOf' = [keyOf EXCEPT ![s] = k]
        /\ closeTimer' = [closeTimer EXCEPT ![s] = FALSE]
        /\ nextSubID' = [nextSubID EXCEPT ![s] = @ + 1]
        /\ subscribers' = [subscribers EXCEPT ![s] = @ \cup {v}]
        /\ source' = [source EXCEPT ![v] = s]
        /\ subID' = [subID EXCEPT ![v] = nextSubID[s] + 1]
        /\ queue' = [queue EXCEPT ![v] = ring[s]]
        /\ capacity' = [capacity EXCEPT ![v] = Capacity(Len(ring[s]))]
        /\ base' = [base EXCEPT ![v] = published[s] - Len(ring[s])]
  BY DEF Subscribe
<1>2. ring[s] \in Seq(Entry) /\ Len(ring[s]) \in Nat /\ published[s] \in Nat
  BY DEF TypeOK
<1>3. published[s] - Len(ring[s]) \in Nat
  BY <1>2, ConstantsAssumption DEF RingIsRecent
<1>4. Capacity(Len(ring[s])) \in Nat
  BY <1>2, CapacityHoldsReplay
<1>5. /\ streams' \in [Keys -> Streams \cup {None}]
      /\ phase' \in [Streams -> {"free", "open", "closed"}]
      /\ keyOf' \in [Streams -> Keys \cup {None}]
      /\ closeTimer' \in [Streams -> BOOLEAN]
      /\ nextSubID' \in [Streams -> Nat]
      /\ subscribers' \in [Streams -> SUBSET Viewers]
  <2>1. /\ streams' \in [Keys -> Streams \cup {None}]
        /\ phase' \in [Streams -> {"free", "open", "closed"}]
        /\ keyOf' \in [Streams -> Keys \cup {None}]
    BY <1>1 DEF TypeOK
  <2>2. closeTimer' \in [Streams -> BOOLEAN]
    BY <1>1 DEF TypeOK
  <2>3. nextSubID' \in [Streams -> Nat]
    BY <1>1 DEF TypeOK
  <2>4. subscribers' \in [Streams -> SUBSET Viewers]
    BY <1>1 DEF TypeOK
  <2> QED
    BY <2>1, <2>2, <2>3, <2>4
<1>6. /\ source' \in [Viewers -> Streams \cup {None}]
      /\ subID' \in [Viewers -> Nat]
      /\ queue' \in [Viewers -> Seq(Entry)]
      /\ capacity' \in [Viewers -> Nat]
      /\ base' \in [Viewers -> Nat]
  <2>1. source' \in [Viewers -> Streams \cup {None}] /\ subID' \in [Viewers -> Nat]
    BY <1>1 DEF TypeOK
  <2>2. queue' \in [Viewers -> Seq(Entry)]
    BY <1>1, <1>2 DEF TypeOK
  <2>3. capacity' \in [Viewers -> Nat]
    BY <1>1, <1>4 DEF TypeOK
  <2>4. base' \in [Viewers -> Nat]
    BY <1>1, <1>3 DEF TypeOK
  <2> QED
    BY <2>1, <2>2, <2>3, <2>4
<1>7. /\ wanted' \in [Viewers -> Keys \cup {None}]
      /\ status' \in [Viewers -> {"idle", "watching", "ended", "leaving", "gone"}]
  BY DEF TypeOK, Subscribe
<1> QED
  BY <1>5, <1>6, <1>7
  DEF TypeOK, Subscribe, ringVars, providerVars, sendVars

LEMMA UnsubscribeType ==
  ASSUME TypeOK, JoinedHasKey, NEW v \in Viewers, Unsubscribe(v)
  PROVE  TypeOK'
<1> DEFINE s == streams[wanted[v]]
<1>1. CASE s = None
  <2>1. status' \in [Viewers -> {"idle", "watching", "ended", "leaving", "gone"}]
    BY DEF TypeOK, Unsubscribe
  <2>2. UNCHANGED <<subscribers, closed, timerVars>>
    BY <1>1 DEF Unsubscribe
  <2> HIDE DEF s
  <2> QED
    BY <2>1, <2>2
    DEF TypeOK, Unsubscribe, timerVars, mapVars, ringVars, providerVars, joinVars,
        channelVars, sendVars
<1>2. CASE s # None
  <2>1. /\ subscribers' = [subscribers EXCEPT ![s] = @ \ Registered(v, s)]
        /\ closed' = [w \in Viewers |-> closed[w] \/ w \in Registered(v, s)]
        /\ closeTimer' =
             [closeTimer EXCEPT ![s] = @ \/ LeavesIdle(s, Registered(v, s))]
        /\ firing' = IF LeavesIdle(s, Registered(v, s)) /\ closeTimer[s]
                     THEN [firing EXCEPT ![s] = @ + 1] ELSE firing
    BY <1>2 DEF Unsubscribe
  <2>2. s \in Streams
    BY <1>2 DEF TypeOK, JoinedHasKey, Unsubscribe
  <2> HIDE DEF s
  <2>3. subscribers' \in [Streams -> SUBSET Viewers]
    BY <2>1, <2>2 DEF TypeOK
  <2>4. firing' \in [Streams -> Nat]
    BY <2>1, <2>2 DEF TypeOK
  <2>5. closed' \in [Viewers -> BOOLEAN]
    BY <2>1 DEF TypeOK
  <2>6. closeTimer' \in [Streams -> BOOLEAN]
    BY <2>1, Zenon DEF TypeOK, LeavesIdle
  <2>7. status' \in [Viewers -> {"idle", "watching", "ended", "leaving", "gone"}]
    BY DEF TypeOK, Unsubscribe
  <2> QED
    BY <2>3, <2>4, <2>5, <2>6, <2>7
    DEF TypeOK, Unsubscribe, mapVars, ringVars, providerVars, joinVars,
        channelVars, sendVars
<1> QED
  BY <1>1, <1>2

LEMMA ReaderType ==
  ASSUME TypeOK, NEW v \in Viewers,
         RefuseSubscribe(v) \/ Receive(v) \/ SeeEnd(v) \/ Disconnect(v)
  PROVE  TypeOK'
<1> USE DEF mapVars, registerVars, ringVars, providerVars, timerVars, joinVars,
            channelVars, sendVars
<1>1. CASE RefuseSubscribe(v)
  BY <1>1 DEF TypeOK, RefuseSubscribe
<1>2. CASE Receive(v)
  <2>1. Head(queue[v]) \in Entry /\ Tail(queue[v]) \in Seq(Entry)
    BY <1>2, HeadTailProperties DEF TypeOK, Receive
  <2>2. queue' \in [Viewers -> Seq(Entry)] /\ got' \in [Viewers -> Seq(Entry)]
    BY <1>2, <2>1 DEF TypeOK, Receive
  <2> QED
    BY <1>2, <2>2 DEF TypeOK, Receive
<1>3. CASE SeeEnd(v)
  BY <1>3 DEF TypeOK, SeeEnd
<1>4. CASE Disconnect(v)
  BY <1>4 DEF TypeOK, Disconnect
<1> QED
  BY <1>1, <1>2, <1>3, <1>4

\* Whoever is served is served by a broadcast, not by NotSending.
LEMMA ServingIsBroadcast ==
  ASSUME TypeOK, NEW v \in Viewers, Serving(v)
  PROVE  /\ sending \in Broadcast /\ Locked
         /\ sending.stream \in Streams /\ sending.entry \in Entry
         /\ sending.left \in SUBSET Viewers /\ sending.noticed \in SUBSET Viewers
<1>1. sending # NotSending
  BY DEF Serving, NotSending
<1> QED
  BY <1>1 DEF TypeOK, Broadcast, Locked

LEMMA OfferType ==
  ASSUME TypeOK, NEW v \in Viewers, OfferNotice(v) \/ OfferRecord(v)
  PROVE  TypeOK'
<1> USE DEF mapVars, registerVars, ringVars, providerVars, timerVars, joinVars
<1>1. Serving(v)
  BY DEF OfferNotice, OfferRecord
<1>2. /\ sending \in Broadcast
      /\ sending.stream \in Streams /\ sending.entry \in Entry
      /\ sending.left \in SUBSET Viewers /\ sending.noticed \in SUBSET Viewers
  BY <1>1, ServingIsBroadcast
<1>3. queue[v] \in Seq(Entry) /\ dropped[v] \in Nat
  BY DEF TypeOK
<1>4. CASE OfferNotice(v)
  <2>1. Notice(v) \in Entry
    BY DEF TypeOK, Notice, Entry
  <2>2. Append(queue[v], Notice(v)) \in Seq(Entry)
    BY <1>3, <2>1, AppendProperties
  <2>3. queue' \in [Viewers -> Seq(Entry)]
    BY <1>4, <2>2 DEF TypeOK, OfferNotice
  <2>4. dropped' \in [Viewers -> Nat]
    BY <1>3, <1>4 DEF TypeOK, OfferNotice, StillDropped
  <2>5. sending' \in Broadcast
    BY <1>2, <1>4 DEF OfferNotice, Broadcast
  <2>6. sequence' \in Nat
    BY <1>4 DEF TypeOK, OfferNotice
  <2> QED
    BY <1>4, <2>3, <2>4, <2>5, <2>6 DEF TypeOK, OfferNotice
<1>5. CASE OfferRecord(v)
  <2>1. Append(queue[v], sending.entry) \in Seq(Entry)
    BY <1>2, <1>3, AppendProperties
  <2>2. queue' \in [Viewers -> Seq(Entry)]
    BY <1>5, <2>1 DEF TypeOK, OfferRecord
  <2>3. dropped' \in [Viewers -> Nat]
    <3>1. dropped' = dropped \/ dropped' = [dropped EXCEPT ![v] = dropped[v] + 1]
      BY <1>5 DEF OfferRecord
    <3>2. dropped \in [Viewers -> Nat] /\ dropped[v] + 1 \in Nat
      BY <1>3 DEF TypeOK
    <3> QED
      BY <3>1, <3>2
  <2>4. sending' \in Broadcast \cup {NotSending}
    BY <1>2, <1>5 DEF OfferRecord, Broadcast
  <2> QED
    BY <1>5, <2>2, <2>3, <2>4 DEF TypeOK, OfferRecord
<1> QED
  BY <1>4, <1>5

LEMMA BroadcastType ==
  ASSUME TypeOK, RingIsRecent, NEW s \in Streams, NEW kind \in {"record", "error"},
         BeginBroadcast(s, kind),
         backlog' \in [Streams -> Nat],
         upstream' \in [Streams -> {"streaming", "failed", "returned"}]
  PROVE  TypeOK'
<1> DEFINE numbered == kind = "record" \/ NumbersErrors
           entry == [kind |-> kind, n |-> published[s] + 1, count |-> 0,
                     seq |-> IF numbered THEN sequence + 1 ELSE 0]
<1>1. entry \in Entry
  BY DEF TypeOK, Entry
<1>2. RingAppend(ring[s], entry) \in Seq(Entry)
  <2>1. ring[s] \in Seq(Entry) /\ Len(ring[s]) <= RingSize
    BY ConstantsAssumption DEF TypeOK, RingIsRecent
  <2> QED
    BY <1>1, <2>1, RingAppendShifts
<1>3. ring' = [ring EXCEPT ![s] = RingAppend(ring[s], entry)]
  BY DEF BeginBroadcast
<1>4. sending' = IF subscribers[s] = {} THEN NotSending
                 ELSE [stream |-> s, entry |-> entry,
                       left |-> subscribers[s], noticed |-> {}]
  BY DEF BeginBroadcast
<1> HIDE DEF entry
<1>5. ring' \in [Streams -> Seq(Entry)]
  BY <1>2, <1>3 DEF TypeOK
<1>6. sending' \in Broadcast \cup {NotSending}
  BY <1>1, <1>4 DEF TypeOK, Broadcast
<1>7. published' \in [Streams -> Nat] /\ sequence' \in Nat
  BY DEF TypeOK, BeginBroadcast
<1> QED
  BY <1>5, <1>6, <1>7
  DEF TypeOK, BeginBroadcast, mapVars, registerVars, timerVars, joinVars,
      channelVars

LEMMA UpstreamType ==
  ASSUME TypeOK, RingIsRecent, NEW s \in Streams, Upstream(s)
  PROVE  TypeOK'
<1> USE DEF mapVars, registerVars, ringVars, providerVars, timerVars, joinVars,
            channelVars, sendVars
<1>1. CASE Emit(s)
  BY <1>1 DEF TypeOK, Emit
<1>2. CASE ProviderReturns(s)
  BY <1>2 DEF TypeOK, ProviderReturns
<1>3. CASE SkipRecord(s)
  <2>1. backlog' \in [Streams -> Nat]
    BY <1>3 DEF TypeOK, SkipRecord
  <2> QED
    BY <1>3, <2>1 DEF TypeOK, SkipRecord
<1>4. CASE BroadcastRecord(s)
  <2>1. /\ backlog' \in [Streams -> Nat]
        /\ upstream' \in [Streams -> {"streaming", "failed", "returned"}]
    BY <1>4 DEF TypeOK, BroadcastRecord
  <2> QED
    BY <1>4, <2>1, BroadcastType DEF BroadcastRecord
<1>5. CASE BroadcastError(s)
  <2>1. /\ backlog' \in [Streams -> Nat]
        /\ upstream' \in [Streams -> {"streaming", "failed", "returned"}]
    BY <1>5 DEF TypeOK, BroadcastError
  <2> QED
    BY <1>5, <2>1, BroadcastType DEF BroadcastError
<1>6. CASE CloseStream(s)
  <2>1. closed' \in [Viewers -> BOOLEAN]
    BY <1>6 DEF TypeOK, CloseStream, CloseChannels
  <2> QED
    BY <1>6, <2>1 DEF TypeOK, CloseStream, RunEnds
<1>7. CASE TimerFires(s)
  BY <1>7 DEF TypeOK, TimerFires
<1>8. CASE StopIfUnused(s)
  <2>1. firing' \in [Streams -> Nat]
    BY <1>8 DEF TypeOK, StopIfUnused, TimerDue
  <2>2. cancelled' \in [Streams -> BOOLEAN]
    BY <1>8 DEF TypeOK, StopIfUnused
  <2> QED
    BY <1>8, <2>1, <2>2 DEF TypeOK, StopIfUnused
<1> QED
  BY <1>1, <1>2, <1>3, <1>4, <1>5, <1>6, <1>7, <1>8 DEF Upstream

LEMMA NextType ==
  ASSUME TypeOK, RingIsRecent, JoinedHasKey, Next
  PROVE  TypeOK'
<1>1. ASSUME NEW v \in Viewers, Viewer(v) PROVE TypeOK'
  BY <1>1, SubscribeType, UnsubscribeType, ReaderType, OfferType DEF Viewer
<1> QED
  BY <1>1, UpstreamType DEF Next

-----------------------------------------------------------------------------
(* Which steps disturb what *)

\* Only four handlers change the map, the registered subscribers or whether a
\* channel is closed.
LEMMA WhoRegisters ==
  ASSUME Next
  PROVE  \/ \E v \in Viewers, k \in Keys : Subscribe(v, k)
         \/ \E v \in Viewers : Unsubscribe(v)
         \/ \E s \in Streams : CloseStream(s)
         \/ UNCHANGED <<mapVars, subscribers, source, closed>>
<1> USE DEF registerVars, joinVars
<1>1. ASSUME NEW v \in Viewers, Viewer(v)
      PROVE  \/ \E k \in Keys : Subscribe(v, k)
             \/ Unsubscribe(v)
             \/ UNCHANGED <<mapVars, subscribers, source, closed>>
  BY <1>1
  DEF Viewer, RefuseSubscribe, Receive, SeeEnd, Disconnect, OfferNotice, OfferRecord
<1>2. ASSUME NEW s \in Streams, Upstream(s)
      PROVE  \/ CloseStream(s)
             \/ UNCHANGED <<mapVars, subscribers, source, closed>>
  BY <1>2
  DEF Upstream, Emit, ProviderReturns, BroadcastRecord, BroadcastError,
      BeginBroadcast, SkipRecord, TimerFires, StopIfUnused
<1> QED
  BY <1>1, <1>2 DEF Next

LEMMA RingStaysRecent ==
  ASSUME IInv, Next
  PROVE  RingIsRecent'
<1> USE DEF ringVars
<1>1. ASSUME NEW s \in Streams, NEW kind \in {"record", "error"},
             BeginBroadcast(s, kind)
      PROVE  RingIsRecent'
  <2> DEFINE entry == [kind |-> kind, n |-> published[s] + 1, count |-> 0,
                       seq |-> IF kind = "record" \/ NumbersErrors
                               THEN sequence + 1 ELSE 0]
             longer == RingAppend(ring[s], entry)
  <2>1. entry \in Entry /\ entry.n = published[s] + 1
    BY DEF IInv, TypeOK, Entry
  <2>2. /\ ring' = [ring EXCEPT ![s] = longer]
        /\ published' = [published EXCEPT ![s] = published[s] + 1]
    BY <1>1 DEF BeginBroadcast
  <2> HIDE DEF entry
  <2>3. /\ ring \in [Streams -> Seq(Entry)] /\ published \in [Streams -> Nat]
        /\ RingSize \in Nat /\ RingSize >= 1 /\ published[s] \in Nat
    BY ConstantsAssumption DEF IInv, TypeOK
  <2>4. /\ Len(ring[s]) = (IF published[s] < RingSize THEN published[s] ELSE RingSize)
        /\ \A i \in 1 .. Len(ring[s]) :
             ring[s][i].n = published[s] - Len(ring[s]) + i
    BY DEF IInv, RingIsRecent
  <2>5. /\ Len(longer) =
             (IF published[s] + 1 < RingSize THEN published[s] + 1 ELSE RingSize)
        /\ \A i \in 1 .. Len(longer) :
             longer[i].n = published[s] + 1 - Len(longer) + i
    <3>1. ring[s] \in Seq(Entry) /\ Len(ring[s]) <= RingSize
      BY <2>3, <2>4
    <3>2. CASE Len(ring[s]) < RingSize
      <4>1. /\ Len(longer) = Len(ring[s]) + 1
            /\ \A i \in 1 .. Len(ring[s]) : longer[i] = ring[s][i]
            /\ longer[Len(ring[s]) + 1] = entry
        BY <2>1, <3>1, <3>2, RingAppendShifts
      <4> HIDE DEF longer
      <4>2. Len(ring[s]) = published[s]
        BY <2>3, <2>4, <3>2
      <4>3. ASSUME NEW i \in 1 .. Len(ring[s])
            PROVE  longer[i].n = i
        <5>1. longer[i].n = published[s] - Len(ring[s]) + i
          BY <2>4, <4>1
        <5> QED
          BY <2>3, <4>2, <5>1
      <4>4. longer[published[s] + 1].n = published[s] + 1
        BY <2>1, <4>1, <4>2
      <4>5. Len(longer) = published[s] + 1 /\ published[s] + 1 <= RingSize
        BY <2>3, <3>2, <4>1, <4>2
      <4>6. ASSUME NEW i \in 1 .. Len(longer)
            PROVE  longer[i].n = i
        BY <2>3, <4>2, <4>3, <4>4, <4>5
      <4>7. published[s] + 1 - Len(longer) = 0
        BY <2>3, <4>5
      <4> QED
        BY <2>3, <4>5, <4>6, <4>7
    <3>3. CASE Len(ring[s]) = RingSize
      <4>1. /\ Len(longer) = RingSize
            /\ \A i \in 1 .. RingSize - 1 : longer[i] = ring[s][i + 1]
            /\ longer[RingSize] = entry
        BY <2>1, <3>1, <3>3, RingAppendShifts
      <4> HIDE DEF longer
      <4>2. published[s] >= RingSize
        BY <2>3, <2>4, <3>3
      <4>3. ASSUME NEW i \in 1 .. RingSize - 1
            PROVE  longer[i].n = published[s] + 1 - RingSize + i
        <5>1. i + 1 \in 1 .. Len(ring[s]) /\ i \in Int
          BY <2>3, <3>3
        <5>2. longer[i].n = published[s] - Len(ring[s]) + (i + 1)
          BY <2>4, <4>1, <5>1
        <5>3. published[s] - Len(ring[s]) + (i + 1) = published[s] + 1 - RingSize + i
          BY <2>3, <3>3, <5>1
        <5> QED
          BY <5>2, <5>3
      <4> QED
        BY <2>1, <2>3, <4>1, <4>2, <4>3
    <3> QED
      BY <2>3, <2>4, <3>2, <3>3
  <2> HIDE DEF longer
  <2> QED
    BY <2>2, <2>3, <2>5 DEF IInv, RingIsRecent
<1>2. ASSUME UNCHANGED ringVars
      PROVE  RingIsRecent'
  BY <1>2 DEF IInv, RingIsRecent
<1>3. ASSUME NEW v \in Viewers, Viewer(v)
      PROVE  RingIsRecent'
  BY <1>2, <1>3
  DEF Viewer, Subscribe, RefuseSubscribe, Receive, SeeEnd, Disconnect,
      Unsubscribe, OfferNotice, OfferRecord
<1>4. ASSUME NEW s \in Streams, Upstream(s)
      PROVE  RingIsRecent'
  <2>1. CASE BroadcastRecord(s) \/ BroadcastError(s)
    BY <1>1, <2>1 DEF BroadcastRecord, BroadcastError
  <2>2. CASE Emit(s) \/ ProviderReturns(s) \/ SkipRecord(s) \/ CloseStream(s)
             \/ TimerFires(s) \/ StopIfUnused(s)
    BY <1>2, <2>2
    DEF Emit, ProviderReturns, SkipRecord, CloseStream, RunEnds, TimerFires,
        StopIfUnused
  <2> QED
    BY <1>4, <2>1, <2>2 DEF Upstream
<1> QED
  BY <1>3, <1>4 DEF Next

\* An entry of the map names the stream it is open under, through every
\* restart of the key.
LEMMA MapStaysShared ==
  ASSUME IInv, Next
  PROVE  SharedUpstream' /\ OpenHasKey'
<1> USE ConstantsAssumption DEF mapVars
<1>1. ASSUME NEW v \in Viewers, NEW k \in Keys, Subscribe(v, k)
      PROVE  SharedUpstream' /\ OpenHasKey'
  <2>1. PICK s \in Streams :
          /\ s \in Joinable(k) \/ (Joinable(k) = {} /\ phase[s] = "free")
          /\ streams' = [streams EXCEPT ![k] = s]
          /\ phase' = [phase EXCEPT ![s] = "open"]
          /\ keyOf' = [keyOf EXCEPT ![s] = k]
    BY <1>1 DEF Subscribe
  <2>2. OpenHasKey'
    BY <2>1 DEF IInv, TypeOK, OpenHasKey
  <2>3. CASE s \in Joinable(k)
    <3>1. s = streams[k] /\ phase[s] = "open" /\ keyOf[s] = k
      BY <2>3 DEF Joinable, IInv, SharedUpstream
    <3>2. UNCHANGED <<streams, phase, keyOf>>
      BY <2>1, <3>1 DEF IInv, TypeOK
    <3> QED
      BY <2>2, <3>2 DEF IInv, SharedUpstream
  <2>4. CASE Joinable(k) = {} /\ phase[s] = "free"
    <3>1. streams[k] \notin Streams
      BY <2>4 DEF Joinable, IInv, SharedUpstream
    <3>2. \A l \in Keys : streams[l] # s
      BY <2>4 DEF IInv, SharedUpstream
    <3>3. \A t \in Streams : ~(phase[t] = "open" /\ keyOf[t] = k)
      BY <3>1 DEF IInv, SharedUpstream
    <3>4. ASSUME NEW t \in Streams, NEW l \in Keys
          PROVE  streams'[l] = t <=> phase'[t] = "open" /\ keyOf'[t] = l
      <4>1. /\ streams'[l] = IF l = k THEN s ELSE streams[l]
            /\ phase'[t] = IF t = s THEN "open" ELSE phase[t]
            /\ keyOf'[t] = IF t = s THEN k ELSE keyOf[t]
        BY <2>1 DEF IInv, TypeOK
      <4>2. streams[l] = t <=> phase[t] = "open" /\ keyOf[t] = l
        BY DEF IInv, SharedUpstream
      <4> QED
        BY <3>2, <3>3, <4>1, <4>2
    <3>5. SharedUpstream'
      BY <3>4 DEF SharedUpstream
    <3> QED
      BY <2>2, <3>5
  <2> QED
    BY <2>1, <2>3, <2>4
<1>2. ASSUME NEW s \in Streams, CloseStream(s)
      PROVE  SharedUpstream' /\ OpenHasKey'
  <2>1. /\ phase[s] = "open" /\ keyOf' = keyOf
        /\ phase' = [phase EXCEPT ![s] = "closed"]
        /\ streams' = [streams EXCEPT ![keyOf[s]] = None]
    BY <1>2 DEF CloseStream, RunEnds
  <2>2. keyOf[s] \in Keys /\ streams[keyOf[s]] = s
    BY <2>1 DEF IInv, OpenHasKey, SharedUpstream
  <2> QED
    BY <2>1, <2>2 DEF IInv, TypeOK, OpenHasKey, SharedUpstream
<1>3. ASSUME UNCHANGED mapVars
      PROVE  SharedUpstream' /\ OpenHasKey'
  BY <1>3 DEF IInv, OpenHasKey, SharedUpstream
<1>4. ASSUME NEW v \in Viewers, Unsubscribe(v)
      PROVE  SharedUpstream' /\ OpenHasKey'
  BY <1>3, <1>4 DEF Unsubscribe
<1> QED
  BY <1>1, <1>2, <1>3, <1>4, WhoRegisters

\* A viewer that has not subscribed yet is not registered, and one that has
\* knows the key it asked for.
LEMMA ViewersStayFresh ==
  ASSUME IInv, Next
  PROVE  IdleIsFresh' /\ JoinedHasKey'
<1> USE ConstantsAssumption DEF joinVars
<1>1. ASSUME NEW v \in Viewers, NEW k \in Keys, Subscribe(v, k)
      PROVE  IdleIsFresh' /\ JoinedHasKey'
  <2>1. PICK s \in Streams : source' = [source EXCEPT ![v] = s]
    BY <1>1 DEF Subscribe
  <2>2. /\ status' = [status EXCEPT ![v] = "watching"]
        /\ wanted' = [wanted EXCEPT ![v] = k]
        /\ closed' = closed
    BY <1>1 DEF Subscribe
  <2> QED
    BY <2>1, <2>2 DEF IInv, TypeOK, IdleIsFresh, JoinedHasKey
<1>2. ASSUME NEW v \in Viewers, Unsubscribe(v)
      PROVE  IdleIsFresh' /\ JoinedHasKey'
  <2>1. streams[wanted[v]] \in Streams \cup {None}
    BY <1>2 DEF IInv, TypeOK, JoinedHasKey, Unsubscribe
  <2>2. \A w \in Viewers : closed'[w] /\ ~closed[w] => source[w] \in Streams
    <3>1. CASE streams[wanted[v]] = None
      BY <1>2, <3>1 DEF Unsubscribe
    <3>2. CASE streams[wanted[v]] \in Streams
      <4>1. closed' = [w \in Viewers |-> closed[w]
                          \/ w \in Registered(v, streams[wanted[v]])]
        BY <1>2, <3>2 DEF Unsubscribe
      <4>2. \A w \in Registered(v, streams[wanted[v]]) : source[w] \in Streams
        BY <3>2 DEF Registered, IInv, RegisteredCanReceive
      <4> QED
        BY <4>1, <4>2
    <3> QED
      BY <2>1, <3>1, <3>2
  <2>3. /\ status' = [status EXCEPT ![v] = "gone"]
        /\ wanted' = wanted /\ source' = source
    BY <1>2 DEF Unsubscribe
  <2>4. closed' \in [Viewers -> BOOLEAN]
    BY <1>2, UnsubscribeType DEF IInv, TypeOK
  <2>5. IdleIsFresh'
    BY <2>2, <2>3, <2>4 DEF IInv, TypeOK, IdleIsFresh
  <2> QED
    BY <2>3, <2>5 DEF IInv, TypeOK, JoinedHasKey
<1>3. ASSUME NEW s \in Streams, CloseStream(s)
      PROVE  IdleIsFresh' /\ JoinedHasKey'
  <2>1. /\ closed' = [w \in Viewers |-> closed[w] \/ w \in subscribers[s]]
        /\ UNCHANGED <<status, wanted, source>>
    BY <1>3 DEF CloseStream, RunEnds, CloseChannels
  <2>2. \A w \in subscribers[s] : source[w] \in Streams
    BY DEF IInv, RegisteredCanReceive
  <2> QED
    BY <2>1, <2>2 DEF IInv, TypeOK, IdleIsFresh, JoinedHasKey
<1>4. ASSUME NEW v \in Viewers,
             RefuseSubscribe(v) \/ Receive(v) \/ SeeEnd(v) \/ Disconnect(v)
      PROVE  IdleIsFresh' /\ JoinedHasKey'
  <2>1. UNCHANGED <<wanted, source, closed>>
    BY <1>4 DEF RefuseSubscribe, Receive, SeeEnd, Disconnect
  <2>2. \A w \in Viewers :
          \/ status'[w] = status[w]
          \/ /\ status'[w] \in {"ended", "leaving"}
             /\ status[w] \in {"watching", "ended"}
          \/ status'[w] = "gone"
    BY <1>4 DEF RefuseSubscribe, Receive, SeeEnd, Disconnect, IInv, TypeOK
  <2> QED
    BY <2>1, <2>2 DEF IInv, IdleIsFresh, JoinedHasKey
<1>5. ASSUME UNCHANGED <<status, wanted, source, closed>>
      PROVE  IdleIsFresh' /\ JoinedHasKey'
  BY <1>5 DEF IInv, IdleIsFresh, JoinedHasKey
<1>6. ASSUME NEW v \in Viewers, OfferNotice(v) \/ OfferRecord(v)
      PROVE  IdleIsFresh' /\ JoinedHasKey'
  BY <1>5, <1>6 DEF OfferNotice, OfferRecord
<1>7. ASSUME NEW s \in Streams,
             \/ Emit(s) \/ ProviderReturns(s) \/ BroadcastRecord(s) \/ SkipRecord(s)
             \/ BroadcastError(s) \/ TimerFires(s) \/ StopIfUnused(s)
      PROVE  IdleIsFresh' /\ JoinedHasKey'
  BY <1>5, <1>7
  DEF Emit, ProviderReturns, BroadcastRecord, SkipRecord, BroadcastError,
      BeginBroadcast, TimerFires, StopIfUnused
<1> QED
  BY <1>1, <1>2, <1>3, <1>4, <1>6, <1>7 DEF Next, Viewer, Upstream

LEMMA RegisteredStayOpen ==
  ASSUME IInv, Next
  PROVE  RegisteredCanReceive'
<1> USE ConstantsAssumption DEF mapVars, joinVars
<1>1. ASSUME NEW v \in Viewers, NEW k \in Keys, Subscribe(v, k)
      PROVE  RegisteredCanReceive'
  <2>1. PICK s \in Streams :
          /\ phase' = [phase EXCEPT ![s] = "open"]
          /\ subscribers' = [subscribers EXCEPT ![s] = subscribers[s] \cup {v}]
          /\ source' = [source EXCEPT ![v] = s]
    BY <1>1 DEF Subscribe
  <2>2. source[v] = None /\ ~closed[v] /\ closed' = closed
    BY <1>1 DEF Subscribe, IInv, IdleIsFresh
  <2>3. \A t \in Streams : v \notin subscribers[t]
    BY <2>2 DEF IInv, RegisteredCanReceive
  <2>4. ASSUME NEW t \in Streams, NEW w \in subscribers'[t]
        PROVE  phase'[t] = "open" /\ source'[w] = t /\ ~closed'[w]
    <3>1. /\ phase'[t] = IF t = s THEN "open" ELSE phase[t]
          /\ w \in subscribers[t] \/ (t = s /\ w = v)
      BY <2>1 DEF IInv, TypeOK
    <3>2. CASE w \in subscribers[t]
      <4>1. w # v /\ w \in Viewers /\ source'[w] = source[w]
        BY <2>1, <2>3, <3>2 DEF IInv, TypeOK
      <4> QED
        BY <2>2, <3>1, <3>2, <4>1 DEF IInv, RegisteredCanReceive
    <3>3. CASE t = s /\ w = v
      BY <2>1, <2>2, <3>1, <3>3 DEF IInv, TypeOK
    <3> QED
      BY <3>1, <3>2, <3>3
  <2> QED
    BY <2>4 DEF RegisteredCanReceive
<1>2. ASSUME NEW v \in Viewers, Unsubscribe(v)
      PROVE  RegisteredCanReceive'
  <2> DEFINE s == streams[wanted[v]]
  <2>1. UNCHANGED <<phase, source>>
    BY <1>2 DEF Unsubscribe
  <2>2. CASE s = None
    BY <1>2, <2>1, <2>2 DEF Unsubscribe, IInv, RegisteredCanReceive
  <2>3. CASE s # None
    <3>1. s \in Streams
      BY <1>2, <2>3 DEF IInv, TypeOK, JoinedHasKey, Unsubscribe
    <3>2. PICK removed \in SUBSET subscribers[s] :
            /\ subscribers' = [subscribers EXCEPT ![s] = subscribers[s] \ removed]
            /\ closed' = [w \in Viewers |-> closed[w] \/ w \in removed]
      BY <1>2, <2>3 DEF Unsubscribe, Registered
    <3> HIDE DEF s
    <3>3. \A t \in Streams \ {s} : \A w \in subscribers[t] : w \notin subscribers[s]
      BY <3>1 DEF IInv, RegisteredCanReceive
    <3>4. \A t \in Streams : \A w \in subscribers'[t] :
            w \in subscribers[t] /\ w \notin removed /\ w \in Viewers
      BY <3>1, <3>2, <3>3 DEF IInv, TypeOK
    <3>5. \A w \in Viewers : w \notin removed => closed'[w] = closed[w]
      BY <3>2 DEF IInv, TypeOK
    <3> QED
      BY <2>1, <3>4, <3>5 DEF IInv, RegisteredCanReceive
  <2> QED
    BY <2>2, <2>3
<1>3. ASSUME NEW s \in Streams, CloseStream(s)
      PROVE  RegisteredCanReceive'
  <2>1. /\ phase' = [phase EXCEPT ![s] = "closed"]
        /\ subscribers' = [subscribers EXCEPT ![s] = {}]
        /\ closed' = [w \in Viewers |-> closed[w] \/ w \in subscribers[s]]
        /\ source' = source
    BY <1>3 DEF CloseStream, RunEnds, CloseChannels
  <2>2. \A t \in Streams \ {s} : \A w \in subscribers[t] : w \notin subscribers[s]
    BY DEF IInv, RegisteredCanReceive
  <2> QED
    BY <2>1, <2>2 DEF IInv, TypeOK, RegisteredCanReceive
<1>4. ASSUME UNCHANGED <<mapVars, subscribers, source, closed>>
      PROVE  RegisteredCanReceive'
  BY <1>4 DEF IInv, RegisteredCanReceive
<1> QED
  BY <1>1, <1>2, <1>3, <1>4, WhoRegisters

\* The mutex is what keeps a broadcast's subscribers registered.
LEMMA BroadcastStaysServed ==
  ASSUME IInv, Next
  PROVE  BroadcastServesRegistered'
<1> USE DEF registerVars, sendVars, Locked
<1>1. ASSUME ~Locked, UNCHANGED sending
      PROVE  BroadcastServesRegistered'
  BY <1>1 DEF BroadcastServesRegistered
<1>2. ASSUME UNCHANGED <<sending, subscribers>>
      PROVE  BroadcastServesRegistered'
  BY <1>2 DEF IInv, BroadcastServesRegistered
<1>3. ASSUME NEW v \in Viewers,
             \/ RefuseSubscribe(v) \/ Receive(v) \/ SeeEnd(v) \/ Disconnect(v)
             \/ Unsubscribe(v) \/ \E k \in Keys : Subscribe(v, k)
      PROVE  BroadcastServesRegistered'
  BY <1>1, <1>2, <1>3
  DEF RefuseSubscribe, Receive, SeeEnd, Disconnect, Unsubscribe, Subscribe
<1>4. ASSUME NEW v \in Viewers, OfferNotice(v) \/ OfferRecord(v)
      PROVE  BroadcastServesRegistered'
  <2>1. Serving(v) /\ subscribers' = subscribers
    BY <1>4 DEF OfferNotice, OfferRecord
  <2>2. sending \in Broadcast /\ Locked
    BY <2>1, ServingIsBroadcast DEF IInv
  <2>3. v \in sending.left /\ sending.left \subseteq subscribers[sending.stream]
    BY <2>1, <2>2 DEF IInv, BroadcastServesRegistered, Serving
  <2>4. CASE OfferNotice(v)
    <3>1. sending'.left = sending.left /\ sending'.stream = sending.stream
      BY <2>2, <2>4 DEF OfferNotice, Broadcast
    <3> QED
      BY <2>1, <2>3, <3>1 DEF BroadcastServesRegistered
  <2>5. CASE OfferRecord(v) /\ sending.left # {v}
    BY <2>1, <2>3, <2>5 DEF OfferRecord, BroadcastServesRegistered
  <2>6. CASE OfferRecord(v) /\ sending.left = {v}
    BY <2>6 DEF OfferRecord, BroadcastServesRegistered
  <2> QED
    BY <1>4, <2>4, <2>5, <2>6
<1>5. ASSUME NEW s \in Streams, NEW kind \in {"record", "error"},
             BeginBroadcast(s, kind)
      PROVE  BroadcastServesRegistered'
  <2>1. CASE subscribers[s] = {}
    BY <1>5, <2>1 DEF BeginBroadcast, BroadcastServesRegistered
  <2>2. CASE subscribers[s] # {}
    <3>1. sending'.left = subscribers[s] /\ sending'.stream = s
      BY <1>5, <2>2 DEF BeginBroadcast
    <3>2. subscribers' = subscribers
      BY <1>5 DEF BeginBroadcast
    <3> QED
      BY <2>2, <3>1, <3>2 DEF BroadcastServesRegistered
  <2> QED
    BY <2>1, <2>2
<1>6. ASSUME NEW s \in Streams, Upstream(s)
      PROVE  BroadcastServesRegistered'
  <2>1. CASE BroadcastRecord(s) \/ BroadcastError(s)
    BY <1>5, <2>1 DEF BroadcastRecord, BroadcastError
  <2>2. CASE CloseStream(s)
    BY <1>1, <2>2 DEF CloseStream, RunEnds
  <2>3. CASE Emit(s) \/ ProviderReturns(s) \/ SkipRecord(s) \/ TimerFires(s)
             \/ StopIfUnused(s)
    BY <1>2, <2>3 DEF Emit, ProviderReturns, SkipRecord, TimerFires, StopIfUnused
  <2> QED
    BY <1>6, <2>1, <2>2, <2>3 DEF Upstream
<1> QED
  BY <1>3, <1>4, <1>6 DEF Next, Viewer

\* The replay and every later entry are queued only where there is room.
LEMMA QueuesStayWithin ==
  ASSUME IInv, Next
  PROVE  QueueFits'
<1> USE DEF channelVars, joinVars
<1>1. ASSUME NEW v \in Viewers, NEW k \in Keys, Subscribe(v, k)
      PROVE  QueueFits'
  <2>1. PICK s \in Streams :
          /\ queue' = [queue EXCEPT ![v] = ring[s]]
          /\ capacity' = [capacity EXCEPT ![v] = Capacity(Len(ring[s]))]
    BY <1>1 DEF Subscribe
  <2>2. Len(ring[s]) <= Capacity(Len(ring[s]))
    BY CapacityHoldsReplay DEF IInv, TypeOK
  <2> QED
    BY <2>1, <2>2 DEF IInv, TypeOK, QueueFits
<1>2. ASSUME NEW v \in Viewers, NEW entry \in Entry, HasRoom(v),
             queue' = [queue EXCEPT ![v] = Append(queue[v], entry)],
             capacity' = capacity
      PROVE  QueueFits'
  <2>1. queue[v] \in Seq(Entry) /\ capacity[v] \in Nat
    BY DEF IInv, TypeOK
  <2>2. Len(Append(queue[v], entry)) = Len(queue[v]) + 1
    BY <2>1, AppendProperties
  <2>3. Len(Append(queue[v], entry)) <= capacity[v]
    BY <1>2, <2>1, <2>2 DEF HasRoom
  <2> QED
    BY <1>2, <2>3 DEF IInv, TypeOK, QueueFits
<1>3. ASSUME UNCHANGED <<queue, capacity>>
      PROVE  QueueFits'
  BY <1>3 DEF IInv, QueueFits
<1>4. ASSUME NEW v \in Viewers, OfferNotice(v) \/ OfferRecord(v)
      PROVE  QueueFits'
  <2>1. Notice(v) \in Entry /\ sending.entry \in Entry
    <3>1. Serving(v)
      BY <1>4 DEF OfferNotice, OfferRecord
    <3>2. Notice(v) \in Entry
      BY DEF IInv, TypeOK, Notice, Entry
    <3> QED
      BY <3>1, <3>2, ServingIsBroadcast DEF IInv
  <2>2. /\ capacity' = capacity
        /\ \/ queue' = queue
           \/ HasRoom(v) /\ queue' = [queue EXCEPT ![v] = Append(queue[v], Notice(v))]
           \/ HasRoom(v) /\ queue' = [queue EXCEPT ![v] = Append(queue[v], sending.entry)]
    BY <1>4 DEF OfferNotice, OfferRecord
  <2> QED
    BY <1>2, <1>3, <2>1, <2>2
<1>5. ASSUME NEW v \in Viewers, Receive(v)
      PROVE  QueueFits'
  <2>1. Len(Tail(queue[v])) <= Len(queue[v])
    BY <1>5, HeadTailProperties DEF Receive, IInv, TypeOK
  <2>2. Len(Tail(queue[v])) <= capacity[v]
    <3>1. queue[v] \in Seq(Entry) /\ queue[v] # <<>> /\ capacity[v] \in Nat
      BY <1>5 DEF Receive, IInv, TypeOK
    <3>2. Len(queue[v]) <= capacity[v] /\ Tail(queue[v]) \in Seq(Entry)
      BY <3>1, HeadTailProperties DEF IInv, QueueFits
    <3> QED
      BY <2>1, <3>1, <3>2
  <2> QED
    BY <1>5, <2>2 DEF Receive, IInv, TypeOK, QueueFits
<1>6. ASSUME NEW v \in Viewers,
             RefuseSubscribe(v) \/ SeeEnd(v) \/ Disconnect(v) \/ Unsubscribe(v)
      PROVE  QueueFits'
  BY <1>3, <1>6 DEF RefuseSubscribe, SeeEnd, Disconnect, Unsubscribe
<1>7. ASSUME NEW s \in Streams, Upstream(s)
      PROVE  QueueFits'
  BY <1>3, <1>7
  DEF Upstream, Emit, ProviderReturns, BroadcastRecord, BroadcastError,
      BeginBroadcast, SkipRecord, CloseStream, RunEnds, TimerFires, StopIfUnused
<1> QED
  BY <1>1, <1>4, <1>5, <1>6, <1>7 DEF Next, Viewer

\* No step takes the last subscriber away without a timer, and no step takes
\* the timer away without a stopIfUnused call or a subscriber in its place.
LEMMA IdleStaysTimed ==
  ASSUME IInv, Next
  PROVE  IdleStreamIsTimed'
<1> USE DEF mapVars, registerVars, timerVars, providerVars
<1>1. ASSUME NEW v \in Viewers, NEW k \in Keys, Subscribe(v, k)
      PROVE  IdleStreamIsTimed'
  <2>1. PICK s \in Streams :
          /\ phase' = [phase EXCEPT ![s] = "open"]
          /\ subscribers' = [subscribers EXCEPT ![s] = subscribers[s] \cup {v}]
          /\ closeTimer' = [closeTimer EXCEPT ![s] = FALSE]
    BY <1>1 DEF Subscribe
  <2>2. UNCHANGED <<firing, cancelled>>
    BY <1>1 DEF Subscribe
  <2> QED
    BY <2>1, <2>2 DEF IInv, TypeOK, IdleStreamIsTimed
<1>2. ASSUME NEW v \in Viewers, Unsubscribe(v)
      PROVE  IdleStreamIsTimed'
  <2> DEFINE s == streams[wanted[v]]
  <2>1. UNCHANGED <<phase, cancelled>>
    BY <1>2 DEF Unsubscribe
  <2>2. CASE s = None
    BY <1>2, <2>1, <2>2 DEF Unsubscribe, IInv, IdleStreamIsTimed
  <2>3. CASE s # None
    <3>1. s \in Streams
      BY <1>2, <2>3 DEF IInv, TypeOK, JoinedHasKey, Unsubscribe
    <3>2. PICK removed \in SUBSET subscribers[s] :
            /\ subscribers' = [subscribers EXCEPT ![s] = subscribers[s] \ removed]
            /\ closeTimer' = [closeTimer EXCEPT ![s] =
                                closeTimer[s] \/ LeavesIdle(s, removed)]
            /\ firing' = IF LeavesIdle(s, removed) /\ closeTimer[s]
                         THEN [firing EXCEPT ![s] = firing[s] + 1] ELSE firing
      BY <1>2, <2>3 DEF Unsubscribe, Registered
    <3> HIDE DEF s
    <3>3. ASSUME phase[s] = "open", subscribers'[s] = {}
          PROVE  closeTimer'[s]
      BY <3>1, <3>2, <3>3 DEF LeavesIdle, IInv, TypeOK
    <3>4. ASSUME NEW t \in Streams \ {s}
          PROVE  /\ subscribers'[t] = subscribers[t]
                 /\ closeTimer'[t] = closeTimer[t]
                 /\ firing'[t] = firing[t]
      BY <3>1, <3>2, <3>4 DEF IInv, TypeOK
    <3> QED
      BY <2>1, <3>1, <3>3, <3>4 DEF IInv, IdleStreamIsTimed
  <2> QED
    BY <2>2, <2>3
<1>3. ASSUME NEW s \in Streams, CloseStream(s)
      PROVE  IdleStreamIsTimed'
  <2>1. /\ phase' = [phase EXCEPT ![s] = "closed"]
        /\ subscribers' = [subscribers EXCEPT ![s] = {}]
        /\ UNCHANGED <<closeTimer, firing, cancelled>>
    BY <1>3 DEF CloseStream, RunEnds
  <2> QED
    BY <2>1 DEF IInv, TypeOK, IdleStreamIsTimed
<1>4. ASSUME NEW s \in Streams, TimerFires(s)
      PROVE  IdleStreamIsTimed'
  BY <1>4 DEF TimerFires, IInv, TypeOK, IdleStreamIsTimed
<1>5. ASSUME NEW s \in Streams, StopIfUnused(s)
      PROVE  IdleStreamIsTimed'
  <2>1. /\ UNCHANGED <<phase, subscribers, closeTimer>>
        /\ firing' = [firing EXCEPT ![s] = firing[s] - 1]
        /\ cancelled' = IF Unused(s) THEN [cancelled EXCEPT ![s] = TRUE] ELSE cancelled
    BY <1>5 DEF StopIfUnused
  <2>2. phase[s] = "open" /\ subscribers[s] = {} => Unused(s)
    BY DEF Unused, IInv, OpenHasKey, SharedUpstream
  <2>3. phase[s] = "open" /\ subscribers[s] = {} => cancelled'[s]
    BY <2>1, <2>2 DEF IInv, TypeOK
  <2>4. ASSUME NEW t \in Streams \ {s}
        PROVE  firing'[t] = firing[t] /\ cancelled'[t] = cancelled[t]
    BY <2>1, <2>4 DEF IInv, TypeOK
  <2> QED
    BY <2>1, <2>3, <2>4 DEF IInv, IdleStreamIsTimed
<1>6. ASSUME UNCHANGED <<phase, subscribers, closeTimer, firing, cancelled>>
      PROVE  IdleStreamIsTimed'
  BY <1>6 DEF IInv, IdleStreamIsTimed
<1>7. ASSUME NEW v \in Viewers,
             \/ RefuseSubscribe(v) \/ Receive(v) \/ SeeEnd(v) \/ Disconnect(v)
             \/ OfferNotice(v) \/ OfferRecord(v)
      PROVE  IdleStreamIsTimed'
  BY <1>6, <1>7
  DEF RefuseSubscribe, Receive, SeeEnd, Disconnect, OfferNotice, OfferRecord
<1>8. ASSUME NEW s \in Streams,
             \/ Emit(s) \/ ProviderReturns(s) \/ BroadcastRecord(s) \/ SkipRecord(s)
             \/ BroadcastError(s)
      PROVE  IdleStreamIsTimed'
  BY <1>6, <1>8
  DEF Emit, ProviderReturns, BroadcastRecord, SkipRecord, BroadcastError,
      BeginBroadcast
<1> QED
  BY <1>1, <1>2, <1>3, <1>4, <1>5, <1>7, <1>8 DEF Next, Viewer, Upstream

-----------------------------------------------------------------------------
(* The inductive invariant and what follows from it *)

LEMMA NextIInv == IInv /\ [Next]_vars => IInv'
<1> SUFFICES ASSUME IInv, [Next]_vars PROVE IInv'
  OBVIOUS
<1>1. CASE Next
  <2>1. TypeOK'
    BY <1>1, NextType DEF IInv
  <2> QED
    BY <1>1, <2>1, RingStaysRecent, MapStaysShared, ViewersStayFresh,
       RegisteredStayOpen, BroadcastStaysServed, QueuesStayWithin, IdleStaysTimed
    DEF IInv
<1>2. CASE UNCHANGED vars
  <2> USE <1>2 DEF vars, mapVars, registerVars, ringVars, providerVars, timerVars,
                   joinVars, channelVars, sendVars
  <2>1. TypeOK'
    BY DEF IInv, TypeOK
  <2>2. RingIsRecent' /\ OpenHasKey' /\ IdleIsFresh' /\ JoinedHasKey'
    BY DEF IInv, RingIsRecent, OpenHasKey, IdleIsFresh, JoinedHasKey
  <2>3. SharedUpstream' /\ RegisteredCanReceive' /\ BroadcastServesRegistered'
    BY DEF IInv, SharedUpstream, RegisteredCanReceive, BroadcastServesRegistered,
           Locked
  <2>4. QueueFits' /\ IdleStreamIsTimed'
    BY DEF IInv, QueueFits, IdleStreamIsTimed
  <2> QED
    BY <2>1, <2>2, <2>3, <2>4 DEF IInv
<1> QED
  BY <1>1, <1>2

LEMMA AlwaysIInv == Spec => []IInv
BY InitIInv, NextIInv, PTL DEF Spec

\* The manager's state keeps its types, whatever handlers interleave.
THEOREM TypeCorrect == Spec => []TypeOK
<1>1. IInv => TypeOK
  BY DEF IInv
<1> QED
  BY <1>1, AlwaysIInv, PTL

\* Viewers of one key share one open stream, through every restart
\* (manager.go:50-64, 139-141).
THEOREM UpstreamIsShared == Spec => []SharedUpstream
<1>1. IInv => SharedUpstream
  BY DEF IInv
<1> QED
  BY <1>1, AlwaysIInv, PTL

\* Nothing is sent on a closed channel and no channel is closed twice, so
\* neither a broadcast nor the end of run panics (manager.go:92-95, 142-145,
\* 169-190).
THEOREM SendsAreSafe == Spec => []NoSendAfterClose
<1>1. IInv => NoSendAfterClose
  BY DEF IInv, NoSendAfterClose, RegisteredCanReceive, BroadcastServesRegistered
<1> QED
  BY <1>1, AlwaysIInv, PTL

\* Queueing the replay never blocks the mutex: it fits the channel made for it,
\* for every ring size, least capacity and headroom (manager.go:72-82).
THEOREM ReplayNeverBlocks == Spec => []QueueFits
<1>1. IInv => QueueFits
  BY DEF IInv
<1> QED
  BY <1>1, AlwaysIInv, PTL

\* The ring always holds exactly the newest records, in order
\* (manager.go:165-168).
THEOREM RingHoldsNewest == Spec => []RingIsRecent
<1>1. IInv => RingIsRecent
  BY DEF IInv
<1> QED
  BY <1>1, AlwaysIInv, PTL

\* An open stream without viewers is never forgotten: a timer, a due
\* stopIfUnused call or a cancellation is on its way (manager.go:66-69, 96-98,
\* 194-201).
THEOREM IdleStreamIsNeverForgotten == Spec => []IdleStreamIsTimed
<1>1. IInv => IdleStreamIsTimed
  BY DEF IInv
<1> QED
  BY <1>1, AlwaysIInv, PTL

-----------------------------------------------------------------------------
(* The order of a feed.                                                     *)
(*                                                                          *)
(* A record joins the feed of a viewer while the broadcast is at it, so     *)
(* until then the newest record of the stream is still ahead of everything  *)
(* in the feed; Settled is the last one that is not.                        *)

Settled(v) == published[source[v]] - (IF v \in sending.left THEN 1 ELSE 0)

\* The records of a feed grow, from above low up to high.
Grows(feed, low, high) ==
  \A i \in 1 .. Len(feed) : feed[i].kind # "dropped" =>
    /\ low < feed[i].n /\ feed[i].n <= high
    /\ \A j \in 1 .. Len(feed) :
         i < j /\ feed[j].kind # "dropped" => feed[i].n < feed[j].n

FeedIsSettled(v) ==
  IF source[v] = None THEN got[v] = <<>> /\ queue[v] = <<>>
  ELSE base[v] <= Settled(v) /\ Grows(Feed(v), base[v], Settled(v))

\* A broadcast is about the newest record of its stream.
EntryIsNewest == Locked => sending.entry.n = published[sending.stream]

FeedInv == EntryIsNewest /\ \A v \in Viewers : FeedIsSettled(v)

\* Feed(v) and Settled(v) are what their names say for a viewer of a stream.
LEMMA FeedType ==
  ASSUME TypeOK, NEW v \in Viewers
  PROVE  /\ got[v] \in Seq(Entry) /\ queue[v] \in Seq(Entry) /\ Feed(v) \in Seq(Entry)
         /\ base[v] \in Nat
         /\ source[v] # None => source[v] \in Streams /\ published[source[v]] \in Nat
                                /\ Settled(v) \in Int
BY ConcatProperties DEF TypeOK, Feed, Settled

\* A notice at its end does not disturb a feed.
LEMMA GrowsWithNotice ==
  ASSUME NEW feed \in Seq(Entry), NEW e \in Entry, NEW low, NEW high,
         Grows(feed, low, high), e.kind = "dropped"
  PROVE  Grows(Append(feed, e), low, high)
<1> DEFINE long == Append(feed, e)
<1>1. /\ Len(long) = Len(feed) + 1 /\ Len(feed) \in Nat
      /\ \A i \in 1 .. Len(feed) : long[i] = feed[i]
      /\ long[Len(feed) + 1] = e
  BY AppendProperties
<1> HIDE DEF long
<1>2. \A i \in 1 .. Len(long) : long[i].kind # "dropped" => i \in 1 .. Len(feed)
  BY <1>1
<1>3. Grows(long, low, high)
  BY <1>1, <1>2 DEF Grows
<1> QED
  BY <1>3 DEF long

\* Nor does the next record.
LEMMA GrowsWithNext ==
  ASSUME NEW feed \in Seq(Entry), NEW e \in Entry, NEW low \in Int, NEW high \in Int,
         Grows(feed, low, high), low <= high, e.n = high + 1
  PROVE  Grows(Append(feed, e), low, high + 1)
<1> DEFINE long == Append(feed, e)
<1>1. /\ Len(long) = Len(feed) + 1 /\ Len(feed) \in Nat
      /\ \A i \in 1 .. Len(feed) : long[i] = feed[i]
      /\ long[Len(feed) + 1] = e
  BY AppendProperties
<1>0. \A i \in 1 .. Len(feed) : feed[i] \in Entry
  OBVIOUS
<1>4. \A i \in 1 .. Len(feed) : feed[i].n \in Nat
  BY <1>0 DEF Entry
<1> HIDE DEF long
<1>2. ASSUME NEW i \in 1 .. Len(long), long[i].kind # "dropped"
      PROVE  /\ low < long[i].n /\ long[i].n <= high + 1
             /\ \A j \in 1 .. Len(long) :
                  i < j /\ long[j].kind # "dropped" => long[i].n < long[j].n
  <2>1. CASE i = Len(feed) + 1
    BY <1>1, <2>1
  <2>2. CASE i \in 1 .. Len(feed)
    <3>1. low < feed[i].n /\ feed[i].n <= high /\ long[i] = feed[i]
      BY <1>1, <1>2, <2>2 DEF Grows
    <3>2. ASSUME NEW j \in 1 .. Len(long), i < j, long[j].kind # "dropped"
          PROVE  long[i].n < long[j].n
      <4>1. CASE j = Len(feed) + 1
        BY <1>1, <1>4, <2>2, <3>1, <4>1
      <4>2. CASE j \in 1 .. Len(feed)
        BY <1>1, <1>2, <2>2, <3>2, <4>2 DEF Grows
      <4> QED
        BY <1>1, <4>1, <4>2
    <3> QED
      BY <1>1, <1>4, <2>2, <3>1, <3>2
  <2> QED
    BY <1>1, <2>1, <2>2
<1>3. Grows(long, low, high + 1)
  BY <1>2 DEF Grows
<1> QED
  BY <1>3 DEF long

LEMMA GrowsWithin ==
  ASSUME NEW feed \in Seq(Entry), NEW low \in Int, NEW high \in Int, NEW higher \in Int,
         Grows(feed, low, high), high <= higher
  PROVE  Grows(feed, low, higher)
<1>1. \A i \in 1 .. Len(feed) : feed[i] \in Entry
  OBVIOUS
<1>2. \A i \in 1 .. Len(feed) : feed[i].n \in Nat
  BY <1>1 DEF Entry
<1> QED
  BY <1>2 DEF Grows

\* What is queued goes to the end of the feed, and what is received stays in it.
LEMMA FeedOfAppend ==
  ASSUME NEW g \in Seq(Entry), NEW q \in Seq(Entry), NEW e \in Entry
  PROVE  g \o Append(q, e) = Append(g \o q, e)
BY AppendIsConcat, ConcatAssociative, ConcatProperties, AppendProperties

LEMMA FeedOfReceive ==
  ASSUME NEW g \in Seq(Entry), NEW q \in Seq(Entry), q # <<>>
  PROVE  Append(g, Head(q)) \o Tail(q) = g \o q
<1>1. Head(q) \in Entry /\ Tail(q) \in Seq(Entry) /\ q = <<Head(q)>> \o Tail(q)
  BY HeadTailProperties, ConcatProperties
<1>2. Append(g, Head(q)) = g \o <<Head(q)>>
  BY <1>1, AppendIsConcat
<1>3. <<Head(q)>> \in Seq(Entry)
  BY <1>1
<1>4. (g \o <<Head(q)>>) \o Tail(q) = g \o (<<Head(q)>> \o Tail(q))
  BY <1>1, <1>3, ConcatAssociative
<1> QED
  BY <1>1, <1>2, <1>4

\* The feed of a viewer that a step leaves alone stays settled, because the
\* last settled record of its stream never goes back.
LEMMA FeedStays ==
  ASSUME TypeOK, TypeOK', NEW v \in Viewers, FeedIsSettled(v),
         source'[v] = source[v], base'[v] = base[v],
         got'[v] = got[v], queue'[v] = queue[v],
         source[v] # None => Settled(v) <= Settled(v)'
  PROVE  FeedIsSettled(v)'
<1>1. CASE source[v] = None
  BY <1>1 DEF FeedIsSettled
<1>2. CASE source[v] # None
  <2>1. /\ Feed(v) \in Seq(Entry) /\ base[v] \in Int /\ Settled(v) \in Int
        /\ Settled(v)' \in Int
    <3>1. source[v] \in Streams /\ published'[source[v]] \in Nat
      BY <1>2 DEF TypeOK
    <3>2. Settled(v)' \in Int
      BY <3>1 DEF Settled
    <3> QED
      BY <1>2, <3>2, FeedType
  <2>2. base[v] <= Settled(v) /\ Grows(Feed(v), base[v], Settled(v))
    BY <1>2 DEF FeedIsSettled
  <2>3. Feed(v)' = Feed(v)
    BY DEF Feed
  <2>4. base[v] <= Settled(v)'
    BY <1>2, <2>1, <2>2
  <2> HIDE DEF Settled, Feed
  <2>5. Grows(Feed(v), base[v], Settled(v)')
    BY <1>2, <2>1, <2>2, GrowsWithin
  <2>6. base'[v] <= Settled(v)' /\ Grows(Feed(v)', base'[v], Settled(v)')
    BY <2>3, <2>4, <2>5
  <2> QED
    BY <1>2, <2>6 DEF FeedIsSettled, Grows
<1> QED
  BY <1>1, <1>2

\* Most steps touch no feed and publish nothing.
LEMMA FeedsStay ==
  ASSUME TypeOK, TypeOK', FeedInv,
         UNCHANGED <<source, base, got, queue, published, sending>>
  PROVE  FeedInv'
<1>1. EntryIsNewest'
  BY DEF FeedInv, EntryIsNewest, Locked
<1>2. ASSUME NEW v \in Viewers
      PROVE  FeedIsSettled(v)'
  <2>1. source[v] # None => Settled(v) \in Int /\ Settled(v)' = Settled(v)
    BY FeedType DEF Settled
  <2>2. source[v] # None => Settled(v) <= Settled(v)'
    BY <2>1
  <2> QED
    BY <2>2, FeedStays DEF FeedInv
<1> QED
  BY <1>1, <1>2 DEF FeedInv

\* Between two broadcasts every record of a stream is settled.
LEMMA SettledWhenFree ==
  ASSUME TypeOK, ~Locked, NEW v \in Viewers, source[v] # None
  PROVE  sending.left = {} /\ Settled(v) = published[source[v]]
<1>1. sending.left = {}
  BY DEF Locked, NotSending
<1> QED
  BY <1>1, FeedType DEF Settled

\* The replay is settled: it is the newest records, from the base up.
LEMMA ReplayIsSettled ==
  ASSUME IInv, IInv', FeedInv, NEW v \in Viewers, NEW k \in Keys, Subscribe(v, k)
  PROVE  FeedInv'
<1>1. PICK s \in Streams :
        /\ source' = [source EXCEPT ![v] = s]
        /\ queue' = [queue EXCEPT ![v] = ring[s]]
        /\ base' = [base EXCEPT ![v] = published[s] - Len(ring[s])]
  BY DEF Subscribe
<1>2. /\ UNCHANGED <<got, published, sending>>
      /\ ~Locked /\ ~Locked'
      /\ source[v] = None
  BY DEF Subscribe, ringVars, sendVars, Locked, IInv, IdleIsFresh
<1>3. EntryIsNewest'
  BY <1>2 DEF EntryIsNewest
<1>4. ASSUME NEW w \in Viewers \ {v}
      PROVE  FeedIsSettled(w)'
  <2>1. source'[w] = source[w] /\ base'[w] = base[w] /\ queue'[w] = queue[w]
    BY <1>1 DEF IInv, TypeOK
  <2>2. source[w] # None => Settled(w) \in Int /\ Settled(w)' = Settled(w)
    BY <1>2, <2>1, FeedType DEF Settled, IInv
  <2> QED
    BY <1>2, <2>1, <2>2, FeedStays DEF FeedInv, IInv
<1>5. FeedIsSettled(v)'
  <2>1. /\ source'[v] = s /\ s # None /\ queue'[v] = ring[s]
        /\ base'[v] = published[s] - Len(ring[s])
        /\ ring[s] \in Seq(Entry) /\ published[s] \in Nat /\ Len(ring[s]) \in Nat
    <3>1. ring[s] \in Seq(Entry) /\ published[s] \in Nat /\ s # None
      BY ConstantsAssumption DEF IInv, TypeOK
    <3>2. source'[v] = s /\ queue'[v] = ring[s] /\ base'[v] = published[s] - Len(ring[s])
      BY <1>1 DEF IInv, TypeOK
    <3> QED
      BY <3>1, <3>2
  <2>2. Feed(v)' = ring[s]
    <3>1. got'[v] = <<>>
      BY <1>2 DEF FeedInv, FeedIsSettled
    <3>2. <<>> \o ring[s] = ring[s]
      BY <2>1, ConcatEmptySeq
    <3> QED
      BY <2>1, <3>1, <3>2 DEF Feed
  <2>3. Settled(v)' = published[s]
    <3>1. v \notin sending'.left
      BY <1>2 DEF Locked, NotSending
    <3> QED
      BY <1>2, <2>1, <3>1 DEF Settled
  <2>4. \A i \in 1 .. Len(ring[s]) :
          ring[s][i].n = published[s] - Len(ring[s]) + i
    BY DEF IInv, RingIsRecent
  <2>5. Grows(ring[s], published[s] - Len(ring[s]), published[s])
    BY <2>1, <2>4 DEF Grows
  <2> HIDE DEF Settled, Feed
  <2>6. base'[v] <= Settled(v)' /\ Grows(Feed(v)', base'[v], Settled(v)')
    BY <2>1, <2>2, <2>3, <2>5
  <2> QED
    BY <2>1, <2>6 DEF FeedIsSettled, Grows
<1> QED
  BY <1>3, <1>4, <1>5 DEF FeedInv

\* A record that is being broadcast is not settled for the registered viewers,
\* and is at once for the others.
LEMMA BroadcastKeepsFeeds ==
  ASSUME IInv, IInv', FeedInv, NEW s \in Streams, NEW kind \in {"record", "error"},
         BeginBroadcast(s, kind)
  PROVE  FeedInv'
<1>1. /\ UNCHANGED <<source, base, got, queue, subscribers>>
      /\ ~Locked
      /\ published' = [published EXCEPT ![s] = published[s] + 1]
      /\ published[s] \in Nat
  BY DEF BeginBroadcast, joinVars, channelVars, registerVars, IInv, TypeOK
<1>2. /\ Locked' => sending'.entry.n = published[s] + 1 /\ sending'.stream = s
      /\ sending'.left = subscribers[s]
  BY DEF BeginBroadcast, Locked, NotSending
<1>3. EntryIsNewest'
  BY <1>1, <1>2 DEF EntryIsNewest, IInv, TypeOK
<1>4. ASSUME NEW w \in Viewers
      PROVE  FeedIsSettled(w)'
  <2>1. ASSUME source[w] # None
        PROVE  Settled(w) <= Settled(w)'
    <3>1. /\ Settled(w) = published[source[w]] /\ source[w] \in Streams
          /\ published[source[w]] \in Nat
      BY <1>1, <2>1, SettledWhenFree, FeedType DEF IInv
    <3>2. w \in sending'.left => source[w] = s
      BY <1>2 DEF IInv, RegisteredCanReceive
    <3>3. Settled(w)' = published'[source[w]] - (IF w \in sending'.left THEN 1 ELSE 0)
      BY <1>1 DEF Settled
    <3>4. published'[source[w]] =
            IF source[w] = s THEN published[s] + 1 ELSE published[source[w]]
      <4>1. published \in [Streams -> Nat]
        BY DEF IInv, TypeOK
      <4> QED
        BY <1>1, <3>1, <4>1
    <3> HIDE DEF Settled
    <3> QED
      BY <1>1, <3>1, <3>2, <3>3, <3>4
  <2> QED
    BY <1>1, <2>1, FeedStays DEF FeedInv, IInv
<1> QED
  BY <1>3, <1>4 DEF FeedInv

\* An entry at the end of a queue is at the end of the feed.
LEMMA QueuedAtEnd ==
  ASSUME TypeOK, NEW v \in Viewers, NEW e \in Entry,
         queue' = [queue EXCEPT ![v] = Append(queue[v], e)], UNCHANGED got
  PROVE  /\ Feed(v)' = Append(Feed(v), e)
         /\ \A w \in Viewers \ {v} : queue'[w] = queue[w]
<1>1. got[v] \o Append(queue[v], e) = Append(got[v] \o queue[v], e)
  BY FeedType, FeedOfAppend
<1>2. queue'[v] = Append(queue[v], e)
  BY DEF TypeOK
<1> QED
  BY <1>1, <1>2 DEF Feed, TypeOK

LEMMA NoticeKeepsFeeds ==
  ASSUME IInv, IInv', FeedInv, NEW v \in Viewers, OfferNotice(v)
  PROVE  FeedInv'
<1>1. /\ UNCHANGED <<source, base, got, published>>
      /\ sending'.left = sending.left /\ sending'.entry = sending.entry
      /\ sending'.stream = sending.stream /\ Locked /\ v \in sending.left
  <2>1. sending \in Broadcast /\ Locked
    BY ServingIsBroadcast DEF IInv, OfferNotice
  <2> QED
    BY <2>1 DEF OfferNotice, Broadcast, joinVars, ringVars, Serving
<1>2. EntryIsNewest'
  BY <1>1 DEF FeedInv, EntryIsNewest
<1>3. ASSUME NEW w \in Viewers, queue'[w] = queue[w]
      PROVE  FeedIsSettled(w)'
  <2>1. source[w] # None => Settled(w) \in Int /\ Settled(w)' = Settled(w)
    BY <1>1, FeedType DEF Settled, IInv
  <2>2. source[w] # None => Settled(w) <= Settled(w)'
    BY <2>1
  <2> QED
    BY <1>1, <1>3, <2>2, FeedStays DEF FeedInv, IInv
<1>4. CASE HasRoom(v)
  <2>1. Notice(v) \in Entry /\ Notice(v).kind = "dropped"
    BY DEF IInv, TypeOK, Notice, Entry
  <2>2. queue' = [queue EXCEPT ![v] = Append(queue[v], Notice(v))]
    BY <1>4 DEF OfferNotice
  <2>3. /\ Feed(v)' = Append(Feed(v), Notice(v))
        /\ \A w \in Viewers \ {v} : queue'[w] = queue[w]
    BY <1>1, <2>1, <2>2, QueuedAtEnd DEF IInv
  <2>4. FeedIsSettled(v)'
    <3>1. source[v] # None
      <4>1. v \in subscribers[sending.stream] /\ sending.stream \in Streams
        BY <1>1, ServingIsBroadcast
        DEF IInv, BroadcastServesRegistered, OfferNotice
      <4> QED
        BY <4>1, ConstantsAssumption DEF IInv, RegisteredCanReceive
    <3>2. base[v] <= Settled(v) /\ Grows(Feed(v), base[v], Settled(v))
      BY <3>1 DEF FeedInv, FeedIsSettled
    <3>3. Settled(v)' = Settled(v)
      BY <1>1 DEF Settled
    <3>4. Feed(v) \in Seq(Entry)
      BY FeedType DEF IInv
    <3> HIDE DEF Settled, Feed
    <3>5. Grows(Append(Feed(v), Notice(v)), base[v], Settled(v))
      BY <2>1, <3>2, <3>4, GrowsWithNotice
    <3>6. base'[v] <= Settled(v)' /\ Grows(Feed(v)', base'[v], Settled(v)')
      BY <1>1, <2>3, <3>2, <3>3, <3>5
    <3> QED
      BY <1>1, <3>1, <3>6 DEF FeedIsSettled, Grows
  <2> QED
    BY <1>2, <1>3, <2>3, <2>4 DEF FeedInv
<1>5. CASE ~HasRoom(v)
  <2>1. queue' = queue
    BY <1>5 DEF OfferNotice
  <2> QED
    BY <1>2, <1>3, <2>1 DEF FeedInv
<1> QED
  BY <1>4, <1>5

\* The record of a broadcast is the next one of the feed; sent or dropped, it
\* is settled for the viewer from then on.
LEMMA RecordKeepsFeeds ==
  ASSUME IInv, IInv', FeedInv, NEW v \in Viewers, OfferRecord(v)
  PROVE  FeedInv'
<1>1. /\ UNCHANGED <<source, base, got, published>>
      /\ sending \in Broadcast /\ Locked /\ v \in sending.left
      /\ sending.entry \in Entry /\ sending.stream \in Streams
  BY ServingIsBroadcast DEF OfferRecord, joinVars, ringVars, IInv, Serving
<1>2. /\ sending'.left = sending.left \ {v}
      /\ Locked' => sending'.entry = sending.entry /\ sending'.stream = sending.stream
  BY DEF OfferRecord, Locked, NotSending
<1>3. EntryIsNewest'
  BY <1>1, <1>2 DEF FeedInv, EntryIsNewest
<1>4. ASSUME NEW w \in Viewers, queue'[w] = queue[w]
      PROVE  FeedIsSettled(w)'
  <2>1. ASSUME source[w] # None
        PROVE  Settled(w) <= Settled(w)'
    <3>1. /\ Settled(w) = published[source[w]] - (IF w \in sending.left THEN 1 ELSE 0)
          /\ Settled(w)' = published[source[w]] - (IF w \in sending'.left THEN 1 ELSE 0)
          /\ published[source[w]] \in Nat
      BY <1>1, <2>1, FeedType DEF Settled, IInv
    <3> HIDE DEF Settled
    <3> QED
      BY <1>2, <3>1
  <2> QED
    BY <1>1, <1>4, <2>1, FeedStays DEF FeedInv, IInv
<1>5. CASE HasRoom(v)
  <2>1. queue' = [queue EXCEPT ![v] = Append(queue[v], sending.entry)]
    BY <1>5 DEF OfferRecord
  <2>2. /\ Feed(v)' = Append(Feed(v), sending.entry)
        /\ \A w \in Viewers \ {v} : queue'[w] = queue[w]
    BY <1>1, <2>1, QueuedAtEnd DEF IInv
  <2>3. FeedIsSettled(v)'
    <3>1. source[v] = sending.stream /\ source[v] # None
      BY <1>1, ConstantsAssumption
      DEF IInv, BroadcastServesRegistered, RegisteredCanReceive
    <3>2. base[v] <= Settled(v) /\ Grows(Feed(v), base[v], Settled(v))
      BY <3>1 DEF FeedInv, FeedIsSettled
    <3>3. /\ Settled(v) = published[source[v]] - 1
          /\ Settled(v)' = published[source[v]]
          /\ published[source[v]] \in Nat /\ base[v] \in Nat /\ Feed(v) \in Seq(Entry)
      BY <1>1, <1>2, <3>1, FeedType DEF Settled, IInv
    <3>4. sending.entry.n = published[source[v]]
      BY <1>1, <3>1 DEF FeedInv, EntryIsNewest
    <3> HIDE DEF Settled, Feed
    <3>5. Settled(v)' = Settled(v) + 1 /\ sending.entry.n = Settled(v) + 1
          /\ Settled(v) \in Int
      BY <3>3, <3>4
    <3>6. Grows(Append(Feed(v), sending.entry), base[v], Settled(v) + 1)
      BY <1>1, <3>2, <3>3, <3>5, GrowsWithNext
    <3>7. base'[v] <= Settled(v)' /\ Grows(Feed(v)', base'[v], Settled(v)')
      BY <1>1, <2>2, <3>2, <3>3, <3>5, <3>6
    <3> QED
      BY <1>1, <3>1, <3>7 DEF FeedIsSettled, Grows
  <2> QED
    BY <1>3, <1>4, <2>2, <2>3 DEF FeedInv
<1>6. CASE ~HasRoom(v)
  <2>1. queue' = queue
    BY <1>6 DEF OfferRecord
  <2> QED
    BY <1>3, <1>4, <2>1 DEF FeedInv
<1> QED
  BY <1>5, <1>6

\* What the handler takes from the channel stays in the feed.
LEMMA ReceiveKeepsFeeds ==
  ASSUME IInv, IInv', FeedInv, NEW v \in Viewers, Receive(v)
  PROVE  FeedInv'
<1>1. /\ UNCHANGED <<source, base, published, sending>>
      /\ queue' = [queue EXCEPT ![v] = Tail(queue[v])]
      /\ got' = [got EXCEPT ![v] = Append(got[v], Head(queue[v]))]
      /\ queue[v] # <<>>
  BY DEF Receive, joinVars, ringVars, sendVars
<1>2. EntryIsNewest'
  BY <1>1 DEF FeedInv, EntryIsNewest, Locked
<1>3. ASSUME NEW w \in Viewers \ {v}
      PROVE  FeedIsSettled(w)'
  <2>1. got'[w] = got[w] /\ queue'[w] = queue[w]
    BY <1>1 DEF IInv, TypeOK
  <2>2. source[w] # None => Settled(w) \in Int /\ Settled(w)' = Settled(w)
    BY <1>1, FeedType DEF Settled, IInv
  <2>3. source[w] # None => Settled(w) <= Settled(w)'
    BY <2>2
  <2> QED
    BY <1>1, <2>1, <2>3, FeedStays DEF FeedInv, IInv
<1>4. FeedIsSettled(v)'
  <2>1. source[v] # None
    BY <1>1 DEF FeedInv, FeedIsSettled
  <2>2. base[v] <= Settled(v) /\ Grows(Feed(v), base[v], Settled(v))
    BY <2>1 DEF FeedInv, FeedIsSettled
  <2>3. Feed(v)' = Feed(v)
    <3>1. got'[v] = Append(got[v], Head(queue[v])) /\ queue'[v] = Tail(queue[v])
      BY <1>1 DEF IInv, TypeOK
    <3>2. Append(got[v], Head(queue[v])) \o Tail(queue[v]) = got[v] \o queue[v]
      BY <1>1, FeedType, FeedOfReceive DEF IInv
    <3> QED
      BY <3>1, <3>2 DEF Feed
  <2>4. Settled(v)' = Settled(v)
    BY <1>1 DEF Settled
  <2> HIDE DEF Settled, Feed
  <2> QED
    BY <1>1, <2>1, <2>2, <2>3, <2>4 DEF FeedIsSettled, Grows
<1> QED
  BY <1>2, <1>3, <1>4 DEF FeedInv

LEMMA NextFeedInv == IInv /\ IInv' /\ FeedInv /\ [Next]_vars => FeedInv'
<1> SUFFICES ASSUME IInv, IInv', FeedInv, [Next]_vars PROVE FeedInv'
  OBVIOUS
<1> USE DEF ringVars, joinVars, channelVars, sendVars
<1>1. ASSUME UNCHANGED <<source, base, got, queue, published, sending>>
      PROVE  FeedInv'
  BY <1>1, FeedsStay DEF IInv
<1>2. ASSUME NEW v \in Viewers, Viewer(v)
      PROVE  FeedInv'
  <2>1. CASE RefuseSubscribe(v) \/ SeeEnd(v) \/ Disconnect(v) \/ Unsubscribe(v)
    BY <1>1, <2>1 DEF RefuseSubscribe, SeeEnd, Disconnect, Unsubscribe
  <2> QED
    BY <1>2, <2>1, ReplayIsSettled, ReceiveKeepsFeeds, NoticeKeepsFeeds,
       RecordKeepsFeeds
    DEF Viewer
<1>3. ASSUME NEW s \in Streams, Upstream(s)
      PROVE  FeedInv'
  <2>1. CASE BroadcastRecord(s) \/ BroadcastError(s)
    BY <2>1, BroadcastKeepsFeeds DEF BroadcastRecord, BroadcastError
  <2>2. CASE CloseStream(s)
    BY <1>1, <2>2 DEF CloseStream, RunEnds
  <2>3. CASE Emit(s) \/ ProviderReturns(s) \/ SkipRecord(s) \/ TimerFires(s)
             \/ StopIfUnused(s)
    BY <1>1, <2>3 DEF Emit, ProviderReturns, SkipRecord, TimerFires, StopIfUnused
  <2> QED
    BY <1>3, <2>1, <2>2, <2>3 DEF Upstream
<1>4. CASE UNCHANGED vars
  BY <1>1, <1>4 DEF vars
<1> QED
  BY <1>2, <1>3, <1>4 DEF Next

LEMMA InitFeedInv == Init => FeedInv
BY DEF Init, FeedInv, EntryIsNewest, FeedIsSettled, Locked

\* Every viewer's feed is in order, without repetition and within its replay
\* window, through every interleaving of joins, broadcasts, drops, receptions
\* and departures (manager.go:72-82, 165-190).
THEOREM FeedsAreOrdered == Spec => []OrderedFeed
<1>1. IInv /\ FeedInv => OrderedFeed
  <2> SUFFICES ASSUME IInv, FeedInv, NEW v \in Viewers,
                      NEW i \in 1 .. Len(Feed(v)), NEW j \in 1 .. Len(Feed(v)),
                      Feed(v)[i].kind # "dropped"
               PROVE  /\ Feed(v)[i].n > base[v]
                      /\ i < j /\ Feed(v)[j].kind # "dropped" =>
                           Feed(v)[i].n < Feed(v)[j].n
    BY DEF OrderedFeed
  <2>1. CASE source[v] = None
    <3>1. Feed(v) = <<>>
      BY <2>1 DEF FeedInv, FeedIsSettled, Feed
    <3> QED
      BY <3>1
  <2>2. CASE source[v] # None
    <3>1. Grows(Feed(v), base[v], Settled(v)) /\ base[v] \in Nat
          /\ Feed(v) \in Seq(Entry)
      BY <2>2, FeedType DEF FeedInv, FeedIsSettled, IInv
    <3> HIDE DEF Feed
    <3>2. Feed(v)[i] \in Entry
      BY <3>1
    <3>3. Feed(v)[i].n \in Nat
      BY <3>2 DEF Entry
    <3> QED
      BY <3>1, <3>3 DEF Grows
  <2> QED
    BY <2>1, <2>2
<1> QED
  BY <1>1, InitFeedInv, NextFeedInv, AlwaysIInv, PTL DEF Spec

-----------------------------------------------------------------------------
(* The count of a feed.                                                     *)
(*                                                                          *)
(* StandsFor adds up the entries of a feed with a recursive function.  What *)
(* it returns is had from the least place at which two counts would differ, *)
(* or no count would exist.                                                 *)

\* f counts what the first entries of a feed stand for.
Counts(feed, n, f) ==
  f = [i \in 0 .. n |-> IF i = 0 THEN 0 ELSE f[i - 1] + Weight(feed[i])]

\* The first n entries of two feeds are the same.
Agree(n, feed, other) == \A i \in 1 .. n : feed[i] = other[i]

LEMMA WeightType == ASSUME NEW e \in Entry PROVE Weight(e) \in Nat
BY DEF Entry, Weight

\* The number of records is counted from one entry to the next.
LEMMA CountsStep ==
  ASSUME NEW feed, NEW n \in Nat, NEW f, Counts(feed, n, f)
  PROVE  /\ DOMAIN f = 0 .. n /\ f[0] = 0
         /\ \A i \in 1 .. n : f[i] = f[i - 1] + Weight(feed[i])
<1>1. f = [i \in 0 .. n |-> IF i = 0 THEN 0 ELSE f[i - 1] + Weight(feed[i])]
  BY DEF Counts
<1>2. 0 \in 0 .. n /\ \A i \in 1 .. n : i \in 0 .. n /\ i # 0
  OBVIOUS
<1> QED
  BY <1>1, <1>2

\* It is the same for two feeds as long as their entries are.
LEMMA CountsAgree ==
  ASSUME NEW n \in Nat, NEW m \in Nat, n <= m,
         NEW feed, NEW other, Agree(n, feed, other),
         NEW f, Counts(feed, n, f), NEW g, Counts(other, m, g)
  PROVE  f[n] = g[n]
<1> DEFINE apart == {i \in 0 .. n : f[i] # g[i]}
<1>1. SUFFICES ASSUME apart # {} PROVE FALSE
  OBVIOUS
<1>2. PICK i \in apart : \A j \in apart : i <= j
  <2>1. apart \in SUBSET Nat
    OBVIOUS
  <2> HIDE DEF apart
  <2> QED
    BY <1>1, <2>1, LeastExists
<1>3. i \in 1 .. n
  <2>1. f[0] = 0 /\ g[0] = 0
    BY CountsStep
  <2> QED
    BY <1>2, <2>1
<1>4. i - 1 \in 0 .. n /\ i \in 1 .. m /\ ~(i <= i - 1)
  BY <1>3
<1>5. f[i - 1] = g[i - 1]
  BY <1>2, <1>4
<1>6. f[i] = f[i - 1] + Weight(feed[i]) /\ g[i] = g[i - 1] + Weight(other[i])
  BY <1>3, <1>4, CountsStep
<1> QED
  BY <1>2, <1>3, <1>5, <1>6 DEF Agree

\* The records of every feed can be counted.
LEMMA CountsExist ==
  ASSUME NEW feed \in Seq(Entry), NEW n \in 0 .. Len(feed)
  PROVE  \E f \in [0 .. n -> Nat] : Counts(feed, n, f)
<1> DEFINE Counted(k) == \E f \in [0 .. k -> Nat] : Counts(feed, k, f)
           missing == {k \in 0 .. Len(feed) : ~Counted(k)}
<1>1. SUFFICES ASSUME missing # {} PROVE FALSE
  OBVIOUS
<1>2. PICK k \in missing : \A j \in missing : k <= j
  <2>1. missing \in SUBSET Nat
    OBVIOUS
  <2> HIDE DEF missing
  <2> QED
    BY <1>1, <2>1, LeastExists
<1>3. CASE k = 0
  <2>1. [i \in 0 .. 0 |-> 0] \in [0 .. 0 -> Nat] /\ Counts(feed, 0, [i \in 0 .. 0 |-> 0])
    BY DEF Counts
  <2> QED
    BY <1>2, <1>3, <2>1
<1>4. CASE k # 0
  <2>1. k - 1 \in 0 .. Len(feed) /\ k \in 1 .. Len(feed) /\ ~(k <= k - 1)
    BY <1>2, <1>4
  <2>2. Counted(k - 1)
    BY <1>2, <2>1
  <2>3. PICK f \in [0 .. k - 1 -> Nat] : Counts(feed, k - 1, f)
    BY <2>2
  <2> DEFINE g == [i \in 0 .. k |-> IF i = k THEN f[k - 1] + Weight(feed[k]) ELSE f[i]]
  <2>4. feed[k] \in Entry
    BY <2>1
  <2>5. g \in [0 .. k -> Nat]
    <3>1. Weight(feed[k]) \in Nat /\ k - 1 \in 0 .. k - 1
      BY <2>1, <2>4, WeightType
    <3>2. f[k - 1] + Weight(feed[k]) \in Nat
      BY <2>3, <3>1
    <3>3. \A i \in 0 .. k : i # k => i \in 0 .. k - 1
      BY <2>1
    <3>4. \A i \in 0 .. k : i # k => f[i] \in Nat
      BY <2>3, <3>3
    <3> QED
      BY <3>2, <3>4
  <2>6. \A i \in 0 .. k : g[i] = IF i = 0 THEN 0 ELSE g[i - 1] + Weight(feed[i])
    <3>1. f[0] = 0 /\ \A i \in 1 .. k - 1 : f[i] = f[i - 1] + Weight(feed[i])
      <4>1. k - 1 \in Nat
        BY <2>1
      <4> HIDE DEF g
      <4> QED
        BY <2>3, <4>1, CountsStep
    <3>2. ASSUME NEW i \in 0 .. k
          PROVE  g[i] = IF i = 0 THEN 0 ELSE g[i - 1] + Weight(feed[i])
      <4>1. CASE i = 0
        BY <2>1, <3>1, <4>1
      <4>2. CASE i = k
        <5>1. i # 0 /\ i - 1 \in 0 .. k /\ i - 1 # k
          BY <2>1, <4>2
        <5> QED
          BY <4>2, <5>1
      <4>3. CASE i # 0 /\ i # k
        <5>1. i \in 1 .. k - 1 /\ i - 1 \in 0 .. k /\ i - 1 # k
          BY <2>1, <4>3
        <5> QED
          BY <3>1, <4>3, <5>1
      <4> QED
        BY <4>1, <4>2, <4>3
    <3> QED
      BY <3>2
  <2>7. Counts(feed, k, g)
    <3>1. g = [i \in 0 .. k |-> g[i]]
      OBVIOUS
    <3> HIDE DEF g
    <3>2. [i \in 0 .. k |-> g[i]] = [i \in 0 .. k |-> IF i = 0 THEN 0 ELSE g[i - 1] + Weight(feed[i])]
      BY <2>6
    <3> QED
      BY <3>1, <3>2 DEF Counts
  <2>8. Counted(k)
    BY <2>5, <2>7
  <2> QED
    BY <1>2, <2>8
<1> QED
  BY <1>3, <1>4

\* What a feed stands for is the last of its counts.
LEMMA StandsForCounts ==
  ASSUME NEW feed \in Seq(Entry)
  PROVE  \E f \in [0 .. Len(feed) -> Nat] : Counts(feed, Len(feed), f) /\ StandsFor(feed) = f[Len(feed)]
<1> DEFINE n == Len(feed)
           h == CHOOSE f : Counts(feed, n, f)
<1>1. n \in Nat /\ n \in 0 .. n
  OBVIOUS
<1>2. PICK f \in [0 .. n -> Nat] : Counts(feed, n, f)
  BY <1>1, CountsExist
<1>3. Counts(feed, n, h)
  BY <1>2
<1>4. StandsFor(feed) = h[n]
  BY DEF StandsFor, Counts
<1> HIDE DEF h
<1>5. Agree(n, feed, feed)
  BY DEF Agree
<1>6. h[n] = f[n]
  BY <1>1, <1>2, <1>3, <1>5, CountsAgree
<1> QED
  BY <1>2, <1>4, <1>6

\* An entry more stands for its records more.
LEMMA StandsForMore ==
  ASSUME NEW feed \in Seq(Entry), NEW e \in Entry
  PROVE  StandsFor(Append(feed, e)) = StandsFor(feed) + Weight(e)
<1> DEFINE more == Append(feed, e)
           n == Len(feed)
<1>1. /\ more \in Seq(Entry) /\ Len(more) = n + 1 /\ n \in Nat /\ more[n + 1] = e
      /\ \A i \in 1 .. n : more[i] = feed[i]
  BY AppendProperties
<1> HIDE DEF more
<1>2. PICK f \in [0 .. n -> Nat] : Counts(feed, n, f) /\ StandsFor(feed) = f[n]
  BY StandsForCounts
<1>3. PICK g \in [0 .. Len(more) -> Nat] :
        Counts(more, Len(more), g) /\ StandsFor(more) = g[Len(more)]
  BY <1>1, StandsForCounts
<1> HIDE DEF n
<1>4. g[n + 1] = g[n] + Weight(e)
  <2>1. n + 1 \in Nat /\ n + 1 \in 1 .. n + 1 /\ (n + 1) - 1 = n
    BY <1>1
  <2>2. g[n + 1] = g[(n + 1) - 1] + Weight(more[n + 1])
    BY <1>1, <1>3, <2>1, CountsStep
  <2> QED
    BY <1>1, <2>1, <2>2
<1>5. g[n] = f[n]
  <2> DEFINE m == Len(more)
  <2>1. n \in Nat /\ m \in Nat /\ n <= m
    BY <1>1
  <2>2. Counts(feed, n, f) /\ Counts(more, m, g)
    BY <1>2, <1>3
  <2>3. Agree(n, feed, more)
    BY <1>1 DEF Agree
  <2> HIDE DEF m
  <2>4. f[n] = g[n]
    BY <2>1, <2>2, <2>3, CountsAgree
  <2> QED
    BY <2>4
<1> QED
  BY <1>1, <1>2, <1>3, <1>4, <1>5 DEF more

\* A feed without notices stands for as many records as it has entries.
LEMMA StandsForRecords ==
  ASSUME NEW feed \in Seq(Entry), \A i \in 1 .. Len(feed) : feed[i].kind # "dropped"
  PROVE  StandsFor(feed) = Len(feed)
<1> DEFINE n == Len(feed)
           g == [i \in 0 .. n |-> i]
<1>1. n \in Nat
  OBVIOUS
<1>2. PICK f \in [0 .. n -> Nat] : Counts(feed, n, f) /\ StandsFor(feed) = f[n]
  BY StandsForCounts
<1>3. Counts(feed, n, g)
  <2>1. \A i \in 1 .. n : Weight(feed[i]) = 1
    BY DEF Weight
  <2> HIDE DEF n
  <2>2. \A i \in 0 .. n : i = IF i = 0 THEN 0 ELSE g[i - 1] + Weight(feed[i])
    <3>1. ASSUME NEW i \in 0 .. n, i # 0
          PROVE  i = g[i - 1] + Weight(feed[i])
      <4>1. i \in 1 .. n /\ i - 1 \in 0 .. n
        BY <1>1, <3>1
      <4>2. g[i - 1] = i - 1
        BY <4>1
      <4> QED
        BY <1>1, <2>1, <4>1, <4>2
    <3> QED
      BY <3>1
  <2>3. g = [i \in 0 .. n |-> IF i = 0 THEN 0 ELSE g[i - 1] + Weight(feed[i])]
    BY <2>2
  <2> QED
    BY <2>3 DEF Counts
<1>4. g[n] = n
  BY <1>1
<1> HIDE DEF g, n
<1>5. Agree(n, feed, feed)
  BY DEF Agree
<1>6. f[n] = g[n]
  BY <1>1, <1>2, <1>3, <1>5, CountsAgree
<1> QED
  BY <1>2, <1>4, <1>6 DEF n

\* It is a number.
LEMMA StandsForType ==
  ASSUME NEW feed \in Seq(Entry)
  PROVE  StandsFor(feed) \in Nat
<1>1. Len(feed) \in 0 .. Len(feed)
  OBVIOUS
<1> QED
  BY <1>1, StandsForCounts

-----------------------------------------------------------------------------
(* The reckoning of a viewer.  A replay and a broadcast consist of records, *)
(* and a viewer that has not joined has missed nothing.                     *)

NoticesAreApart ==
  /\ \A s \in Streams : \A i \in 1 .. Len(ring[s]) : ring[s][i].kind # "dropped"
  /\ Locked => sending.entry.kind # "dropped"

NothingMissedBefore == \A v \in Viewers : source[v] = None => dropped[v] = 0

Accounted(v, s) == Owed(v, s) = dropped[v] + StandsFor(Feed(v))

CountInv == NoticesAreApart /\ NothingMissedBefore /\ EveryRecordAccounted

\* What a registered viewer is registered with.
LEMMA RegisteredFacts ==
  ASSUME IInv, NEW s \in Streams, NEW v \in subscribers[s]
  PROVE  /\ v \in Viewers /\ source[v] = s /\ s # None
         /\ published[s] \in Nat /\ base[v] \in Nat /\ dropped[v] \in Nat
         /\ Feed(v) \in Seq(Entry) /\ StandsFor(Feed(v)) \in Nat
<1>1. v \in Viewers /\ source[v] = s /\ s # None
  BY ConstantsAssumption DEF IInv, TypeOK, RegisteredCanReceive
<1>2. Feed(v) \in Seq(Entry) /\ base[v] \in Nat
  BY <1>1, FeedType DEF IInv
<1>3. StandsFor(Feed(v)) \in Nat
  BY <1>2, StandsForType
<1> QED
  BY <1>1, <1>2, <1>3 DEF IInv, TypeOK

\* A step that leaves a viewer alone and publishes nothing keeps its account.
LEMMA AccountStays ==
  ASSUME NEW v \in Viewers, NEW s \in Streams, Accounted(v, s),
         published'[s] = published[s], base'[v] = base[v], dropped'[v] = dropped[v],
         got'[v] = got[v], queue'[v] = queue[v],
         v \in sending'.left <=> v \in sending.left
  PROVE  Accounted(v, s)'
<1>1. Feed(v)' = Feed(v)
  BY DEF Feed
<1>2. StandsFor(Feed(v)) = StandsFor(Feed(v)')
  BY <1>1
<1>3. Owed(v, s)' = Owed(v, s)
  BY DEF Owed
<1> HIDE DEF Owed
<1>4. (dropped[v] + StandsFor(Feed(v)))' = dropped'[v] + StandsFor(Feed(v)')
  BY DEF StandsFor, Weight, Feed
<1> QED
  BY <1>2, <1>3, <1>4 DEF Accounted

\* The replay accounts for every record from the base up.
LEMMA ReplayIsAccounted ==
  ASSUME IInv, FeedInv, CountInv, NEW v \in Viewers, NEW k \in Keys, Subscribe(v, k)
  PROVE  CountInv'
<1>1. PICK s \in Streams :
        /\ source' = [source EXCEPT ![v] = s]
        /\ queue' = [queue EXCEPT ![v] = ring[s]]
        /\ base' = [base EXCEPT ![v] = published[s] - Len(ring[s])]
        /\ subscribers' = [subscribers EXCEPT ![s] = @ \cup {v}]
  BY DEF Subscribe
<1>2. /\ UNCHANGED <<ring, got, dropped, published, sending>>
      /\ ~Locked /\ source[v] = None
  BY DEF Subscribe, ringVars, sendVars, IInv, IdleIsFresh
<1>3. NoticesAreApart'
  BY <1>2 DEF CountInv, NoticesAreApart, Locked
<1>4. NothingMissedBefore'
  BY <1>1, <1>2, ConstantsAssumption DEF CountInv, NothingMissedBefore, IInv, TypeOK
<1>5. ASSUME NEW r \in Streams, NEW w \in subscribers'[r]
      PROVE  Accounted(w, r)'
  <2>1. CASE w = v
    <3>1. r = s
      <4>1. v \notin subscribers[r]
        BY <1>2, RegisteredFacts
      <4> QED
        BY <1>1, <1>5, <2>1, <4>1 DEF IInv, TypeOK
    <3>2. ring[s] \in Seq(Entry) /\ published[s] \in Nat /\ Len(ring[s]) \in Nat
      BY DEF IInv, TypeOK
    <3>3. /\ queue'[v] = ring[s] /\ base'[v] = published[s] - Len(ring[s])
          /\ got'[v] = <<>> /\ dropped'[v] = 0 /\ v \notin sending'.left
      BY <1>1, <1>2
      DEF IInv, TypeOK, FeedInv, FeedIsSettled, CountInv, NothingMissedBefore, Locked, NotSending
    <3>4. Feed(v)' = ring[s]
      BY <3>2, <3>3, ConcatEmptySeq DEF Feed
    <3>5. StandsFor(ring[s]) = Len(ring[s])
      BY <3>2, StandsForRecords DEF CountInv, NoticesAreApart
    <3>6. Owed(v, s)' = Len(ring[s])
      BY <1>2, <3>2, <3>3 DEF Owed
    <3>7. StandsFor(Feed(v)') = Len(ring[s])
      BY <3>4, <3>5
    <3> QED
      BY <2>1, <3>1, <3>2, <3>3, <3>6, <3>7 DEF Accounted
  <2>2. CASE w # v
    <3>1. w \in subscribers[r]
      BY <1>1, <1>5, <2>2 DEF IInv, TypeOK
    <3>2. w \in Viewers /\ Accounted(w, r)
      BY <3>1, RegisteredFacts DEF CountInv, EveryRecordAccounted, Accounted
    <3>3. base'[w] = base[w] /\ queue'[w] = queue[w]
      BY <1>1, <2>2, <3>2 DEF IInv, TypeOK
    <3> QED
      BY <1>2, <3>2, <3>3, AccountStays
  <2> QED
    BY <2>1, <2>2
<1>6. EveryRecordAccounted'
  BY <1>5 DEF EveryRecordAccounted, Accounted
<1> QED
  BY <1>3, <1>4, <1>6 DEF CountInv

\* A record that is broadcast is owed to a registered viewer only when its turn
\* has come.
LEMMA BroadcastKeepsAccounts ==
  ASSUME IInv, CountInv, NEW s \in Streams, NEW kind \in {"record", "error"},
         BeginBroadcast(s, kind)
  PROVE  CountInv'
<1>1. PICK e \in Entry :
        /\ e.kind = kind
        /\ ring' = [ring EXCEPT ![s] = RingAppend(ring[s], e)]
        /\ sending' = IF subscribers[s] = {} THEN NotSending
                      ELSE [stream |-> s, entry |-> e, left |-> subscribers[s], noticed |-> {}]
  <2> DEFINE e == [kind |-> kind, n |-> published[s] + 1, count |-> 0,
                   seq |-> IF kind = "record" \/ NumbersErrors THEN sequence + 1 ELSE 0]
  <2>1. e \in Entry /\ e.kind = kind
    BY DEF IInv, TypeOK, Entry
  <2>2. /\ ring' = [ring EXCEPT ![s] = RingAppend(ring[s], e)]
        /\ sending' = IF subscribers[s] = {} THEN NotSending
                      ELSE [stream |-> s, entry |-> e, left |-> subscribers[s], noticed |-> {}]
    BY DEF BeginBroadcast
  <2> QED
    BY <2>1, <2>2
<1>2. /\ UNCHANGED <<source, base, got, queue, dropped, subscribers>>
      /\ ~Locked
      /\ published' = [published EXCEPT ![s] = published[s] + 1]
      /\ published \in [Streams -> Nat]
  BY DEF BeginBroadcast, joinVars, channelVars, registerVars, IInv, TypeOK
<1>3. NoticesAreApart'
  <2>1. ring[s] \in Seq(Entry) /\ Len(ring[s]) <= RingSize /\ ring \in [Streams -> Seq(Entry)]
    <3>1. ring \in [Streams -> Seq(Entry)] /\ published[s] \in Nat
      BY DEF IInv, TypeOK
    <3>2. Len(ring[s]) <= RingSize
      BY <3>1, ConstantsAssumption DEF IInv, RingIsRecent
    <3> QED
      BY <3>1, <3>2
  <2>2. \A i \in 1 .. Len(ring[s]) : ring[s][i].kind # "dropped"
    BY DEF CountInv, NoticesAreApart
  <2>3. \A i \in 1 .. Len(RingAppend(ring[s], e)) : RingAppend(ring[s], e)[i].kind # "dropped"
    <3>1. CASE Len(ring[s]) < RingSize
      <4>1. /\ Len(RingAppend(ring[s], e)) = Len(ring[s]) + 1 /\ Len(ring[s]) \in Nat
            /\ \A i \in 1 .. Len(ring[s]) : RingAppend(ring[s], e)[i] = ring[s][i]
            /\ RingAppend(ring[s], e)[Len(ring[s]) + 1] = e
        BY <2>1, <3>1, RingAppendShifts
      <4> QED
        BY <1>1, <2>2, <4>1
    <3>2. CASE Len(ring[s]) = RingSize
      <4>1. /\ Len(RingAppend(ring[s], e)) = RingSize /\ RingSize \in Nat
            /\ \A i \in 1 .. RingSize - 1 : RingAppend(ring[s], e)[i] = ring[s][i + 1]
            /\ RingAppend(ring[s], e)[RingSize] = e
        <5>1. RingSize \in Nat
          BY ConstantsAssumption
        <5> QED
          BY <2>1, <3>2, <5>1, RingAppendShifts
      <4>2. \A i \in 1 .. RingSize - 1 : i + 1 \in 1 .. Len(ring[s])
        BY <3>2, <4>1
      <4>3. \A i \in 1 .. RingSize : i = RingSize \/ i \in 1 .. RingSize - 1
        BY <4>1
      <4> QED
        BY <1>1, <2>2, <4>1, <4>2, <4>3
    <3> QED
      BY <2>1, <3>1, <3>2, ConstantsAssumption
  <2>4. \A r \in Streams : \A i \in 1 .. Len(ring'[r]) : ring'[r][i].kind # "dropped"
    BY <1>1, <2>1, <2>3 DEF CountInv, NoticesAreApart
  <2>5. Locked' => sending'.entry.kind # "dropped"
    BY <1>1 DEF Locked, NotSending
  <2> QED
    BY <2>4, <2>5 DEF NoticesAreApart
<1>4. NothingMissedBefore'
  BY <1>2 DEF CountInv, NothingMissedBefore
<1>5. ASSUME NEW r \in Streams, NEW w \in subscribers'[r]
      PROVE  Accounted(w, r)'
  <2>1. w \in subscribers[r]
    BY <1>2, <1>5
  <2>2. /\ w \in Viewers /\ source[w] = r /\ Accounted(w, r)
        /\ published[r] \in Nat /\ base[w] \in Nat
    BY <2>1, RegisteredFacts DEF CountInv, EveryRecordAccounted, Accounted
  <2>3. w \notin sending.left
    BY <1>2 DEF Locked, NotSending
  <2>4. CASE r = s
    <3>1. w \in sending'.left
      BY <1>1, <2>1, <2>4
    <3>2. published'[r] = published[r] + 1
      BY <1>2, <2>4
    <3>3. Owed(w, r)' = Owed(w, r)
      BY <1>2, <2>2, <2>3, <3>1, <3>2 DEF Owed
    <3>4. Feed(w)' = Feed(w)
      BY <1>2 DEF Feed
    <3>5. StandsFor(Feed(w)') = StandsFor(Feed(w))
      BY <3>4
    <3> QED
      BY <1>2, <2>2, <3>3, <3>5 DEF Accounted
  <2>5. CASE r # s
    <3>1. w \notin subscribers[s]
      BY <2>2, <2>5, RegisteredFacts
    <3>2. w \notin sending'.left
      BY <1>1, <3>1 DEF NotSending
    <3>3. published'[r] = published[r]
      BY <1>2, <2>5
    <3> QED
      BY <1>2, <2>2, <2>3, <3>2, <3>3, AccountStays
  <2> QED
    BY <2>4, <2>5
<1>6. EveryRecordAccounted'
  BY <1>5 DEF EveryRecordAccounted, Accounted
<1> QED
  BY <1>3, <1>4, <1>6 DEF CountInv

\* A notice stands for the records that dropped counted until then.
LEMMA NoticeKeepsAccounts ==
  ASSUME IInv, CountInv, NEW v \in Viewers, OfferNotice(v)
  PROVE  CountInv'
<1>1. /\ UNCHANGED <<source, base, got, published, ring, subscribers>>
      /\ sending'.left = sending.left /\ sending'.entry = sending.entry
      /\ Locked /\ v \in sending.left
  <2>1. sending \in Broadcast /\ Locked
    BY ServingIsBroadcast DEF IInv, OfferNotice
  <2> QED
    BY <2>1 DEF OfferNotice, Broadcast, joinVars, ringVars, registerVars, Serving
<1>2. NoticesAreApart'
  BY <1>1 DEF CountInv, NoticesAreApart
<1>3. /\ dropped' = [dropped EXCEPT ![v] = StillDropped(v)]
      /\ dropped \in [Viewers -> Nat]
  BY DEF OfferNotice, IInv, TypeOK
<1>4. NothingMissedBefore'
  BY <1>1, <1>3 DEF CountInv, NothingMissedBefore, StillDropped
<1>5. ASSUME NEW r \in Streams, NEW w \in subscribers'[r],
             queue'[w] = queue[w], dropped'[w] = dropped[w]
      PROVE  Accounted(w, r)'
  <2>1. w \in Viewers /\ Accounted(w, r)
    BY <1>1, <1>5, RegisteredFacts DEF CountInv, EveryRecordAccounted, Accounted
  <2> QED
    BY <1>1, <1>5, <2>1, AccountStays
<1>6. ASSUME NEW r \in Streams, NEW w \in subscribers'[r]
      PROVE  Accounted(w, r)'
  <2>1. w \in subscribers[r] /\ w \in Viewers
    BY <1>1, <1>6, RegisteredFacts
  <2>2. CASE w # v
    <3>1. dropped'[w] = dropped[w]
      BY <1>3, <2>1, <2>2
    <3>2. queue'[w] = queue[w]
      BY <2>1, <2>2 DEF OfferNotice, IInv, TypeOK
    <3> QED
      BY <1>5, <1>6, <3>1, <3>2
  <2>3. CASE w = v /\ ~HasRoom(v)
    <3>1. dropped'[w] = dropped[w] /\ queue' = queue
      BY <1>3, <2>1, <2>3 DEF OfferNotice, StillDropped
    <3> QED
      BY <1>5, <1>6, <3>1
  <2>4. CASE w = v /\ HasRoom(v)
    <3>1. /\ Notice(v) \in Entry /\ Weight(Notice(v)) = dropped[v]
      BY DEF IInv, TypeOK, Notice, Entry, Weight
    <3>2. queue' = [queue EXCEPT ![v] = Append(queue[v], Notice(v))]
      BY <2>4 DEF OfferNotice
    <3>3. Feed(v)' = Append(Feed(v), Notice(v))
      BY <1>1, <3>1, <3>2, QueuedAtEnd DEF IInv
    <3>4. /\ Accounted(v, r) /\ Feed(v) \in Seq(Entry)
          /\ StandsFor(Feed(v)) \in Nat /\ dropped[v] \in Nat
      BY <2>1, <2>4, RegisteredFacts DEF CountInv, EveryRecordAccounted, Accounted
    <3>5. StandsFor(Append(Feed(v), Notice(v))) = StandsFor(Feed(v)) + dropped[v]
      BY <3>1, <3>4, StandsForMore
    <3>6. StandsFor(Feed(v)') = StandsFor(Feed(v)) + dropped[v]
      BY <3>3, <3>5
    <3>7. Owed(v, r)' = Owed(v, r)
      BY <1>1 DEF Owed
    <3>8. dropped'[v] = 0
      BY <1>3, <2>4 DEF StillDropped
    <3> QED
      BY <2>4, <3>4, <3>6, <3>7, <3>8 DEF Accounted
  <2> QED
    BY <2>2, <2>3, <2>4
<1>7. EveryRecordAccounted'
  BY <1>6 DEF EveryRecordAccounted, Accounted
<1> QED
  BY <1>2, <1>4, <1>7 DEF CountInv

\* When its turn has come, a viewer is owed one record more: the one that is
\* queued for it or counted in dropped.
LEMMA RecordKeepsAccounts ==
  ASSUME IInv, CountInv, NEW v \in Viewers, OfferRecord(v)
  PROVE  CountInv'
<1>1. /\ UNCHANGED <<source, base, got, published, ring, subscribers>>
      /\ sending \in Broadcast /\ Locked /\ v \in sending.left
      /\ sending.entry \in Entry /\ sending.stream \in Streams
  BY ServingIsBroadcast
  DEF OfferRecord, joinVars, ringVars, registerVars, IInv, Serving
<1>2. /\ sending'.left = sending.left \ {v}
      /\ Locked' => sending'.entry = sending.entry
  BY DEF OfferRecord, Locked, NotSending
<1>3. NoticesAreApart'
  BY <1>1, <1>2 DEF CountInv, NoticesAreApart
<1>4. /\ dropped' = dropped \/ dropped' = [dropped EXCEPT ![v] = dropped[v] + 1]
      /\ dropped \in [Viewers -> Nat]
  BY DEF OfferRecord, IInv, TypeOK
<1>5. source[v] # None
  <2>1. v \in subscribers[sending.stream]
    BY <1>1 DEF IInv, BroadcastServesRegistered
  <2> QED
    BY <1>1, <2>1, RegisteredFacts
<1>6. NothingMissedBefore'
  BY <1>1, <1>4, <1>5 DEF CountInv, NothingMissedBefore
<1>7. ASSUME NEW r \in Streams, NEW w \in subscribers'[r]
      PROVE  Accounted(w, r)'
  <2>1. /\ w \in subscribers[r] /\ w \in Viewers /\ Accounted(w, r)
        /\ published[r] \in Nat /\ base[w] \in Nat /\ dropped[w] \in Nat
        /\ Feed(w) \in Seq(Entry) /\ StandsFor(Feed(w)) \in Nat
    BY <1>1, <1>7, RegisteredFacts DEF CountInv, EveryRecordAccounted, Accounted
  <2>2. CASE w # v
    <3>1. dropped'[w] = dropped[w]
      BY <1>4, <2>1, <2>2
    <3>2. queue'[w] = queue[w]
      BY <2>1, <2>2 DEF OfferRecord, IInv, TypeOK
    <3>3. w \in sending'.left <=> w \in sending.left
      BY <1>2, <2>2
    <3> QED
      BY <1>1, <2>1, <3>1, <3>2, <3>3, AccountStays
  <2>3. CASE w = v
    <3>1. Owed(v, r)' = Owed(v, r) + 1
      BY <1>1, <1>2, <2>1, <2>3 DEF Owed
    <3>2. dropped'[v] + StandsFor(Feed(v)') = dropped[v] + StandsFor(Feed(v)) + 1
      <4>1. CASE HasRoom(v)
        <5>1. /\ queue' = [queue EXCEPT ![v] = Append(queue[v], sending.entry)]
              /\ dropped' = dropped
          BY <4>1 DEF OfferRecord
        <5>2. Feed(v)' = Append(Feed(v), sending.entry)
          BY <1>1, <5>1, QueuedAtEnd DEF IInv
        <5>3. Weight(sending.entry) = 1
          BY <1>1 DEF CountInv, NoticesAreApart, Weight
        <5>4. StandsFor(Append(Feed(v), sending.entry)) = StandsFor(Feed(v)) + 1
          BY <1>1, <2>1, <2>3, <5>3, StandsForMore
        <5>5. StandsFor(Feed(v)') = StandsFor(Feed(v)) + 1
          BY <5>2, <5>4
        <5> QED
          BY <2>1, <2>3, <5>1, <5>5
      <4>2. CASE ~HasRoom(v)
        <5>1. dropped'[v] = dropped[v] + 1 /\ queue' = queue
          BY <4>2 DEF OfferRecord, IInv, TypeOK
        <5>2. Feed(v)' = Feed(v)
          BY <1>1, <5>1 DEF Feed
        <5>3. StandsFor(Feed(v)') = StandsFor(Feed(v))
          BY <5>2
        <5> QED
          BY <2>1, <2>3, <5>1, <5>3
      <4> QED
        BY <4>1, <4>2
    <3>3. Owed(v, r) = dropped[v] + StandsFor(Feed(v))
      BY <2>1, <2>3 DEF Accounted
    <3> QED
      BY <2>3, <3>1, <3>2, <3>3 DEF Accounted
  <2> QED
    BY <2>2, <2>3
<1>8. EveryRecordAccounted'
  BY <1>7 DEF EveryRecordAccounted, Accounted
<1> QED
  BY <1>3, <1>6, <1>8 DEF CountInv

\* What is received stays in the account.
LEMMA ReceiveKeepsAccounts ==
  ASSUME IInv, CountInv, NEW v \in Viewers, Receive(v)
  PROVE  CountInv'
<1>1. /\ UNCHANGED <<source, base, published, ring, subscribers, sending, dropped>>
      /\ queue' = [queue EXCEPT ![v] = Tail(queue[v])]
      /\ got' = [got EXCEPT ![v] = Append(got[v], Head(queue[v]))]
      /\ queue[v] # <<>>
  BY DEF Receive, joinVars, ringVars, registerVars, sendVars
<1>2. NoticesAreApart' /\ NothingMissedBefore'
  BY <1>1 DEF CountInv, NoticesAreApart, NothingMissedBefore, Locked
<1>3. ASSUME NEW w \in Viewers
      PROVE  Feed(w)' = Feed(w)
  <2>1. CASE w = v
    <3>1. got[v] \in Seq(Entry) /\ queue[v] \in Seq(Entry)
      BY DEF IInv, TypeOK
    <3>2. Append(got[v], Head(queue[v])) \o Tail(queue[v]) = got[v] \o queue[v]
      BY <1>1, <3>1, FeedOfReceive
    <3>3. got'[v] = Append(got[v], Head(queue[v])) /\ queue'[v] = Tail(queue[v])
      BY <1>1 DEF IInv, TypeOK
    <3> QED
      BY <2>1, <3>2, <3>3 DEF Feed
  <2>2. CASE w # v
    BY <1>1, <2>2 DEF Feed, IInv, TypeOK
  <2> QED
    BY <2>1, <2>2
<1>4. ASSUME NEW r \in Streams, NEW w \in subscribers'[r]
      PROVE  Accounted(w, r)'
  <2>1. w \in Viewers /\ Accounted(w, r)
    BY <1>1, <1>4, RegisteredFacts DEF CountInv, EveryRecordAccounted, Accounted
  <2>2. Owed(w, r)' = Owed(w, r) /\ dropped'[w] = dropped[w]
    BY <1>1 DEF Owed
  <2>3. Feed(w)' = Feed(w)
    BY <1>3, <2>1
  <2>4. StandsFor(Feed(w)') = StandsFor(Feed(w))
    BY <2>3
  <2> QED
    BY <2>1, <2>2, <2>4 DEF Accounted
<1>5. EveryRecordAccounted'
  BY <1>4 DEF EveryRecordAccounted, Accounted
<1> QED
  BY <1>2, <1>5 DEF CountInv

\* The other steps publish and queue nothing, and register nobody.
LEMMA OthersKeepAccounts ==
  ASSUME IInv, CountInv,
         UNCHANGED <<source, base, got, queue, dropped, published, ring, sending>>,
         \A s \in Streams : subscribers'[s] \subseteq subscribers[s]
  PROVE  CountInv'
<1>1. NoticesAreApart' /\ NothingMissedBefore'
  BY DEF CountInv, NoticesAreApart, NothingMissedBefore, Locked
<1>2. ASSUME NEW r \in Streams, NEW w \in subscribers'[r]
      PROVE  Accounted(w, r)'
  <2>1. w \in subscribers[r]
    BY <1>2
  <2>2. w \in Viewers /\ Accounted(w, r)
    BY <2>1, RegisteredFacts DEF CountInv, EveryRecordAccounted, Accounted
  <2> QED
    BY <2>2, AccountStays
<1>3. EveryRecordAccounted'
  BY <1>2 DEF EveryRecordAccounted, Accounted
<1> QED
  BY <1>1, <1>3 DEF CountInv

LEMMA InitCountInv == Init => CountInv
<1> SUFFICES ASSUME Init PROVE CountInv
  OBVIOUS
<1>1. NoticesAreApart
  BY DEF Init, NoticesAreApart, Locked
<1>2. NothingMissedBefore /\ EveryRecordAccounted
  BY DEF Init, NothingMissedBefore, EveryRecordAccounted
<1> QED
  BY <1>1, <1>2 DEF CountInv

LEMMA NextCountInv == IInv /\ FeedInv /\ CountInv /\ [Next]_vars => CountInv'
<1> SUFFICES ASSUME IInv, FeedInv, CountInv, [Next]_vars PROVE CountInv'
  OBVIOUS
<1> USE DEF mapVars, registerVars, ringVars, providerVars, timerVars, joinVars,
            channelVars, sendVars
<1>1. CASE UNCHANGED vars
  BY <1>1, OthersKeepAccounts DEF vars
<1>2. ASSUME NEW v \in Viewers, Viewer(v)
      PROVE  CountInv'
  <2>1. CASE \E k \in Keys : Subscribe(v, k)
    BY <2>1, ReplayIsAccounted
  <2>2. CASE RefuseSubscribe(v) \/ SeeEnd(v) \/ Disconnect(v)
    BY <2>2, OthersKeepAccounts DEF RefuseSubscribe, SeeEnd, Disconnect
  <2>3. CASE Receive(v)
    BY <2>3, ReceiveKeepsAccounts
  <2>4. CASE Unsubscribe(v)
    <3>1. \A s \in Streams : subscribers'[s] \subseteq subscribers[s]
      <4> DEFINE t == streams[wanted[v]]
      <4>1. CASE t = None
        BY <2>4, <4>1 DEF Unsubscribe
      <4>2. CASE t # None
        <5>1. subscribers' = [subscribers EXCEPT ![t] = subscribers[t] \ Registered(v, t)]
          BY <2>4, <4>2 DEF Unsubscribe
        <5> HIDE DEF t
        <5> QED
          BY <5>1 DEF IInv, TypeOK
      <4> QED
        BY <4>1, <4>2
    <3> QED
      BY <2>4, <3>1, OthersKeepAccounts DEF Unsubscribe
  <2>5. CASE OfferNotice(v)
    BY <2>5, NoticeKeepsAccounts
  <2>6. CASE OfferRecord(v)
    BY <2>6, RecordKeepsAccounts
  <2> QED
    BY <1>2, <2>1, <2>2, <2>3, <2>4, <2>5, <2>6 DEF Viewer
<1>3. ASSUME NEW s \in Streams, Upstream(s)
      PROVE  CountInv'
  <2>1. CASE BroadcastRecord(s) \/ BroadcastError(s)
    BY <2>1, BroadcastKeepsAccounts DEF BroadcastRecord, BroadcastError
  <2>2. CASE CloseStream(s)
    <3>1. \A r \in Streams : subscribers'[r] \subseteq subscribers[r]
      BY <2>2 DEF CloseStream, IInv, TypeOK
    <3> QED
      BY <2>2, <3>1, OthersKeepAccounts DEF CloseStream, RunEnds
  <2>3. CASE Emit(s) \/ ProviderReturns(s) \/ SkipRecord(s) \/ TimerFires(s)
             \/ StopIfUnused(s)
    BY <2>3, OthersKeepAccounts
    DEF Emit, ProviderReturns, SkipRecord, TimerFires, StopIfUnused
  <2> QED
    BY <1>3, <2>1, <2>2, <2>3 DEF Upstream
<1> QED
  BY <1>1, <1>2, <1>3 DEF Next

\* No record disappears silently for good: what was published since a viewer
\* joined is received, queued, announced by a notice or still counted in
\* dropped, for any number of records and any capacity (manager.go:169-190).
THEOREM EveryRecordIsAccounted == Spec => []EveryRecordAccounted
<1>1. CountInv => EveryRecordAccounted
  BY DEF CountInv
<1> QED
  BY <1>1, InitIInv, NextIInv, InitFeedInv, NextFeedInv, InitCountInv, NextCountInv, PTL
  DEF Spec

-----------------------------------------------------------------------------
(* The refinement of LiveFeed *)

\* What a viewer has been shown has a last record.
LastExists ==
  \A v \in Viewers : Shown(v) = {} \/ \E n \in Shown(v) : \A m \in Shown(v) : m <= n

PInv == IInv /\ FeedInv /\ LastExists

\* A record that is later than all that was shown becomes the last one.
LEMMA LaterIsLast ==
  ASSUME NEW v \in Viewers, NEW n \in Nat, Shown(v) \in SUBSET Nat,
         \A m \in Shown(v) : m < n, Shown(v)' = Shown(v) \cup {n}
  PROVE  /\ LastShown(v)' = n
         /\ \A m \in Shown(v)' : m <= n
<1> DEFINE after == Shown(v) \cup {n}
<1>1. n \in after /\ \A m \in after : m <= n /\ m \in Nat
  OBVIOUS
<1>2. (CHOOSE k \in after : \A m \in after : m <= k) = n
  <2>1. \A k \in after : (\A m \in after : m <= k) => k = n
    BY <1>1
  <2> HIDE DEF after
  <2> QED
    BY <1>1, <2>1
<1>3. LastShown(v)' = CHOOSE k \in after : \A m \in after : m <= k
  BY <1>1 DEF LastShown
<1> QED
  BY <1>1, <1>2, <1>3

\* Only records are shown, and only what was published.
LEMMA ShownType ==
  ASSUME TypeOK, LastExists, NEW v \in Viewers
  PROVE  /\ Shown(v) \in SUBSET Nat
         /\ LastShown(v) \in Nat
         /\ Shown(v) # {} => LastShown(v) \in Shown(v)
<1>1. \A i \in 1 .. Len(got[v]) : got[v][i] \in Entry
  BY FeedType
<1>2. \A i \in 1 .. Len(got[v]) : got[v][i].n \in Nat
  BY <1>1 DEF Entry
<1>3. Shown(v) \in SUBSET Nat
  BY <1>2 DEF Shown
<1> HIDE DEF Shown
<1>4. Shown(v) # {} => LastShown(v) \in Shown(v)
  BY DEF LastShown, LastExists
<1>5. Shown(v) = {} => LastShown(v) \in Nat
  BY DEF LastShown, TypeOK
<1> QED
  BY <1>3, <1>4, <1>5

\* The next entry a viewer receives, and what it does to what is shown.
LEMMA ReceivedIsShown ==
  ASSUME TypeOK, NEW v \in Viewers, Receive(v)
  PROVE  /\ Head(queue[v]) \in Entry
         /\ Shown(v)' = IF Head(queue[v]).kind = "dropped" THEN Shown(v)
                        ELSE Shown(v) \cup {Head(queue[v]).n}
<1> DEFINE e == Head(queue[v])
           g == got[v]
           long == Append(g, e)
<1>1. e \in Entry /\ g \in Seq(Entry)
  BY FeedType, HeadTailProperties DEF Receive
<1>2. got'[v] = long
  BY DEF Receive, TypeOK
<1>3. /\ Len(long) = Len(g) + 1 /\ Len(g) \in Nat
      /\ \A i \in 1 .. Len(g) : long[i] = g[i]
      /\ long[Len(g) + 1] = e
  BY <1>1, AppendProperties
<1>4. Shown(v)' = {long[i].n : i \in {j \in 1 .. Len(long) : long[j].kind # "dropped"}}
  BY <1>2 DEF Shown
<1>5. Shown(v) = {g[i].n : i \in {j \in 1 .. Len(g) : g[j].kind # "dropped"}}
  BY DEF Shown
<1> HIDE DEF e, g, long
<1>6. 1 .. Len(long) = (1 .. Len(g)) \cup {Len(g) + 1}
  BY <1>3
<1>7. CASE e.kind = "dropped"
  <2>1. \A j \in 1 .. Len(long) :
          long[j].kind # "dropped" <=> j \in 1 .. Len(g) /\ g[j].kind # "dropped"
    BY <1>3, <1>6, <1>7
  <2>2. \A n : n \in Shown(v)' <=> n \in Shown(v)
    BY <1>3, <1>4, <1>5, <1>6, <2>1
  <2>3. Shown(v)' = Shown(v)
    BY <1>4, <1>5, <2>2
  <2> QED
    BY <1>1, <1>7, <2>3 DEF e
<1>8. CASE e.kind # "dropped"
  <2>1. \A n : n \in Shown(v)' <=> n \in Shown(v) \/ n = e.n
    BY <1>3, <1>4, <1>5, <1>6, <1>8
  <2>2. Shown(v)' = Shown(v) \cup {e.n}
    BY <1>4, <1>5, <2>1
  <2> QED
    BY <1>1, <1>8, <2>2 DEF e
<1> QED
  BY <1>7, <1>8

\* The next record a viewer receives is later than all it was shown.
LEMMA ReceivedIsLater ==
  ASSUME IInv, FeedInv, NEW v \in Viewers, Receive(v),
         Head(queue[v]).kind # "dropped"
  PROVE  /\ source[v] \in Streams /\ source[v] # None
         /\ base[v] < Head(queue[v]).n /\ Head(queue[v]).n <= published[source[v]]
         /\ \A m \in Shown(v) : m < Head(queue[v]).n
<1> DEFINE e == Head(queue[v])
           g == got[v]
           k == Len(got[v]) + 1
<1>1. queue[v] # <<>> /\ queue[v] \in Seq(Entry) /\ g \in Seq(Entry)
      /\ Len(g) \in Nat /\ e.kind # "dropped" /\ e \in Entry
  BY FeedType, HeadTailProperties DEF Receive, IInv
<1>2. source[v] \in Streams /\ source[v] # None
  BY <1>1, FeedType DEF FeedInv, FeedIsSettled, IInv
<1>3. Grows(Feed(v), base[v], Settled(v)) /\ Settled(v) <= published[source[v]]
      /\ published[source[v]] \in Nat /\ Settled(v) \in Int /\ base[v] \in Nat
  BY <1>2, FeedType DEF FeedInv, FeedIsSettled, Settled, IInv
<1>4. /\ k \in 1 .. Len(Feed(v)) /\ Feed(v)[k] = e
      /\ \A i \in 1 .. Len(g) : i \in 1 .. Len(Feed(v)) /\ Feed(v)[i] = g[i]
  <2>1. Len(queue[v]) \in Nat /\ Len(queue[v]) > 0 /\ e = queue[v][1]
    BY <1>1, HeadTailProperties, EmptySeq
  <2>2. /\ Len(Feed(v)) = Len(g) + Len(queue[v])
        /\ \A i \in 1 .. Len(g) + Len(queue[v]) :
             Feed(v)[i] = IF i <= Len(g) THEN g[i] ELSE queue[v][i - Len(g)]
    BY <1>1, ConcatProperties DEF Feed
  <2> HIDE DEF e, g, Feed
  <2>3. k \in 1 .. Len(Feed(v)) /\ k = Len(g) + 1
    <3>1. k = Len(g) + 1
      BY DEF g
    <3> HIDE DEF k
    <3> QED
      BY <1>1, <2>1, <2>2, <3>1
  <2>4. Feed(v)[k] = e
    BY <1>1, <2>1, <2>2, <2>3
  <2> HIDE DEF k
  <2>5. \A i \in 1 .. Len(g) : i \in 1 .. Len(Feed(v)) /\ Feed(v)[i] = g[i]
    BY <1>1, <2>1, <2>2
  <2> QED
    BY <2>3, <2>4, <2>5
<1> HIDE DEF e, g, k, Feed, Settled
<1>5. e.n \in Nat
  BY <1>1 DEF Entry
<1>6. base[v] < e.n /\ e.n <= Settled(v)
  BY <1>1, <1>3, <1>4 DEF Grows
<1>7. ASSUME NEW i \in 1 .. Len(g), g[i].kind # "dropped"
      PROVE  g[i].n < e.n
  <2>1. i < k
    BY <1>1 DEF k, g
  <2> QED
    BY <1>1, <1>3, <1>4, <1>7, <2>1 DEF Grows
<1>8. \A m \in Shown(v) : m < e.n
  BY <1>7 DEF Shown, g
<1> QED
  BY <1>2, <1>3, <1>5, <1>6, <1>8 DEF e

\* The last record shown depends on what was received and on the base.
LEMMA LastStays ==
  ASSUME NEW v \in Viewers, Shown(v)' = Shown(v), base'[v] = base[v]
  PROVE  LastShown(v)' = LastShown(v)
BY DEF LastShown

\* Nothing of what is shown changes while got and base stay.
LEMMA ShownStays ==
  ASSUME UNCHANGED <<got, base>>
  PROVE  /\ ShownTo' = ShownTo
         /\ LastExists => LastExists'
<1>1. \A v \in Viewers : Shown(v)' = Shown(v)
  BY DEF Shown
<1>2. \A v \in Viewers : LastShown(v)' = LastShown(v)
  BY <1>1, LastStays
<1> QED
  BY <1>1, <1>2 DEF ShownTo, LastExists

\* A viewer that has received nothing has been shown nothing.
LEMMA NothingShown ==
  ASSUME NEW v \in Viewers, got[v] = <<>>
  PROVE  Shown(v) = {} /\ LastShown(v) = base[v]
<1>1. Shown(v) = {}
  BY DEF Shown
<1> QED
  BY <1>1 DEF LastShown

\* Subscribe is Join: the replay begins no further back than the ring.
LEMMA SubscribeIsJoin ==
  ASSUME PInv, NEW v \in Viewers, NEW k \in Keys, Subscribe(v, k)
  PROVE  LastExists' /\ Promise!Join(v, k)
<1>1. PICK s \in Streams :
        /\ \/ s \in Joinable(k)
           \/ Joinable(k) = {} /\ phase[s] = "free"
        /\ streams' = [streams EXCEPT ![k] = s]
        /\ phase' = [phase EXCEPT ![s] = "open"]
        /\ source' = [source EXCEPT ![v] = s]
        /\ base' = [base EXCEPT ![v] = published[s] - Len(ring[s])]
  BY DEF Subscribe
<1>2. source[v] = None /\ got[v] = <<>> /\ UNCHANGED <<got, published>>
  BY DEF Subscribe, ringVars, PInv, IInv, IdleIsFresh, FeedInv, FeedIsSettled
<1>3. published[s] - Len(ring[s]) \in 0 .. published[s]
      /\ (published[s] - Len(ring[s])) + RingSize >= published[s]
  <2>1. published[s] \in Nat /\ RingSize \in Nat
        /\ Len(ring[s]) = (IF published[s] < RingSize THEN published[s] ELSE RingSize)
    BY ConstantsAssumption DEF PInv, IInv, TypeOK, RingIsRecent
  <2> QED
    BY <2>1
<1>4. IF streams[k] = None THEN ~Promise!Used(s) ELSE s = streams[k]
  <2>1. CASE streams[k] = None
    <3>1. phase[s] = "free"
      BY <1>1, <2>1, ConstantsAssumption DEF Joinable
    <3>2. s \notin Finished /\ \A l \in Keys : streams[l] # s
      BY <3>1 DEF Finished, PInv, IInv, SharedUpstream
    <3> QED
      BY <2>1, <3>2 DEF Promise!Used
  <2>2. CASE streams[k] # None
    <3>1. streams[k] \in Streams /\ phase[streams[k]] = "open"
      BY <2>2 DEF PInv, IInv, TypeOK, SharedUpstream
    <3>2. Joinable(k) # {}
      BY <3>1 DEF Joinable
    <3>3. s = streams[k]
      BY <1>1, <3>2 DEF Joinable
    <3> QED
      BY <2>2, <3>3
  <2> QED
    BY <2>1, <2>2
<1>5. Finished' = Finished
  <2>1. phase[s] # "closed" /\ phase \in [Streams -> {"free", "open", "closed"}]
    BY <1>1 DEF Joinable, PInv, IInv, TypeOK
  <2> QED
    BY <1>1, <2>1 DEF Finished
<1>6. ShownTo' = [ShownTo EXCEPT ![v] = published[s] - Len(ring[s])]
  <2>1. \A w \in Viewers : Shown(w)' = Shown(w)
    BY <1>2 DEF Shown
  <2>2. \A w \in Viewers \ {v} : LastShown(w)' = LastShown(w)
    <3>1. \A w \in Viewers \ {v} : base'[w] = base[w]
      BY <1>1 DEF PInv, IInv, TypeOK
    <3> QED
      BY <2>1, <3>1, LastStays
  <2>3. LastShown(v)' = published[s] - Len(ring[s])
    <3>1. base'[v] = published[s] - Len(ring[s])
      BY <1>1 DEF PInv, IInv, TypeOK
    <3>2. Shown(v)' = {}
      BY <1>2, <2>1, NothingShown
    <3> QED
      BY <3>1, <3>2 DEF LastShown
  <2> QED
    BY <2>2, <2>3 DEF ShownTo
<1>7. LastExists'
  <2>1. \A w \in Viewers : Shown(w)' = Shown(w)
    BY <1>2 DEF Shown
  <2> QED
    BY <2>1 DEF LastExists, PInv
<1> QED
  BY <1>1, <1>2, <1>3, <1>4, <1>5, <1>6, <1>7 DEF Promise!Join

\* Receive shows a later record, or is invisible when it takes a notice.
LEMMA ReceiveIsShow ==
  ASSUME PInv, NEW v \in Viewers, Receive(v)
  PROVE  LastExists' /\ (Promise!Show(v) \/ UNCHANGED Promise!vars)
<1> DEFINE e == Head(queue[v])
<1>1. /\ UNCHANGED <<streams, phase, published, source, base>>
      /\ \A w \in Viewers \ {v} : got'[w] = got[w]
  BY DEF Receive, mapVars, ringVars, joinVars, PInv, IInv, TypeOK
<1>2. Finished' = Finished
  BY <1>1 DEF Finished
<1>3. /\ \A w \in Viewers \ {v} : Shown(w)' = Shown(w)
      /\ \A w \in Viewers \ {v} : LastShown(w)' = LastShown(w)
  <2>1. \A w \in Viewers \ {v} : Shown(w)' = Shown(w)
    BY <1>1 DEF Shown
  <2> QED
    BY <1>1, <2>1, LastStays
<1>4. CASE e.kind = "dropped"
  <2>1. Shown(v)' = Shown(v)
    BY <1>4, ReceivedIsShown DEF PInv, IInv
  <2>2. LastShown(v)' = LastShown(v)
    BY <1>1, <2>1, LastStays
  <2>3. ShownTo' = ShownTo
    BY <1>3, <2>2 DEF ShownTo
  <2>4. LastExists'
    BY <1>3, <2>1 DEF LastExists, PInv
  <2> QED
    BY <1>1, <1>2, <2>3, <2>4 DEF Promise!vars
<1>5. CASE e.kind # "dropped"
  <2>1. Shown(v)' = Shown(v) \cup {e.n} /\ e \in Entry
    BY <1>5, ReceivedIsShown DEF PInv, IInv
  <2>2. /\ source[v] \in Streams /\ source[v] # None
        /\ base[v] < e.n /\ e.n <= published[source[v]]
        /\ \A m \in Shown(v) : m < e.n
    BY <1>5, ReceivedIsLater DEF PInv
  <2>3. /\ e.n \in Nat /\ Shown(v) \in SUBSET Nat /\ LastShown(v) \in Nat
        /\ Shown(v) # {} => LastShown(v) \in Shown(v)
        /\ published[source[v]] \in Nat
    <3>1. e.n \in Nat
      <4> HIDE DEF e
      <4> QED
        BY <2>1 DEF Entry
    <3> QED
      BY <2>2, <3>1, ShownType DEF PInv, IInv, TypeOK
  <2> HIDE DEF e
  <2>4. LastShown(v)' = e.n /\ \A m \in Shown(v)' : m <= e.n
    BY <2>1, <2>2, <2>3, LaterIsLast
  <2>5. LastExists'
    BY <1>3, <2>1, <2>4 DEF LastExists, PInv
  <2>6. LastShown(v) < e.n
    <3>1. Shown(v) = {} => LastShown(v) = base[v]
      BY DEF LastShown
    <3> QED
      BY <2>2, <2>3, <3>1
  <2>7. ShownTo' = [ShownTo EXCEPT ![v] = e.n] /\ ShownTo[v] = LastShown(v)
    BY <1>3, <2>4 DEF ShownTo
  <2>8. e.n \in ShownTo[v] + 1 .. published[source[v]]
    BY <2>2, <2>3, <2>6, <2>7
  <2> QED
    BY <1>1, <1>2, <2>2, <2>5, <2>7, <2>8 DEF Promise!Show
<1> QED
  BY <1>4, <1>5

\* A record that run broadcasts is published.
LEMMA BroadcastIsPublish ==
  ASSUME PInv, NEW s \in Streams, NEW kind \in {"record", "error"},
         phase[s] = "open", BeginBroadcast(s, kind)
  PROVE  LastExists' /\ Promise!Publish(s)
<1>1. /\ UNCHANGED <<streams, phase, source, base, got>>
      /\ published' = [published EXCEPT ![s] = published[s] + 1]
  BY DEF BeginBroadcast, mapVars, joinVars
<1>2. keyOf[s] \in Keys /\ streams[keyOf[s]] = s
  BY DEF PInv, IInv, OpenHasKey, SharedUpstream
<1>3. Finished' = Finished
  BY <1>1 DEF Finished
<1> QED
  BY <1>1, <1>2, <1>3, ShownStays DEF Promise!Publish, PInv

\* The end of run finishes the stream.
LEMMA CloseIsFinish ==
  ASSUME PInv, NEW s \in Streams, CloseStream(s)
  PROVE  LastExists' /\ Promise!Finish(s)
<1>1. /\ UNCHANGED <<published, source, base, got>>
      /\ streams' = [streams EXCEPT ![keyOf[s]] = None]
      /\ phase' = [phase EXCEPT ![s] = "closed"]
      /\ phase[s] = "open"
  BY DEF CloseStream, RunEnds, ringVars, joinVars
<1>2. keyOf[s] \in Keys /\ streams[keyOf[s]] = s
  BY <1>1 DEF PInv, IInv, OpenHasKey, SharedUpstream
<1>3. Finished' = Finished \cup {s}
  BY <1>1 DEF Finished, PInv, IInv, TypeOK
<1> QED
  BY <1>1, <1>2, <1>3, ShownStays DEF Promise!Finish, PInv

\* All that is left is invisible.
LEMMA HiddenStep ==
  ASSUME PInv, UNCHANGED <<streams, phase, published, source, base, got>>
  PROVE  LastExists' /\ UNCHANGED Promise!vars
<1>1. Finished' = Finished
  BY DEF Finished
<1> QED
  BY <1>1, ShownStays DEF Promise!vars, PInv

LEMMA StepKeepsPromise ==
  ASSUME PInv, [Next]_vars
  PROVE  LastExists' /\ [Promise!Next]_(Promise!vars)
<1> USE DEF mapVars, ringVars, joinVars
<1>1. ASSUME NEW v \in Viewers, Viewer(v)
      PROVE  LastExists' /\ [Promise!Next]_(Promise!vars)
  <2>1. CASE RefuseSubscribe(v) \/ SeeEnd(v) \/ Disconnect(v) \/ Unsubscribe(v)
             \/ OfferNotice(v) \/ OfferRecord(v)
    BY <2>1, HiddenStep
    DEF RefuseSubscribe, SeeEnd, Disconnect, Unsubscribe, OfferNotice, OfferRecord
  <2>2. ASSUME NEW k \in Keys, Subscribe(v, k)
        PROVE  LastExists' /\ [Promise!Next]_(Promise!vars)
    BY <2>2, SubscribeIsJoin DEF Promise!Next
  <2>3. CASE Receive(v)
    BY <2>3, ReceiveIsShow DEF Promise!Next
  <2> QED
    BY <1>1, <2>1, <2>2, <2>3 DEF Viewer
<1>2. ASSUME NEW s \in Streams, Upstream(s)
      PROVE  LastExists' /\ [Promise!Next]_(Promise!vars)
  <2>1. CASE BroadcastRecord(s) \/ BroadcastError(s)
    BY <2>1, BroadcastIsPublish DEF BroadcastRecord, BroadcastError, Promise!Next
  <2>2. CASE CloseStream(s)
    BY <2>2, CloseIsFinish DEF Promise!Next
  <2>3. CASE Emit(s) \/ ProviderReturns(s) \/ SkipRecord(s) \/ TimerFires(s)
             \/ StopIfUnused(s)
    BY <2>3, HiddenStep
    DEF Emit, ProviderReturns, SkipRecord, TimerFires, StopIfUnused
  <2> QED
    BY <1>2, <2>1, <2>2, <2>3 DEF Upstream
<1>3. CASE UNCHANGED vars
  BY <1>3, HiddenStep DEF vars
<1> QED
  BY <1>1, <1>2, <1>3 DEF Next

LEMMA InitKeepsPromise == Init => LastExists /\ Promise!Init
<1> SUFFICES ASSUME Init PROVE LastExists /\ Promise!Init
  OBVIOUS
<1>1. \A v \in Viewers : Shown(v) = {} /\ LastShown(v) = 0
  BY NothingShown DEF Init
<1>2. ShownTo = [v \in Viewers |-> 0]
  BY <1>1 DEF ShownTo
<1>3. Finished = {}
  BY DEF Init, Finished
<1> QED
  BY <1>1, <1>2, <1>3 DEF Init, LastExists, Promise!Init

\* The manager keeps the promise of LiveFeed: to its viewers it is one feed per
\* request, which each of them sees in order (manager.go:41-190).
THEOREM ImplementsLiveFeed == Spec => KeepsPromise
<1>1. PInv /\ IInv' /\ FeedInv' /\ [Next]_vars => LastExists'
  BY StepKeepsPromise
<1>2. PInv /\ [Next]_vars => [Promise!Next]_(Promise!vars)
  BY StepKeepsPromise
<1>3. Spec => []FeedInv
  BY InitFeedInv, NextFeedInv, AlwaysIInv, PTL DEF Spec
<1>4. IInv /\ FeedInv /\ LastExists <=> PInv
  BY DEF PInv
<1>5. Spec => []PInv
  BY <1>1, <1>3, <1>4, InitKeepsPromise, AlwaysIInv, PTL DEF Spec
<1> QED
  BY <1>2, <1>5, InitKeepsPromise, PTL DEF Spec, Promise!Spec, KeepsPromise

-----------------------------------------------------------------------------
(* Late unsubscribes *)

\* A viewer that reads or leaves has a stream.  It asked for the key of that
\* stream, whose objects are in use or have ended, and has one of the numbers
\* the stream has given.
JoinedUnderKey ==
  /\ \A v \in Viewers : status[v] \in {"watching", "ended", "leaving"} => source[v] # None
  /\ \A v \in Viewers :
       source[v] # None =>
         /\ phase[source[v]] # "free"
         /\ keyOf[source[v]] = wanted[v]
         /\ 0 < subID[v] /\ subID[v] <= nextSubID[source[v]]

\* No number is given twice in a stream.
SubIDsDiffer ==
  \A v, w \in Viewers :
    v # w /\ source[v] # None /\ source[v] = source[w] => subID[v] # subID[w]

\* Both together are inductive, given IInv.
SubIDInv == JoinedUnderKey /\ SubIDsDiffer

LEMMA InitSubIDInv == Init => SubIDInv
BY DEF Init, SubIDInv, JoinedUnderKey, SubIDsDiffer

\* Subscribe takes a number that nobody in its stream has.
LEMMA SubscribeKeepsSubIDs ==
  ASSUME IInv, SubIDInv, NEW v \in Viewers, NEW k \in Keys, Subscribe(v, k)
  PROVE  SubIDInv'
<1> USE ConstantsAssumption
<1>1. PICK s \in Streams :
        /\ s \in Joinable(k) \/ (Joinable(k) = {} /\ phase[s] = "free")
        /\ phase' = [phase EXCEPT ![s] = "open"]
        /\ keyOf' = [keyOf EXCEPT ![s] = k]
        /\ nextSubID' = [nextSubID EXCEPT ![s] = nextSubID[s] + 1]
        /\ source' = [source EXCEPT ![v] = s]
        /\ subID' = [subID EXCEPT ![v] = nextSubID[s] + 1]
  BY DEF Subscribe
<1>2. /\ wanted' = [wanted EXCEPT ![v] = k]
      /\ status' = [status EXCEPT ![v] = "watching"]
  BY DEF Subscribe
<1>3. /\ source'[v] = s /\ subID'[v] = nextSubID[s] + 1 /\ nextSubID[s] \in Nat
      /\ wanted'[v] = k /\ keyOf'[s] = k /\ phase'[s] = "open"
      /\ nextSubID'[s] = nextSubID[s] + 1
      /\ s # None
  BY <1>1, <1>2 DEF IInv, TypeOK
<1>4. ASSUME NEW w \in Viewers, w # v
      PROVE  /\ source'[w] = source[w] /\ subID'[w] = subID[w]
             /\ wanted'[w] = wanted[w] /\ status'[w] = status[w]
  BY <1>1, <1>2, <1>4 DEF IInv, TypeOK
<1>5. phase[s] # "free" => keyOf[s] = k
  BY <1>1 DEF Joinable, IInv, SharedUpstream
<1>6. ASSUME NEW w \in Viewers, w # v, source[w] # None
      PROVE  /\ phase'[source[w]] # "free"
             /\ keyOf'[source[w]] = wanted[w]
             /\ 0 < subID[w] /\ subID[w] <= nextSubID'[source[w]]
             /\ source[w] = s => subID[w] <= nextSubID[s]
  <2>1. /\ source[w] \in Streams /\ subID[w] \in Nat
        /\ phase[source[w]] # "free"
        /\ keyOf[source[w]] = wanted[w]
        /\ 0 < subID[w] /\ subID[w] <= nextSubID[source[w]]
        /\ nextSubID[source[w]] \in Nat
    BY <1>6 DEF IInv, TypeOK, SubIDInv, JoinedUnderKey
  <2>2. CASE source[w] = s
    BY <1>3, <1>5, <2>1, <2>2
  <2>3. CASE source[w] # s
    <3>1. /\ phase'[source[w]] = phase[source[w]]
          /\ keyOf'[source[w]] = keyOf[source[w]]
          /\ nextSubID'[source[w]] = nextSubID[source[w]]
      BY <1>1, <2>1, <2>3 DEF IInv, TypeOK
    <3> QED
      BY <2>1, <2>3, <3>1
  <2> QED
    BY <2>2, <2>3
<1>7. JoinedUnderKey'
  BY <1>3, <1>4, <1>6 DEF SubIDInv, JoinedUnderKey
<1>8. SubIDsDiffer'
  <2>1. ASSUME NEW u \in Viewers, NEW w \in Viewers, u # w,
               source'[u] # None, source'[u] = source'[w]
        PROVE  subID'[u] # subID'[w]
    <3>1. CASE u # v /\ w # v
      BY <1>4, <2>1, <3>1 DEF SubIDInv, SubIDsDiffer
    <3>2. CASE u = v
      <4>1. w # v /\ source[w] = s
        BY <1>3, <1>4, <2>1, <3>2
      <4>2. subID[w] <= nextSubID[s] /\ subID[w] \in Nat
        BY <1>3, <1>6, <4>1 DEF IInv, TypeOK
      <4> QED
        BY <1>3, <1>4, <3>2, <4>1, <4>2
    <3>3. CASE w = v
      <4>1. u # v /\ source[u] = s
        BY <1>3, <1>4, <2>1, <3>3
      <4>2. subID[u] <= nextSubID[s] /\ subID[u] \in Nat
        BY <1>3, <1>6, <4>1 DEF IInv, TypeOK
      <4> QED
        BY <1>3, <1>4, <3>3, <4>1, <4>2
    <3> QED
      BY <3>1, <3>2, <3>3
  <2> QED
    BY <2>1 DEF SubIDsDiffer
<1> QED
  BY <1>7, <1>8 DEF SubIDInv

\* No other step gives a number, and none takes a stream out of use again.
LEMMA OthersKeepSubIDs ==
  ASSUME IInv, SubIDInv, UNCHANGED <<keyOf, nextSubID, wanted, source, subID>>,
         \A s \in Streams : phase[s] # "free" => phase'[s] # "free",
         \A v \in Viewers :
           status'[v] \in {"watching", "ended", "leaving"} =>
             status[v] \in {"watching", "ended", "leaving"}
  PROVE  SubIDInv'
<1>1. \A v \in Viewers : source[v] # None => source[v] \in Streams
  BY DEF IInv, TypeOK
<1>2. JoinedUnderKey'
  BY <1>1 DEF SubIDInv, JoinedUnderKey
<1>3. SubIDsDiffer'
  BY DEF SubIDInv, SubIDsDiffer
<1> QED
  BY <1>2, <1>3 DEF SubIDInv

LEMMA NextSubIDInv == IInv /\ SubIDInv /\ [Next]_vars => SubIDInv'
<1> SUFFICES ASSUME IInv, SubIDInv, [Next]_vars PROVE SubIDInv'
  OBVIOUS
<1> USE DEF mapVars, registerVars, joinVars
<1>1. CASE UNCHANGED <<keyOf, nextSubID, joinVars, phase, status>>
  BY <1>1, OthersKeepSubIDs
<1>2. ASSUME NEW v \in Viewers, Viewer(v) PROVE SubIDInv'
  <2>1. CASE \E k \in Keys : Subscribe(v, k)
    BY <2>1, SubscribeKeepsSubIDs
  <2>2. CASE RefuseSubscribe(v) \/ SeeEnd(v) \/ Disconnect(v) \/ Unsubscribe(v)
    <3>1. UNCHANGED <<keyOf, nextSubID, wanted, source, subID, phase>>
      BY <2>2 DEF RefuseSubscribe, SeeEnd, Disconnect, Unsubscribe
    <3>2. \E step \in {"ended", "leaving", "gone"} :
             /\ status' = [status EXCEPT ![v] = step]
             /\ step \in {"ended", "leaving"} => status[v] \in {"watching", "ended"}
      BY <2>2 DEF RefuseSubscribe, SeeEnd, Disconnect, Unsubscribe
    <3>3. \A w \in Viewers :
            status'[w] \in {"watching", "ended", "leaving"} =>
              status[w] \in {"watching", "ended", "leaving"}
      BY <3>2 DEF IInv, TypeOK
    <3> QED
      BY <3>1, <3>3, OthersKeepSubIDs
  <2>3. CASE Receive(v) \/ OfferNotice(v) \/ OfferRecord(v)
    BY <1>1, <2>3 DEF Receive, OfferNotice, OfferRecord
  <2> QED
    BY <1>2, <2>1, <2>2, <2>3 DEF Viewer
<1>3. ASSUME NEW s \in Streams, Upstream(s) PROVE SubIDInv'
  <2>1. CASE CloseStream(s)
    <3>1. /\ UNCHANGED <<keyOf, nextSubID, wanted, source, subID, status>>
          /\ phase' = [phase EXCEPT ![s] = "closed"]
      BY <2>1 DEF CloseStream, RunEnds
    <3>2. \A t \in Streams : phase[t] # "free" => phase'[t] # "free"
      BY <3>1 DEF IInv, TypeOK
    <3> QED
      BY <3>1, <3>2, OthersKeepSubIDs
  <2>2. CASE \/ Emit(s) \/ ProviderReturns(s) \/ BroadcastRecord(s) \/ SkipRecord(s)
             \/ BroadcastError(s) \/ TimerFires(s) \/ StopIfUnused(s)
    BY <1>1, <2>2
    DEF Emit, ProviderReturns, BroadcastRecord, SkipRecord, BroadcastError,
        BeginBroadcast, TimerFires, StopIfUnused
  <2> QED
    BY <1>3, <2>1, <2>2 DEF Upstream
<1>4. CASE UNCHANGED vars
  BY <1>1, <1>4 DEF vars
<1> QED
  BY <1>2, <1>3, <1>4 DEF Next

\* What an unsubscribe closes is registered in the stream that serves its key
\* by then, under its number.
LEMMA UnsubscribeCloses ==
  ASSUME IInv, SubIDInv, NEW w \in Viewers, Unsubscribe(w),
         NEW v \in Viewers, closed'[v], ~closed[v]
  PROVE  /\ source[v] = streams[wanted[w]] /\ source[v] \in Streams
         /\ phase[source[v]] = "open"
         /\ wanted[v] = wanted[w] /\ subID[v] = subID[w]
<1> USE ConstantsAssumption
<1> DEFINE s == streams[wanted[w]]
<1>1. wanted[w] \in Keys /\ s \in Streams \cup {None}
  BY DEF IInv, TypeOK, JoinedHasKey, Unsubscribe
<1>2. s # None
  BY DEF Unsubscribe
<1>3. closed' = [u \in Viewers |-> closed[u] \/ u \in Registered(w, s)]
  BY <1>2 DEF Unsubscribe
<1> HIDE DEF s
<1>4. v \in subscribers[s] /\ subID[v] = subID[w]
  BY <1>3 DEF Registered
<1>5. phase[s] = "open" /\ source[v] = s
  BY <1>1, <1>2, <1>4 DEF IInv, RegisteredCanReceive
<1>6. keyOf[s] = wanted[v]
  BY <1>1, <1>2, <1>5 DEF SubIDInv, JoinedUnderKey
<1>7. keyOf[s] = wanted[w]
  BY <1>1, <1>2 DEF s, IInv, SharedUpstream
<1> QED
  BY <1>1, <1>2, <1>4, <1>5, <1>6, <1>7 DEF s

\* However late it comes, an unsubscribe closes one channel at most: its own
\* viewer's, or that of a viewer of a later stream of the same request that has
\* the same number, and then its own stream has ended (manager.go:70-71, 86-95).
THEOREM OnlyNamesakesAreClosed == Spec => ClosedByNamesake
<1> USE ConstantsAssumption
<1> DEFINE Cause(v) ==
       \/ phase'[source[v]] = "closed"
       \/ /\ \E w \in Viewers :
               /\ status[w] = "leaving" /\ status'[w] = "gone"
               /\ wanted[w] = wanted[v] /\ subID[w] = subID[v]
               /\ w = v \/ phase[source[w]] = "closed"
          /\ \A u \in Viewers : closed'[u] /\ ~closed[u] => u = v
           Caused == \A v \in Viewers : closed'[v] /\ ~closed[v] => Cause(v)
<1>1. ASSUME IInv, SubIDInv, NEW w \in Viewers, Unsubscribe(w),
             NEW v \in Viewers, closed'[v], ~closed[v]
      PROVE  Cause(v)
  <2>1. /\ source[v] = streams[wanted[w]] /\ source[v] \in Streams
        /\ phase[source[v]] = "open"
        /\ wanted[v] = wanted[w] /\ subID[v] = subID[w]
    BY <1>1, UnsubscribeCloses
  <2>2. status[w] = "leaving" /\ status'[w] = "gone"
    BY <1>1 DEF Unsubscribe, IInv, TypeOK
  <2>3. ASSUME w # v PROVE phase[source[w]] = "closed"
    <3>1. /\ source[w] \in Streams /\ wanted[w] \in Keys
          /\ phase[source[w]] \in {"open", "closed"}
          /\ keyOf[source[w]] = wanted[w]
      BY <1>1, <2>2 DEF IInv, TypeOK, JoinedHasKey, SubIDInv, JoinedUnderKey
    <3>2. source[w] # source[v]
      BY <1>1, <2>1, <2>3, <3>1 DEF SubIDInv, SubIDsDiffer
    <3>3. phase[source[w]] # "open"
      BY <1>1, <2>1, <3>1, <3>2 DEF IInv, SharedUpstream
    <3> QED
      BY <3>1, <3>3
  <2>4. ASSUME NEW u \in Viewers, closed'[u], ~closed[u] PROVE u = v
    <3>1. source[u] = source[v] /\ subID[u] = subID[v]
      BY <1>1, <2>1, <2>4, UnsubscribeCloses
    <3> QED
      BY <1>1, <2>1, <3>1 DEF SubIDInv, SubIDsDiffer
  <2> QED
    BY <2>1, <2>2, <2>3, <2>4
<1>2. ASSUME IInv, NEW s \in Streams, CloseStream(s),
             NEW v \in Viewers, closed'[v], ~closed[v]
      PROVE  Cause(v)
  <2>1. closed' = [u \in Viewers |-> closed[u] \/ u \in subscribers[s]]
    BY <1>2 DEF CloseStream, CloseChannels
  <2>2. source[v] = s
    BY <1>2, <2>1 DEF IInv, RegisteredCanReceive
  <2>3. phase'[s] = "closed"
    BY <1>2 DEF CloseStream, RunEnds, IInv, TypeOK
  <2> QED
    BY <2>2, <2>3
<1> HIDE DEF Cause
<1>3. ASSUME IInv, SubIDInv, [Next]_vars PROVE Caused
  <2>1. CASE Next
    <3>1. CASE \E v \in Viewers : Unsubscribe(v)
      BY <1>1, <1>3, <3>1
    <3>2. CASE \E s \in Streams : CloseStream(s)
      BY <1>2, <1>3, <3>2
    <3>3. CASE UNCHANGED closed
      BY <3>3
    <3>4. CASE \E v \in Viewers, k \in Keys : Subscribe(v, k)
      BY <3>3, <3>4 DEF Subscribe
    <3> QED
      BY <2>1, <3>1, <3>2, <3>3, <3>4, WhoRegisters
  <2>2. CASE UNCHANGED vars
    BY <2>2 DEF vars
  <2> QED
    BY <1>3, <2>1, <2>2
<1>4. IInv /\ SubIDInv /\ [Next]_vars => [Caused]_vars
  BY <1>3
<1>5. Spec => []SubIDInv
  BY InitSubIDInv, NextSubIDInv, AlwaysIInv, PTL DEF Spec
<1>6. Spec => [][Caused]_vars
  <2> HIDE DEF Caused
  <2> QED
    BY <1>4, <1>5, AlwaysIInv, PTL DEF Spec
<1> QED
  BY <1>6 DEF ClosedByNamesake, Cause

-----------------------------------------------------------------------------
(* What the liveness properties rest on *)

\* A viewer that has a stream is registered there, or its channel is closed:
\* nobody is taken out of a stream without being told.
KeptOrTold ==
  \A v \in Viewers :
    source[v] # None => v \in subscribers[source[v]] \/ closed[v]

\* A viewer that has left is registered nowhere.
GoneIsForgotten ==
  \A v \in Viewers : status[v] = "gone" => \A s \in Streams : v \notin subscribers[s]

\* Both together are inductive, given IInv and SubIDInv.
DepartInv == KeptOrTold /\ GoneIsForgotten

\* A stream that has ended has closed the channel of everybody who watches it.
EndIsTold ==
  \A v \in Viewers :
    source[v] # None /\ phase[source[v]] = "closed" => closed[v]

LEMMA InitDepartInv == Init => DepartInv
BY DEF Init, DepartInv, KeptOrTold, GoneIsForgotten

\* Whom an unsubscribe removes it tells, and it removes its own viewer unless
\* somebody has removed that one before.
LEMMA UnsubscribeDeparts ==
  ASSUME IInv, SubIDInv, DepartInv, NEW v \in Viewers, Unsubscribe(v)
  PROVE  DepartInv'
<1> USE ConstantsAssumption
<1> DEFINE s == streams[wanted[v]]
<1>1. /\ status[v] = "leaving" /\ status' = [status EXCEPT ![v] = "gone"]
      /\ source' = source
  BY DEF Unsubscribe, joinVars
<1>2. wanted[v] \in Keys /\ s \in Streams \cup {None}
  BY <1>1 DEF IInv, TypeOK, JoinedHasKey
<1>3. source[v] \in Streams /\ keyOf[source[v]] = wanted[v]
  BY <1>1 DEF IInv, TypeOK, SubIDInv, JoinedUnderKey
<1>4. ASSUME NEW t \in Streams, v \in subscribers[t]
      PROVE  t = s /\ s # None /\ v \in Registered(v, s)
  <2>1. phase[t] = "open" /\ source[v] = t
    BY <1>4 DEF IInv, RegisteredCanReceive
  <2>2. t = s
    BY <1>2, <1>3, <2>1 DEF IInv, SharedUpstream
  <2> QED
    BY <1>4, <2>2 DEF Registered
<1>5. CASE s = None
  <2>1. UNCHANGED <<subscribers, closed>>
    BY <1>5 DEF Unsubscribe
  <2>2. \A t \in Streams : v \notin subscribers[t]
    BY <1>4, <1>5
  <2>3. \A w \in Viewers : w # v => status'[w] = status[w]
    BY <1>1 DEF IInv, TypeOK
  <2> HIDE DEF s
  <2>4. KeptOrTold'
    BY <1>1, <2>1 DEF DepartInv, KeptOrTold
  <2>5. GoneIsForgotten'
    BY <2>1, <2>2, <2>3 DEF DepartInv, GoneIsForgotten
  <2> QED
    BY <2>4, <2>5 DEF DepartInv
<1>6. CASE s # None
  <2>1. /\ subscribers' = [subscribers EXCEPT ![s] = subscribers[s] \ Registered(v, s)]
        /\ closed' = [w \in Viewers |-> closed[w] \/ w \in Registered(v, s)]
    BY <1>6 DEF Unsubscribe
  <2> HIDE DEF s
  <2>2. /\ subscribers'[s] = subscribers[s] \ Registered(v, s)
        /\ \A t \in Streams \ {s} : subscribers'[t] = subscribers[t]
    BY <1>2, <1>6, <2>1 DEF IInv, TypeOK
  <2>3. KeptOrTold'
    <3>1. ASSUME NEW w \in Viewers, source[w] # None
          PROVE  w \in subscribers'[source[w]] \/ closed'[w]
      <4>1. source[w] \in Streams /\ (w \in subscribers[source[w]] \/ closed[w])
        BY <3>1 DEF IInv, TypeOK, DepartInv, KeptOrTold
      <4> QED
        BY <2>1, <2>2, <4>1
    <3> QED
      BY <1>1, <3>1 DEF KeptOrTold
  <2>4. GoneIsForgotten'
    <3>1. ASSUME NEW w \in Viewers, status'[w] = "gone", NEW t \in Streams
          PROVE  w \notin subscribers'[t]
      <4>1. CASE w = v
        BY <1>4, <2>2, <4>1
      <4>2. CASE w # v
        <5>1. status[w] = "gone"
          BY <1>1, <3>1, <4>2 DEF IInv, TypeOK
        <5>2. w \notin subscribers[t]
          BY <5>1 DEF DepartInv, GoneIsForgotten
        <5> QED
          BY <2>2, <5>2
      <4> QED
        BY <4>1, <4>2
    <3> QED
      BY <3>1 DEF GoneIsForgotten
  <2> QED
    BY <2>3, <2>4 DEF DepartInv
<1> QED
  BY <1>5, <1>6

\* No step leaves a viewer registered that is gone, or removes one untold.
LEMMA NextDepartInv == IInv /\ SubIDInv /\ DepartInv /\ [Next]_vars => DepartInv'
<1> SUFFICES ASSUME IInv, SubIDInv, DepartInv, [Next]_vars PROVE DepartInv'
  OBVIOUS
<1> USE ConstantsAssumption DEF mapVars, registerVars, joinVars
<1>1. ASSUME UNCHANGED <<source, subscribers, closed>>,
             \A w \in Viewers :
               status'[w] = "gone" => status[w] \in {"idle", "gone"}
      PROVE  DepartInv'
  <2>1. \A w \in Viewers : \A s \in Streams :
          status[w] = "idle" => w \notin subscribers[s]
    BY DEF IInv, IdleIsFresh, RegisteredCanReceive
  <2> QED
    BY <1>1, <2>1 DEF DepartInv, KeptOrTold, GoneIsForgotten
<1>2. ASSUME NEW v \in Viewers, NEW k \in Keys, Subscribe(v, k) PROVE DepartInv'
  <2>1. PICK s \in Streams :
          /\ subscribers' = [subscribers EXCEPT ![s] = subscribers[s] \cup {v}]
          /\ source' = [source EXCEPT ![v] = s]
    BY <1>2 DEF Subscribe
  <2>2. status' = [status EXCEPT ![v] = "watching"] /\ closed' = closed
    BY <1>2 DEF Subscribe
  <2>3. \A t \in Streams : \A w \in Viewers \ {v} :
          w \in subscribers'[t] <=> w \in subscribers[t]
    BY <2>1 DEF IInv, TypeOK
  <2>4. v \in subscribers'[s] /\ source'[v] = s /\ status'[v] = "watching"
    BY <2>1, <2>2 DEF IInv, TypeOK
  <2>5. \A w \in Viewers \ {v} : source'[w] = source[w] /\ status'[w] = status[w]
    BY <2>1, <2>2 DEF IInv, TypeOK
  <2>6. \A w \in Viewers : source[w] # None => source[w] \in Streams
    BY DEF IInv, TypeOK
  <2>7. KeptOrTold'
    BY <2>2, <2>3, <2>4, <2>5, <2>6 DEF DepartInv, KeptOrTold
  <2>8. GoneIsForgotten'
    BY <2>3, <2>4, <2>5 DEF DepartInv, GoneIsForgotten
  <2> QED
    BY <2>7, <2>8 DEF DepartInv
<1>3. ASSUME NEW s \in Streams, CloseStream(s) PROVE DepartInv'
  <2>1. /\ UNCHANGED <<source, status>>
        /\ closed' = [w \in Viewers |-> closed[w] \/ w \in subscribers[s]]
        /\ subscribers' = [subscribers EXCEPT ![s] = {}]
    BY <1>3 DEF CloseStream, RunEnds, CloseChannels
  <2>2. \A t \in Streams : subscribers'[t] = IF t = s THEN {} ELSE subscribers[t]
    BY <2>1 DEF IInv, TypeOK
  <2>3. \A w \in Viewers : source[w] # None => source[w] \in Streams
    BY DEF IInv, TypeOK
  <2>4. KeptOrTold'
    BY <2>1, <2>2, <2>3 DEF DepartInv, KeptOrTold
  <2>5. GoneIsForgotten'
    BY <2>1, <2>2 DEF DepartInv, GoneIsForgotten
  <2> QED
    BY <2>4, <2>5 DEF DepartInv
<1>4. ASSUME NEW v \in Viewers, RefuseSubscribe(v) \/ SeeEnd(v) \/ Disconnect(v)
      PROVE  DepartInv'
  <2>1. UNCHANGED <<source, subscribers, closed>>
    BY <1>4 DEF RefuseSubscribe, SeeEnd, Disconnect
  <2>2. \A w \in Viewers : status'[w] = "gone" => status[w] \in {"idle", "gone"}
    BY <1>4 DEF RefuseSubscribe, SeeEnd, Disconnect, IInv, TypeOK
  <2> QED
    BY <1>1, <2>1, <2>2
<1>5. CASE UNCHANGED <<source, subscribers, closed, status>>
  BY <1>1, <1>5
<1>6. ASSUME NEW v \in Viewers, Receive(v) \/ OfferNotice(v) \/ OfferRecord(v)
      PROVE  DepartInv'
  BY <1>5, <1>6 DEF Receive, OfferNotice, OfferRecord
<1>7. ASSUME NEW s \in Streams,
             \/ Emit(s) \/ ProviderReturns(s) \/ BroadcastRecord(s) \/ SkipRecord(s)
             \/ BroadcastError(s) \/ TimerFires(s) \/ StopIfUnused(s)
      PROVE  DepartInv'
  BY <1>5, <1>7
  DEF Emit, ProviderReturns, BroadcastRecord, SkipRecord, BroadcastError,
      BeginBroadcast, TimerFires, StopIfUnused
<1>8. CASE UNCHANGED vars
  BY <1>5, <1>8 DEF vars
<1> QED
  <2>1. ASSUME NEW v \in Viewers, Viewer(v) PROVE DepartInv'
    BY <1>2, <1>4, <1>6, <2>1, UnsubscribeDeparts DEF Viewer
  <2>2. ASSUME NEW s \in Streams, Upstream(s) PROVE DepartInv'
    BY <1>3, <1>7, <2>2 DEF Upstream
  <2> QED
    BY <1>8, <2>1, <2>2 DEF Next

LEMMA AlwaysDepartInv == Spec => []DepartInv
<1>1. Spec => []SubIDInv
  BY InitSubIDInv, NextSubIDInv, AlwaysIInv, PTL DEF Spec
<1> QED
  BY <1>1, InitDepartInv, NextDepartInv, AlwaysIInv, PTL DEF Spec

\* Whoever watches a stream that has ended finds a closed channel behind what is
\* still queued, so the reader that EndReachesViewer speaks of never waits for
\* another send (manager.go:139-147).
THEOREM EndsAreTold == Spec => []EndIsTold
<1>1. IInv /\ DepartInv => EndIsTold
  <2>1. ASSUME IInv, DepartInv, NEW v \in Viewers,
               source[v] # None, phase[source[v]] = "closed"
        PROVE  closed[v]
    <3>1. source[v] \in Streams
      BY <2>1 DEF IInv, TypeOK
    <3>2. v \notin subscribers[source[v]]
      BY <2>1, <3>1 DEF IInv, RegisteredCanReceive
    <3> QED
      BY <2>1, <3>2 DEF DepartInv, KeptOrTold
  <2> QED
    BY <2>1 DEF EndIsTold
<1> QED
  BY <1>1, AlwaysIInv, AlwaysDepartInv, PTL

\* An unsubscribe that has run leaves no trace of its viewer, although it looks
\* the stream up again under the key and may find another one by then: the
\* second half of LeaverIsForgotten (manager.go:86-106).
THEOREM LeaversAreForgotten == Spec => []GoneIsForgotten
<1>1. DepartInv => GoneIsForgotten
  BY DEF DepartInv
<1> QED
  BY <1>1, AlwaysDepartInv, PTL
=============================================================================
