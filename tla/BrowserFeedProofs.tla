------------------------- MODULE BrowserFeedProofs -------------------------
(***************************************************************************)
(* The theorem about BrowserFeed, for any number of viewers, requests and  *)
(* streams that share one counter.                                         *)
(*                                                                         *)
(* The listener knows the highest number it has received, which may be     *)
(* that of a drop notice that overtook the record of its broadcast.  What  *)
(* makes its comparison safe is NumberInv, about numbers in feeds: a       *)
(* record that a viewer missed has taken a number between that of the next *)
(* record and everything that came before, notices included.               *)
(***************************************************************************)
EXTENDS BrowserFeed, SharedStreamProofs

\* Everything up to position i of a feed has a number below number.
Before(feed, i, number) == \A k \in 1 .. i : feed[k].seq < number

\* A record that does not follow its predecessor in the stream has a number
\* that follows none of those before.
GapsShow(feed) ==
  \A i, j \in 1 .. Len(feed) :
    /\ i < j
    /\ feed[i].kind # "dropped" /\ feed[j].kind # "dropped"
    /\ feed[j].n > feed[i].n + 1
    => Before(feed, i, feed[j].seq - 1)

\* Everything up to a record older than n has a number below number.
Reached(feed, n, number) ==
  \A i \in 1 .. Len(feed) :
    feed[i].kind # "dropped" /\ feed[i].n < n => Before(feed, i, number)

\* The numbers in a feed have all been given.
Given(feed) == \A k \in 1 .. Len(feed) : 1 <= feed[k].seq /\ feed[k].seq <= sequence

\* A record that v has missed took a number of its own, above all that came
\* up to the record before it; and so did the record that is being broadcast.
FeedIsNumbered(v) ==
  /\ Given(Feed(v))
  /\ GapsShow(Feed(v))
  /\ source[v] # None => Reached(Feed(v), Settled(v), sequence)
  /\ v \in sending.left =>
       /\ Reached(Feed(v), Settled(v) + 1, sending.entry.seq)
       /\ Reached(Feed(v), Settled(v), sending.entry.seq - 1)

\* The numbers in a ring grow.
RingIsNumbered ==
  \A s \in Streams :
    /\ Given(ring[s])
    /\ \A i, j \in 1 .. Len(ring[s]) : i < j => ring[s][i].seq < ring[s][j].seq

EntryIsNumbered ==
  Locked => 1 <= sending.entry.seq /\ sending.entry.seq <= sequence

NumberInv ==
  /\ RingIsNumbered
  /\ EntryIsNumbered
  /\ \A v \in Viewers : FeedIsNumbered(v)

-----------------------------------------------------------------------------
(* Lemmas about feeds *)

LEMMA EntriesHaveNumbers ==
  ASSUME NEW feed \in Seq(Entry)
  PROVE  \A k \in 1 .. Len(feed) :
           feed[k] \in Entry /\ feed[k].n \in Nat /\ feed[k].seq \in Nat
<1>1. \A k \in 1 .. Len(feed) : feed[k] \in Entry
  OBVIOUS
<1> QED
  BY <1>1 DEF Entry

LEMMA ReachedLater ==
  ASSUME NEW feed \in Seq(Entry), NEW n \in Int, NEW number \in Int,
         NEW m \in Int, NEW higher \in Int,
         Reached(feed, n, number), m <= n, number <= higher
  PROVE  Reached(feed, m, higher)
<1>1. \A k \in 1 .. Len(feed) : feed[k].n \in Nat /\ feed[k].seq \in Nat
  BY EntriesHaveNumbers
<1>2. ASSUME NEW i \in 1 .. Len(feed), feed[i].kind # "dropped", feed[i].n < m
      PROVE  Before(feed, i, higher)
  <2>1. Before(feed, i, number)
    BY <1>1, <1>2 DEF Reached
  <2>2. \A k \in 1 .. i : k \in 1 .. Len(feed)
    OBVIOUS
  <2> QED
    BY <1>1, <2>1, <2>2 DEF Before
<1> QED
  BY <1>2 DEF Reached

\* All the numbers of a feed are below the next one.
LEMMA ReachedByNext ==
  ASSUME NEW feed \in Seq(Entry), NEW n \in Int, NEW number \in Nat,
         Given(feed), sequence \in Nat, sequence < number
  PROVE  Reached(feed, n, number)
<1>1. \A k \in 1 .. Len(feed) : feed[k].seq \in Nat
  BY EntriesHaveNumbers
<1>2. ASSUME NEW i \in 1 .. Len(feed)
      PROVE  Before(feed, i, number)
  <2>1. \A k \in 1 .. i : k \in 1 .. Len(feed)
    OBVIOUS
  <2> QED
    BY <1>1, <2>1 DEF Before, Given
<1> QED
  BY <1>2 DEF Reached

LEMMA AppendedAtEnd ==
  ASSUME NEW feed \in Seq(Entry), NEW e \in Entry
  PROVE  /\ Append(feed, e) \in Seq(Entry)
         /\ Len(Append(feed, e)) = Len(feed) + 1 /\ Len(feed) \in Nat
         /\ \A i \in 1 .. Len(feed) : Append(feed, e)[i] = feed[i]
         /\ Append(feed, e)[Len(feed) + 1] = e
         /\ \A number : \A i \in 1 .. Len(feed) :
              Before(Append(feed, e), i, number) <=> Before(feed, i, number)
<1> DEFINE long == Append(feed, e)
<1>1. /\ long \in Seq(Entry)
      /\ Len(long) = Len(feed) + 1 /\ Len(feed) \in Nat
      /\ \A i \in 1 .. Len(feed) : long[i] = feed[i]
      /\ long[Len(feed) + 1] = e
  BY AppendProperties
<1> HIDE DEF long
<1>2. ASSUME NEW i \in 1 .. Len(feed), NEW number
      PROVE  Before(long, i, number) <=> Before(feed, i, number)
  <2>1. \A k \in 1 .. i : long[k] = feed[k]
    BY <1>1
  <2> QED
    BY <2>1 DEF Before
<1> QED
  BY <1>1, <1>2 DEF long

\* A notice at its end tells nothing about the records before it.
LEMMA NumbersWithNotice ==
  ASSUME NEW feed \in Seq(Entry), NEW e \in Entry, e.kind = "dropped"
  PROVE  /\ GapsShow(feed) => GapsShow(Append(feed, e))
         /\ \A n, number : Reached(feed, n, number) => Reached(Append(feed, e), n, number)
<1> DEFINE long == Append(feed, e)
<1>1. /\ Len(long) = Len(feed) + 1 /\ Len(feed) \in Nat
      /\ \A i \in 1 .. Len(feed) : long[i] = feed[i]
      /\ long[Len(feed) + 1] = e
      /\ \A number : \A i \in 1 .. Len(feed) : Before(long, i, number) <=> Before(feed, i, number)
  BY AppendedAtEnd
<1> HIDE DEF long
<1>2. \A i \in 1 .. Len(long) : long[i].kind # "dropped" =>
        i \in 1 .. Len(feed) /\ long[i] = feed[i]
  BY <1>1
<1>3. GapsShow(feed) => GapsShow(long)
  BY <1>1, <1>2 DEF GapsShow
<1>4. \A n, number : Reached(feed, n, number) => Reached(long, n, number)
  BY <1>1, <1>2 DEF Reached
<1> QED
  BY <1>3, <1>4 DEF long

\* The next record closes the feed with its own number.
LEMMA NumbersWithNext ==
  ASSUME NEW feed \in Seq(Entry), NEW e \in Entry, NEW low \in Int, NEW high \in Int,
         Grows(feed, low, high), e.n = high + 1,
         GapsShow(feed), Reached(feed, high + 1, e.seq), Reached(feed, high, e.seq - 1)
  PROVE  /\ GapsShow(Append(feed, e))
         /\ Reached(Append(feed, e), high + 1, e.seq)
<1> DEFINE long == Append(feed, e)
<1>1. /\ Len(long) = Len(feed) + 1 /\ Len(feed) \in Nat
      /\ \A i \in 1 .. Len(feed) : long[i] = feed[i]
      /\ long[Len(feed) + 1] = e
      /\ \A number : \A i \in 1 .. Len(feed) : Before(long, i, number) <=> Before(feed, i, number)
  BY AppendedAtEnd
<1>2. \A i \in 1 .. Len(feed) : feed[i].n \in Nat
  BY EntriesHaveNumbers
<1> HIDE DEF long
<1>3. \A i \in 1 .. Len(long) : i \in 1 .. Len(feed) \/ i = Len(feed) + 1
  BY <1>1
<1>4. ASSUME NEW i \in 1 .. Len(long), NEW j \in 1 .. Len(long), i < j,
             long[i].kind # "dropped", long[j].kind # "dropped",
             long[j].n > long[i].n + 1
      PROVE  Before(long, i, long[j].seq - 1)
  <2>1. i \in 1 .. Len(feed) /\ long[i] = feed[i]
    BY <1>1, <1>4
  <2>2. CASE j \in 1 .. Len(feed)
    <3>1. long[j] = feed[j]
      BY <1>1, <2>2
    <3>2. Before(feed, i, feed[j].seq - 1)
      BY <1>4, <2>1, <2>2, <3>1 DEF GapsShow
    <3> QED
      BY <1>1, <2>1, <3>1, <3>2
  <2>3. CASE j = Len(feed) + 1
    <3>1. long[j] = e
      BY <1>1, <2>3
    <3>2. feed[i].n < high
      BY <1>2, <1>4, <2>1, <3>1
    <3>3. Before(feed, i, e.seq - 1)
      BY <1>4, <2>1, <3>2 DEF Reached
    <3> QED
      BY <1>1, <2>1, <3>1, <3>3
  <2> QED
    BY <1>3, <2>2, <2>3
<1>5. ASSUME NEW i \in 1 .. Len(long), long[i].kind # "dropped", long[i].n < high + 1
      PROVE  Before(long, i, e.seq)
  <2>1. i \in 1 .. Len(feed) /\ long[i] = feed[i]
    BY <1>1, <1>3, <1>5
  <2> QED
    BY <1>1, <1>5, <2>1 DEF Reached
<1>6. GapsShow(long)
  BY <1>4 DEF GapsShow
<1>7. Reached(long, high + 1, e.seq)
  BY <1>5 DEF Reached
<1> QED
  BY <1>6, <1>7 DEF long

-----------------------------------------------------------------------------
(* The numbers of the manager *)

\* Between broadcasts a feed depends on no entry under way.
LEMMA FeedNumbersStay ==
  ASSUME IInv, IInv', NEW v \in Viewers, FeedIsNumbered(v),
         got'[v] = got[v], queue'[v] = queue[v], source'[v] = source[v],
         published'[source[v]] = published[source[v]],
         sequence <= sequence',
         v \in sending'.left <=> v \in sending.left,
         v \in sending.left => sending'.entry = sending.entry
  PROVE  FeedIsNumbered(v)'
<1>1. Feed(v)' = Feed(v) /\ Settled(v)' = Settled(v)
  BY DEF Feed, Settled
<1>2. /\ Feed(v) \in Seq(Entry) /\ sequence \in Nat /\ sequence' \in Nat
      /\ source[v] # None => Settled(v) \in Int
  BY FeedType DEF IInv, TypeOK
<1> HIDE DEF Feed, Settled
<1>3. Given(Feed(v))'
  <2>1. \A k \in 1 .. Len(Feed(v)) : Feed(v)[k].seq \in Nat
    BY <1>2, EntriesHaveNumbers
  <2>2. \A k \in 1 .. Len(Feed(v)) : 1 <= Feed(v)[k].seq /\ Feed(v)[k].seq <= sequence'
    BY <1>2, <2>1 DEF FeedIsNumbered, Given
  <2> QED
    BY <1>1, <2>2 DEF Given
<1>4. source[v] # None => Reached(Feed(v), Settled(v), sequence')
  BY <1>2, ReachedLater DEF FeedIsNumbered
<1>5. /\ GapsShow(Feed(v))
      /\ v \in sending'.left =>
           /\ Reached(Feed(v), Settled(v) + 1, sending'.entry.seq)
           /\ Reached(Feed(v), Settled(v), sending'.entry.seq - 1)
  BY DEF FeedIsNumbered
<1>6. /\ GapsShow(Feed(v)')
      /\ source'[v] # None => Reached(Feed(v)', Settled(v)', sequence')
      /\ v \in sending'.left =>
           /\ Reached(Feed(v)', Settled(v)' + 1, sending'.entry.seq)
           /\ Reached(Feed(v)', Settled(v)', sending'.entry.seq - 1)
  BY <1>1, <1>4, <1>5
<1> QED
  BY <1>3, <1>6 DEF FeedIsNumbered, GapsShow, Reached, Before

\* Most steps give no number and touch neither a ring nor a feed.
LEMMA NumbersStay ==
  ASSUME IInv, IInv', NumberInv,
         UNCHANGED <<source, got, queue, ring, published, sequence, sending>>
  PROVE  NumberInv'
<1>1. RingIsNumbered'
  BY DEF NumberInv, RingIsNumbered, Given
<1>2. EntryIsNumbered'
  BY DEF NumberInv, EntryIsNumbered, Locked
<1>3. \A v \in Viewers : FeedIsNumbered(v)'
  <2>1. sequence <= sequence'
    BY DEF IInv, TypeOK
  <2> QED
    BY <2>1, FeedNumbersStay DEF NumberInv
<1> QED
  BY <1>1, <1>2, <1>3 DEF NumberInv

\* A replay has no gaps, and the numbers of the ring.
LEMMA SubscribeNumbers ==
  ASSUME IInv, IInv', FeedInv, NumberInv, NEW v \in Viewers, NEW k \in Keys,
         Subscribe(v, k)
  PROVE  NumberInv'
<1>1. PICK s \in Streams :
        /\ source' = [source EXCEPT ![v] = s]
        /\ queue' = [queue EXCEPT ![v] = ring[s]]
  BY DEF Subscribe
<1>2. /\ UNCHANGED <<got, ring, published, sequence, sending>>
      /\ ~Locked /\ ~Locked' /\ sending.left = {} /\ sending'.left = {}
      /\ got[v] = <<>> /\ sequence \in Nat
  <2>1. UNCHANGED <<got, ring, published, sequence, sending>> /\ ~Locked
    BY DEF Subscribe, ringVars, sendVars
  <2>2. ~Locked' /\ sending.left = {} /\ sending'.left = {}
    BY <2>1 DEF Locked, NotSending
  <2>3. source[v] = None
    BY DEF Subscribe, IInv, IdleIsFresh
  <2>4. got[v] = <<>>
    BY <2>3 DEF FeedInv, FeedIsSettled
  <2>5. sequence \in Nat
    BY DEF IInv, TypeOK
  <2> QED
    BY <2>1, <2>2, <2>4, <2>5
<1>3. RingIsNumbered' /\ EntryIsNumbered'
  BY <1>2 DEF NumberInv, RingIsNumbered, Given, EntryIsNumbered, Locked
<1>4. ASSUME NEW w \in Viewers \ {v}
      PROVE  FeedIsNumbered(w)'
  <2>1. source'[w] = source[w] /\ queue'[w] = queue[w] /\ sequence <= sequence'
    BY <1>1, <1>2 DEF IInv, TypeOK
  <2> QED
    BY <1>2, <2>1, FeedNumbersStay DEF NumberInv
<1>5. FeedIsNumbered(v)'
  <2> DEFINE r == ring[s]
  <2>1. /\ r \in Seq(Entry) /\ published[s] \in Nat /\ Len(r) \in Nat
        /\ \A i \in 1 .. Len(r) : r[i].seq \in Nat /\ r[i].n = published[s] - Len(r) + i
        /\ \A i, j \in 1 .. Len(r) : i < j => r[i].seq < r[j].seq
        /\ \A i \in 1 .. Len(r) : 1 <= r[i].seq /\ r[i].seq <= sequence
    <3>1. r \in Seq(Entry) /\ published[s] \in Nat /\ Len(r) \in Nat
      BY DEF IInv, TypeOK
    <3>2. \A i \in 1 .. Len(r) : r[i].seq \in Nat
      BY <3>1, EntriesHaveNumbers
    <3> QED
      BY <3>1, <3>2 DEF IInv, RingIsRecent, NumberInv, RingIsNumbered, Given
  <2>2. source'[v] = s /\ queue'[v] = r /\ Feed(v)' = r
    <3>1. source'[v] = s /\ queue'[v] = r
      BY <1>1 DEF IInv, TypeOK
    <3>2. got'[v] \o r = r
      BY <1>2, <2>1, ConcatEmptySeq
    <3> QED
      BY <3>1, <3>2 DEF Feed
  <2>3. Settled(v)' = published[s]
    BY <1>2, <2>1, <2>2 DEF Settled
  <2> HIDE DEF r, Feed, Settled
  <2>4. ASSUME NEW i \in 1 .. Len(r), NEW j \in 1 .. Len(r), i < j, r[j].n > r[i].n + 1
        PROVE  Before(r, i, r[j].seq - 1)
    <3>1. i + 1 \in 1 .. Len(r) /\ i + 1 < j
      BY <2>1, <2>4
    <3>2. r[i + 1].seq < r[j].seq
      BY <2>1, <3>1
    <3>3. ASSUME NEW m \in 1 .. i
          PROVE  r[m].seq < r[j].seq - 1
      <4>1. m \in 1 .. Len(r) /\ m < i + 1
        BY <2>1
      <4>2. r[m].seq < r[i + 1].seq
        BY <2>1, <3>1, <4>1
      <4>3. r[m].seq \in Nat /\ r[i + 1].seq \in Nat /\ r[j].seq \in Nat
        BY <2>1, <3>1, <4>1
      <4> QED
        BY <3>2, <4>2, <4>3
    <3> QED
      BY <3>3 DEF Before
  <2>5. ASSUME NEW i \in 1 .. Len(r), r[i].n < published[s]
        PROVE  Before(r, i, sequence)
    <3>1. i + 1 \in 1 .. Len(r)
      BY <2>1, <2>5
    <3>2. ASSUME NEW m \in 1 .. i
          PROVE  r[m].seq < sequence
      <4>1. m \in 1 .. Len(r) /\ m < i + 1
        BY <2>1
      <4>2. r[m].seq < r[i + 1].seq
        BY <2>1, <3>1, <4>1
      <4>3. r[m].seq \in Nat /\ r[i + 1].seq \in Nat /\ r[i + 1].seq <= sequence
        BY <2>1, <3>1, <4>1
      <4> QED
        BY <1>2, <4>2, <4>3
    <3> QED
      BY <3>2 DEF Before
  <2>6. /\ GapsShow(r)
        /\ Reached(r, published[s], sequence)
        /\ \A i \in 1 .. Len(r) : 1 <= r[i].seq /\ r[i].seq <= sequence
    BY <2>1, <2>4, <2>5 DEF GapsShow, Reached
  <2>7. /\ GapsShow(Feed(v)')
        /\ Reached(Feed(v)', Settled(v)', sequence')
        /\ \A i \in 1 .. Len(Feed(v)') :
             1 <= Feed(v)'[i].seq /\ Feed(v)'[i].seq <= sequence'
    BY <1>2, <2>2, <2>3, <2>6
  <2> QED
    BY <1>2, <2>7 DEF FeedIsNumbered, Given, GapsShow, Reached, Before
<1> QED
  BY <1>3, <1>4, <1>5 DEF NumberInv

\* A broadcast gives its record the next number, above all that was sent.
LEMMA BroadcastNumbers ==
  ASSUME IInv, IInv', FeedInv, NumberInv, NEW s \in Streams,
         NEW kind \in {"record", "error"}, BeginBroadcast(s, kind)
  PROVE  NumberInv'
<1> DEFINE e == [kind |-> kind, n |-> published[s] + 1, count |-> 0, seq |-> sequence + 1]
<1>1. /\ UNCHANGED <<source, got, queue, subscribers>> /\ ~Locked
      /\ sequence \in Nat /\ sequence' = sequence + 1
      /\ ring' = [ring EXCEPT ![s] = RingAppend(ring[s], e)]
      /\ published' = [published EXCEPT ![s] = published[s] + 1]
      /\ published[s] \in Nat /\ e \in Entry
  BY BrowserAssumption
  DEF BeginBroadcast, joinVars, channelVars, registerVars, NumbersErrors, IInv, TypeOK, Entry
<1>2. /\ sending'.left = subscribers[s]
      /\ Locked' => sending'.entry.seq = sequence + 1
      /\ \A w \in sending'.left : sending'.entry.seq = sequence + 1
  BY BrowserAssumption DEF BeginBroadcast, NumbersErrors, Locked, NotSending
<1>3. EntryIsNumbered'
  BY <1>1, <1>2 DEF EntryIsNumbered
<1>4. RingIsNumbered'
  <2> DEFINE r == ring[s]
             longer == RingAppend(ring[s], e)
  <2>1. /\ r \in Seq(Entry) /\ Len(r) <= RingSize /\ Len(r) \in Nat /\ e.seq = sequence + 1
        /\ \A i, j \in 1 .. Len(r) : i < j => r[i].seq < r[j].seq
        /\ \A i \in 1 .. Len(r) : r[i].seq \in Nat /\ 1 <= r[i].seq /\ r[i].seq <= sequence
        /\ RingSize \in Nat /\ RingSize >= 1
    <3>1. r \in Seq(Entry) /\ Len(r) \in Nat /\ Len(r) <= RingSize
          /\ RingSize \in Nat /\ RingSize >= 1
      BY ConstantsAssumption DEF IInv, TypeOK, RingIsRecent
    <3>2. \A i \in 1 .. Len(r) : r[i].seq \in Nat
      BY <3>1, EntriesHaveNumbers
    <3> QED
      BY <3>1, <3>2 DEF NumberInv, RingIsNumbered, Given
  <2>2. /\ Len(r) < RingSize =>
             /\ Len(longer) = Len(r) + 1
             /\ \A i \in 1 .. Len(r) : longer[i] = r[i]
             /\ longer[Len(r) + 1] = e
        /\ Len(r) = RingSize =>
             /\ Len(longer) = RingSize
             /\ \A i \in 1 .. RingSize - 1 : longer[i] = r[i + 1]
             /\ longer[RingSize] = e
    BY <1>1, <2>1, RingAppendShifts
  <2> HIDE DEF r, longer, e
  <2>3. /\ \A i \in 1 .. Len(longer) : 1 <= longer[i].seq /\ longer[i].seq <= sequence + 1
        /\ \A i, j \in 1 .. Len(longer) : i < j => longer[i].seq < longer[j].seq
    <3>1. CASE Len(r) < RingSize
      <4>1. \A i \in 1 .. Len(longer) : i \in 1 .. Len(r) \/ i = Len(r) + 1
        BY <2>1, <2>2, <3>1
      <4>2. /\ \A i \in 1 .. Len(r) : longer[i].seq = r[i].seq
            /\ longer[Len(r) + 1].seq = sequence + 1
        BY <2>1, <2>2, <3>1
      <4>3. ASSUME NEW i \in 1 .. Len(longer)
            PROVE  1 <= longer[i].seq /\ longer[i].seq <= sequence + 1
        <5>1. CASE i = Len(r) + 1
          BY <1>1, <4>2, <5>1
        <5>2. CASE i \in 1 .. Len(r)
          <6>1. r[i].seq \in Nat /\ 1 <= r[i].seq /\ r[i].seq <= sequence
            BY <2>1, <5>2
          <6> QED
            BY <1>1, <4>2, <5>2, <6>1
        <5> QED
          BY <4>1, <5>1, <5>2
      <4>4. ASSUME NEW i \in 1 .. Len(longer), NEW j \in 1 .. Len(longer), i < j
            PROVE  longer[i].seq < longer[j].seq
        <5>1. i \in 1 .. Len(r)
          BY <2>1, <4>1, <4>4
        <5>2. longer[i].seq = r[i].seq /\ r[i].seq \in Nat /\ r[i].seq <= sequence
          BY <2>1, <4>2, <5>1
        <5>3. CASE j = Len(r) + 1
          <6>1. longer[j].seq = sequence + 1
            BY <4>2, <5>3
          <6> QED
            BY <1>1, <5>2, <6>1
        <5>4. CASE j \in 1 .. Len(r)
          <6>1. longer[j].seq = r[j].seq
            BY <4>2, <5>4
          <6>2. r[i].seq < r[j].seq
            BY <2>1, <4>4, <5>1, <5>4
          <6> QED
            BY <5>2, <6>1, <6>2
        <5> QED
          BY <4>1, <5>3, <5>4
      <4> QED
        BY <4>3, <4>4
    <3>2. CASE Len(r) = RingSize
      <4>1. \A i \in 1 .. Len(longer) :
              \/ i \in 1 .. RingSize - 1 /\ i + 1 \in 1 .. Len(r)
              \/ i = RingSize
        BY <2>1, <2>2, <3>2
      <4>2. /\ \A i \in 1 .. RingSize - 1 : longer[i].seq = r[i + 1].seq
            /\ longer[RingSize].seq = sequence + 1
        BY <2>1, <2>2, <3>2
      <4>3. ASSUME NEW i \in 1 .. Len(longer)
            PROVE  1 <= longer[i].seq /\ longer[i].seq <= sequence + 1
        <5>1. CASE i = RingSize
          BY <1>1, <4>2, <5>1
        <5>2. CASE i \in 1 .. RingSize - 1 /\ i + 1 \in 1 .. Len(r)
          <6>1. /\ r[i + 1].seq \in Nat
                /\ 1 <= r[i + 1].seq /\ r[i + 1].seq <= sequence
            BY <2>1, <5>2
          <6> QED
            BY <1>1, <4>2, <5>2, <6>1
        <5> QED
          BY <4>1, <5>1, <5>2
      <4>4. ASSUME NEW i \in 1 .. Len(longer), NEW j \in 1 .. Len(longer), i < j
            PROVE  longer[i].seq < longer[j].seq
        <5>1. i \in 1 .. RingSize - 1 /\ i + 1 \in 1 .. Len(r)
          BY <2>1, <4>1, <4>4
        <5>2. /\ longer[i].seq = r[i + 1].seq
              /\ r[i + 1].seq \in Nat /\ r[i + 1].seq <= sequence
          BY <2>1, <4>2, <5>1
        <5>3. CASE j = RingSize
          <6>1. longer[j].seq = sequence + 1
            BY <4>2, <5>3
          <6> QED
            BY <1>1, <5>2, <6>1
        <5>4. CASE j \in 1 .. RingSize - 1 /\ j + 1 \in 1 .. Len(r)
          <6>1. longer[j].seq = r[j + 1].seq
            BY <4>2, <5>4
          <6>2. r[i + 1].seq < r[j + 1].seq
            <7>1. i + 1 < j + 1
              BY <4>4
            <7> QED
              BY <2>1, <5>1, <5>4, <7>1
          <6> QED
            BY <5>2, <6>1, <6>2
        <5> QED
          BY <4>1, <5>3, <5>4
      <4> QED
        BY <4>3, <4>4
    <3> QED
      BY <2>1, <3>1, <3>2
  <2>4. ring'[s] = longer /\ \A t \in Streams \ {s} : ring'[t] = ring[t]
    BY <1>1 DEF IInv, TypeOK, longer
  <2>5. ASSUME NEW t \in Streams \ {s}
        PROVE  /\ \A i \in 1 .. Len(ring'[t]) :
                    1 <= ring'[t][i].seq /\ ring'[t][i].seq <= sequence + 1
               /\ \A i, j \in 1 .. Len(ring'[t]) :
                    i < j => ring'[t][i].seq < ring'[t][j].seq
    <3>1. ring[t] \in Seq(Entry)
      BY DEF IInv, TypeOK
    <3>2. \A i \in 1 .. Len(ring[t]) : ring[t][i].seq \in Nat
      BY <3>1, EntriesHaveNumbers
    <3> QED
      BY <1>1, <2>4, <3>2 DEF NumberInv, RingIsNumbered, Given
  <2> QED
    BY <1>1, <2>3, <2>4, <2>5 DEF RingIsNumbered, Given
<1>5. ASSUME NEW w \in Viewers
      PROVE  FeedIsNumbered(w)'
  <2>1. Feed(w)' = Feed(w) /\ Feed(w) \in Seq(Entry) /\ Given(Feed(w)) /\ GapsShow(Feed(w))
    BY <1>1, FeedType DEF Feed, NumberInv, FeedIsNumbered, IInv
  <2>2. w \in sending'.left => source[w] = s /\ s # None
    BY <1>2, ConstantsAssumption DEF IInv, RegisteredCanReceive
  <2>3. source[w] # None => Settled(w) \in Int /\ Settled(w)' \in Int
    <3>1. source[w] # None => source[w] \in Streams
      BY DEF IInv, TypeOK
    <3>2. source[w] # None => Settled(w) \in Int
      BY FeedType DEF IInv
    <3>3. source[w] # None => published'[source[w]] \in Nat
      BY <3>1 DEF IInv, TypeOK
    <3> QED
      BY <1>1, <3>2, <3>3 DEF Settled
  <2>4. w \in sending'.left => Settled(w)' = Settled(w)
    <3>1. w \in sending'.left => Settled(w) = published[s]
      BY <1>1, <2>2, SettledWhenFree DEF IInv
    <3>2. w \in sending'.left => Settled(w)' = published'[s] - 1
      BY <1>1, <2>2 DEF Settled
    <3>3. published'[s] = published[s] + 1
      BY <1>1 DEF IInv, TypeOK
    <3> QED
      BY <1>1, <3>1, <3>2, <3>3
  <2> HIDE DEF Feed, Settled, e
  <2>5. source[w] # None => Reached(Feed(w), Settled(w)', sequence + 1)
    BY <1>1, <2>1, <2>3, ReachedByNext
  <2>6. w \in sending'.left =>
          /\ Reached(Feed(w), Settled(w)' + 1, sending'.entry.seq)
          /\ Reached(Feed(w), Settled(w)', sending'.entry.seq - 1)
    <3> SUFFICES ASSUME w \in sending'.left
                 PROVE  /\ Reached(Feed(w), Settled(w)' + 1, sequence + 1)
                        /\ Reached(Feed(w), Settled(w)', (sequence + 1) - 1)
      BY <1>2
    <3>1. Reached(Feed(w), Settled(w), sequence)
      BY <2>2 DEF NumberInv, FeedIsNumbered
    <3>2. (sequence + 1) - 1 = sequence
      BY <1>1
    <3>3. Reached(Feed(w), Settled(w)' + 1, sequence + 1)
      BY <1>1, <2>1, <2>2, <2>3, ReachedByNext
    <3> QED
      BY <2>4, <3>1, <3>2, <3>3
  <2>7. \A k \in 1 .. Len(Feed(w)) : 1 <= Feed(w)[k].seq /\ Feed(w)[k].seq <= sequence + 1
    BY <1>1, <2>1, EntriesHaveNumbers DEF Given
  <2>8. /\ GapsShow(Feed(w)')
        /\ source'[w] # None => Reached(Feed(w)', Settled(w)', sequence')
        /\ \A k \in 1 .. Len(Feed(w)') :
             1 <= Feed(w)'[k].seq /\ Feed(w)'[k].seq <= sequence'
        /\ w \in sending'.left =>
             /\ Reached(Feed(w)', Settled(w)' + 1, sending'.entry.seq)
             /\ Reached(Feed(w)', Settled(w)', sending'.entry.seq - 1)
    BY <1>1, <2>1, <2>5, <2>6, <2>7
  <2> QED
    BY <2>8 DEF FeedIsNumbered, Given, GapsShow, Reached, Before
<1> QED
  BY <1>3, <1>4, <1>5 DEF NumberInv

\* A notice takes a number, too, and lies above all that was sent.
LEMMA NoticeNumbers ==
  ASSUME IInv, IInv', FeedInv, NumberInv, NEW v \in Viewers, OfferNotice(v)
  PROVE  NumberInv'
<1>1. /\ UNCHANGED <<source, got, ring, published>>
      /\ sending'.left = sending.left /\ sending'.entry = sending.entry
      /\ Locked /\ v \in sending.left
      /\ sequence \in Nat /\ sequence' = sequence + 1
  <2>1. sending \in Broadcast /\ Locked
    BY ServingIsBroadcast DEF IInv, OfferNotice
  <2> QED
    BY <2>1 DEF OfferNotice, Broadcast, joinVars, ringVars, Serving, IInv, TypeOK
<1>2. EntryIsNumbered'
  <2>1. sending.entry.seq \in Nat
    BY ServingIsBroadcast DEF IInv, OfferNotice, Entry
  <2> QED
    BY <1>1, <2>1 DEF NumberInv, EntryIsNumbered
<1>3. RingIsNumbered'
  <2>1. ASSUME NEW s \in Streams
        PROVE  \A k \in 1 .. Len(ring[s]) : ring[s][k].seq \in Nat
    <3>1. ring[s] \in Seq(Entry)
      BY DEF IInv, TypeOK
    <3> QED
      BY <3>1, EntriesHaveNumbers
  <2> QED
    BY <1>1, <2>1 DEF NumberInv, RingIsNumbered, Given
<1>4. ASSUME NEW w \in Viewers, queue'[w] = queue[w]
      PROVE  FeedIsNumbered(w)'
  <2>1. sequence <= sequence'
    BY <1>1
  <2> QED
    BY <1>1, <1>4, <2>1, FeedNumbersStay DEF NumberInv
<1>5. CASE HasRoom(v)
  <2>1. Notice(v) \in Entry /\ Notice(v).kind = "dropped" /\ Notice(v).seq = sequence + 1
    BY DEF IInv, TypeOK, Notice, Entry
  <2>2. queue' = [queue EXCEPT ![v] = Append(queue[v], Notice(v))]
    BY <1>5 DEF OfferNotice
  <2>3. /\ Feed(v)' = Append(Feed(v), Notice(v)) /\ Feed(v) \in Seq(Entry)
        /\ \A w \in Viewers \ {v} : queue'[w] = queue[w]
    BY <1>1, <2>1, <2>2, QueuedAtEnd, FeedType DEF IInv
  <2>4. Settled(v)' = Settled(v)
    BY <1>1 DEF Settled
  <2>5. source[v] # None => Settled(v) \in Int
    BY FeedType DEF IInv
  <2> DEFINE long == Append(Feed(v), Notice(v))
  <2> HIDE DEF Feed, Settled
  <2>6. \A k \in 1 .. Len(long) : 1 <= long[k].seq /\ long[k].seq <= sequence + 1
    <3>1. /\ Len(long) = Len(Feed(v)) + 1 /\ Len(Feed(v)) \in Nat
          /\ \A k \in 1 .. Len(Feed(v)) : long[k] = Feed(v)[k]
          /\ long[Len(Feed(v)) + 1] = Notice(v)
      BY <2>1, <2>3, AppendedAtEnd
    <3>2. \A k \in 1 .. Len(Feed(v)) :
            /\ Feed(v)[k].seq \in Nat
            /\ 1 <= Feed(v)[k].seq /\ Feed(v)[k].seq <= sequence
      BY <2>3, EntriesHaveNumbers DEF NumberInv, FeedIsNumbered, Given
    <3> HIDE DEF long
    <3>3. \A k \in 1 .. Len(long) : k \in 1 .. Len(Feed(v)) \/ k = Len(Feed(v)) + 1
      BY <3>1
    <3> QED
      BY <1>1, <2>1, <3>1, <3>2, <3>3
  <2>7. GapsShow(long)
    BY <2>1, <2>3, NumbersWithNotice DEF NumberInv, FeedIsNumbered
  <2>8. source[v] # None => Reached(long, Settled(v), sequence + 1)
    <3>1. source[v] # None => Reached(Feed(v), Settled(v), sequence + 1)
      BY <1>1, <2>3, <2>5, ReachedLater DEF NumberInv, FeedIsNumbered
    <3> QED
      BY <2>1, <2>3, <3>1, NumbersWithNotice
  <2>9. /\ Reached(long, Settled(v) + 1, sending.entry.seq)
        /\ Reached(long, Settled(v), sending.entry.seq - 1)
    BY <1>1, <2>1, <2>3, NumbersWithNotice DEF NumberInv, FeedIsNumbered
  <2> HIDE DEF long
  <2>10. /\ GapsShow(Feed(v)')
         /\ source'[v] # None => Reached(Feed(v)', Settled(v)', sequence')
         /\ \A k \in 1 .. Len(Feed(v)') :
              1 <= Feed(v)'[k].seq /\ Feed(v)'[k].seq <= sequence'
         /\ Reached(Feed(v)', Settled(v)' + 1, sending'.entry.seq)
         /\ Reached(Feed(v)', Settled(v)', sending'.entry.seq - 1)
    BY <1>1, <2>3, <2>4, <2>6, <2>7, <2>8, <2>9 DEF long
  <2>11. FeedIsNumbered(v)'
    BY <2>10 DEF FeedIsNumbered, Given, GapsShow, Reached, Before
  <2> QED
    BY <1>2, <1>3, <1>4, <2>3, <2>11 DEF NumberInv
<1>6. CASE ~HasRoom(v)
  <2>1. queue' = queue
    BY <1>6 DEF OfferNotice
  <2> QED
    BY <1>2, <1>3, <1>4, <2>1 DEF NumberInv
<1> QED
  BY <1>5, <1>6

\* The record that is sent closes the feed with its number; one that is
\* dropped has taken its number all the same.
LEMMA RecordNumbers ==
  ASSUME IInv, IInv', FeedInv, NumberInv, NEW v \in Viewers, OfferRecord(v)
  PROVE  NumberInv'
<1>1. /\ UNCHANGED <<source, got, ring, published, sequence>>
      /\ sending \in Broadcast /\ Locked /\ v \in sending.left
      /\ sending.entry \in Entry /\ sequence \in Nat
  BY ServingIsBroadcast DEF OfferRecord, joinVars, ringVars, IInv, TypeOK, Serving
<1>2. /\ sending'.left = sending.left \ {v}
      /\ Locked' => sending'.entry = sending.entry
      /\ \A w \in sending'.left : sending'.entry = sending.entry
  BY DEF OfferRecord, Locked, NotSending
<1>3. RingIsNumbered' /\ EntryIsNumbered'
  BY <1>1, <1>2 DEF NumberInv, RingIsNumbered, Given, EntryIsNumbered
<1>4. ASSUME NEW w \in Viewers \ {v}, queue'[w] = queue[w]
      PROVE  FeedIsNumbered(w)'
  <2>1. sequence <= sequence' /\ (w \in sending'.left <=> w \in sending.left)
        /\ (w \in sending.left => sending'.entry = sending.entry)
    BY <1>1, <1>2
  <2> QED
    BY <1>1, <1>4, <2>1, FeedNumbersStay DEF NumberInv
<1>5. /\ source[v] # None
      /\ Settled(v)' = Settled(v) + 1 /\ Settled(v) \in Int
      /\ Settled(v) = published[source[v]] - 1
      /\ sending.entry.n = Settled(v) + 1
      /\ sending.entry.seq \in 1 .. sequence
      /\ Feed(v) \in Seq(Entry) /\ base[v] \in Int
  <2>1. source[v] = sending.stream /\ source[v] # None /\ published[source[v]] \in Nat
        /\ Settled(v) \in Int /\ Feed(v) \in Seq(Entry) /\ base[v] \in Nat
    <3>1. source[v] = sending.stream /\ source[v] # None
      BY <1>1, ServingIsBroadcast, ConstantsAssumption
      DEF IInv, BroadcastServesRegistered, RegisteredCanReceive, OfferRecord
    <3> QED
      BY <3>1, FeedType DEF IInv
  <2>2. Settled(v) = published[source[v]] - 1 /\ Settled(v)' = published[source[v]]
    BY <1>1, <1>2, <2>1 DEF Settled
  <2>3. sending.entry.n = published[source[v]]
    BY <1>1, <2>1 DEF FeedInv, EntryIsNewest
  <2>4. sending.entry.seq \in Nat
    BY <1>1 DEF Entry
  <2>5. sending.entry.seq \in 1 .. sequence
    BY <1>1, <2>4 DEF NumberInv, EntryIsNumbered
  <2> HIDE DEF Settled, Feed
  <2> QED
    BY <2>1, <2>2, <2>3, <2>5
<1>6. v \notin sending'.left
  BY <1>2
<1>7. /\ GapsShow(Feed(v)) /\ Given(Feed(v))
      /\ Reached(Feed(v), Settled(v) + 1, sending.entry.seq)
      /\ Reached(Feed(v), Settled(v), sending.entry.seq - 1)
  BY <1>1 DEF NumberInv, FeedIsNumbered
<1> HIDE DEF Settled, Feed
<1>8. CASE HasRoom(v)
  <2> DEFINE long == Append(Feed(v), sending.entry)
  <2>1. queue' = [queue EXCEPT ![v] = Append(queue[v], sending.entry)]
    BY <1>8 DEF OfferRecord
  <2>2. /\ Feed(v)' = long
        /\ \A w \in Viewers \ {v} : queue'[w] = queue[w]
    BY <1>1, <2>1, QueuedAtEnd DEF IInv
  <2>3. Grows(Feed(v), base[v], Settled(v))
    BY <1>5 DEF FeedInv, FeedIsSettled
  <2>4. GapsShow(long) /\ Reached(long, Settled(v) + 1, sending.entry.seq)
    BY <1>1, <1>5, <1>7, <2>3, NumbersWithNext
  <2>5. /\ long \in Seq(Entry) /\ Len(long) = Len(Feed(v)) + 1 /\ Len(Feed(v)) \in Nat
        /\ \A k \in 1 .. Len(Feed(v)) : long[k] = Feed(v)[k]
        /\ long[Len(Feed(v)) + 1] = sending.entry
    BY <1>1, <1>5, AppendedAtEnd
  <2> HIDE DEF long
  <2>6. Reached(long, Settled(v) + 1, sequence)
    BY <1>1, <1>5, <2>4, <2>5, ReachedLater
  <2>7. \A k \in 1 .. Len(long) : 1 <= long[k].seq /\ long[k].seq <= sequence
    <3>1. \A k \in 1 .. Len(long) : k \in 1 .. Len(Feed(v)) \/ k = Len(Feed(v)) + 1
      BY <2>5
    <3> QED
      BY <1>5, <1>7, <2>5, <3>1 DEF Given
  <2>8. /\ GapsShow(Feed(v)')
        /\ Reached(Feed(v)', Settled(v)', sequence')
        /\ \A k \in 1 .. Len(Feed(v)') :
             1 <= Feed(v)'[k].seq /\ Feed(v)'[k].seq <= sequence'
    BY <1>1, <1>5, <2>2, <2>4, <2>6, <2>7
  <2>9. FeedIsNumbered(v)'
    BY <1>6, <2>8 DEF FeedIsNumbered, Given, GapsShow, Reached, Before
  <2> QED
    BY <1>3, <1>4, <2>2, <2>9 DEF NumberInv
<1>9. CASE ~HasRoom(v)
  <2>1. queue' = queue /\ Feed(v)' = Feed(v)
    BY <1>1, <1>9 DEF OfferRecord, Feed
  <2>2. Reached(Feed(v), Settled(v) + 1, sequence)
    <3>1. /\ Settled(v) + 1 \in Int /\ Settled(v) + 1 <= Settled(v) + 1
          /\ sending.entry.seq \in Int /\ sequence \in Int
          /\ sending.entry.seq <= sequence
      BY <1>1, <1>5
    <3> QED
      BY <1>5, <1>7, <3>1, ReachedLater
  <2>3. /\ GapsShow(Feed(v)')
        /\ Reached(Feed(v)', Settled(v)', sequence')
        /\ \A k \in 1 .. Len(Feed(v)') :
             1 <= Feed(v)'[k].seq /\ Feed(v)'[k].seq <= sequence'
    BY <1>1, <1>5, <1>7, <2>1, <2>2 DEF Given
  <2>4. FeedIsNumbered(v)'
    BY <1>6, <2>3 DEF FeedIsNumbered, Given, GapsShow, Reached, Before
  <2> QED
    BY <1>3, <1>4, <2>1, <2>4 DEF NumberInv
<1> QED
  BY <1>8, <1>9

\* What the handler takes from the channel stays in the feed.
LEMMA ReceiveNumbers ==
  ASSUME IInv, IInv', FeedInv, NumberInv, NEW v \in Viewers, Receive(v)
  PROVE  NumberInv'
<1>1. /\ UNCHANGED <<source, ring, published, sequence, sending>>
      /\ queue' = [queue EXCEPT ![v] = Tail(queue[v])]
      /\ got' = [got EXCEPT ![v] = Append(got[v], Head(queue[v]))]
      /\ queue[v] # <<>> /\ sequence \in Nat
  BY DEF Receive, joinVars, ringVars, sendVars, IInv, TypeOK
<1>2. RingIsNumbered' /\ EntryIsNumbered'
  BY <1>1 DEF NumberInv, RingIsNumbered, Given, EntryIsNumbered, Locked
<1>3. ASSUME NEW w \in Viewers \ {v}
      PROVE  FeedIsNumbered(w)'
  <2>1. got'[w] = got[w] /\ queue'[w] = queue[w] /\ sequence <= sequence'
    BY <1>1 DEF IInv, TypeOK
  <2> QED
    BY <1>1, <2>1, FeedNumbersStay DEF NumberInv
<1>4. FeedIsNumbered(v)'
  <2>1. Feed(v)' = Feed(v)
    <3>1. got'[v] = Append(got[v], Head(queue[v])) /\ queue'[v] = Tail(queue[v])
      BY <1>1 DEF IInv, TypeOK
    <3>2. Append(got[v], Head(queue[v])) \o Tail(queue[v]) = got[v] \o queue[v]
      BY <1>1, FeedType, FeedOfReceive DEF IInv
    <3> QED
      BY <3>1, <3>2 DEF Feed
  <2>2. Settled(v)' = Settled(v)
    BY <1>1 DEF Settled
  <2> HIDE DEF Settled, Feed
  <2> QED
    BY <1>1, <2>1, <2>2 DEF NumberInv, FeedIsNumbered, Given, GapsShow, Reached, Before
<1> QED
  BY <1>2, <1>3, <1>4 DEF NumberInv

LEMMA NextNumberInv ==
  ASSUME IInv, IInv', FeedInv, NumberInv, [Next]_vars
  PROVE  NumberInv'
<1> USE DEF ringVars, joinVars, channelVars, sendVars
<1>1. ASSUME UNCHANGED <<source, got, queue, ring, published, sequence, sending>>
      PROVE  NumberInv'
  BY <1>1, NumbersStay
<1>2. ASSUME NEW v \in Viewers, Viewer(v)
      PROVE  NumberInv'
  <2>1. CASE RefuseSubscribe(v) \/ SeeEnd(v) \/ Disconnect(v) \/ Unsubscribe(v)
    BY <1>1, <2>1 DEF RefuseSubscribe, SeeEnd, Disconnect, Unsubscribe
  <2> QED
    BY <1>2, <2>1, SubscribeNumbers, ReceiveNumbers, NoticeNumbers, RecordNumbers
    DEF Viewer
<1>3. ASSUME NEW s \in Streams, Upstream(s)
      PROVE  NumberInv'
  <2>1. CASE BroadcastRecord(s) \/ BroadcastError(s)
    BY <2>1, BroadcastNumbers DEF BroadcastRecord, BroadcastError
  <2>2. CASE CloseStream(s)
    BY <1>1, <2>2 DEF CloseStream, RunEnds
  <2>3. CASE Emit(s) \/ ProviderReturns(s) \/ SkipRecord(s) \/ TimerFires(s)
             \/ StopIfUnused(s)
    BY <1>1, <2>3 DEF Emit, ProviderReturns, SkipRecord, TimerFires, StopIfUnused
  <2> QED
    BY <1>3, <2>1, <2>2, <2>3 DEF Upstream
<1>4. CASE UNCHANGED vars
  BY <1>1, <1>4 DEF vars
<1> QED
  BY <1>2, <1>3, <1>4 DEF Next

LEMMA InitNumberInv == Init => NumberInv
<1> SUFFICES ASSUME Init PROVE NumberInv
  OBVIOUS
<1>1. RingIsNumbered /\ EntryIsNumbered /\ sending.left = {}
  BY DEF Init, RingIsNumbered, Given, EntryIsNumbered, Locked, NotSending
<1>2. ASSUME NEW v \in Viewers
      PROVE  FeedIsNumbered(v)
  <2>1. Feed(v) = <<>> /\ source[v] = None
    BY DEF Init, Feed
  <2> QED
    BY <1>1, <2>1 DEF FeedIsNumbered, Given, GapsShow
<1> QED
  BY <1>1, <1>2 DEF NumberInv

-----------------------------------------------------------------------------
(* The listener *)

\* What the listener keeps is a number it has received.
ListenerInv ==
  /\ lastSequence \in [Viewers -> Nat]
  /\ announced \in [Viewers -> SUBSET Nat]
  /\ \A v \in Viewers :
       IF got[v] = <<>> THEN lastSequence[v] = 0
       ELSE \E k \in 1 .. Len(got[v]) : lastSequence[v] = got[v][k].seq

BInv == IInv /\ FeedInv /\ NumberInv /\ ListenerInv /\ GapIsAnnounced

LEMMA ShowRecordAnnounces ==
  ASSUME BInv, NEW v \in Viewers, ShowRecord(v)
  PROVE  ListenerInv' /\ GapIsAnnounced'
<1> DEFINE g == got[v]
           e == Head(queue[v])
           long == Append(g, e)
<1>1. /\ e \in Entry /\ g \in Seq(Entry) /\ Len(g) \in Nat
      /\ queue[v] # <<>> /\ queue[v] \in Seq(Entry)
  BY FeedType, HeadTailProperties DEF ShowRecord, Receive, BInv, IInv
<1>2. got' = [got EXCEPT ![v] = long] /\ got'[v] = long
  BY DEF ShowRecord, Receive, BInv, IInv, TypeOK
<1>3. /\ announced' = IF Skips(v, e.seq)
                      THEN [announced EXCEPT ![v] = @ \cup {Len(g) + 1}] ELSE announced
      /\ lastSequence' = IF e.seq > lastSequence[v]
                         THEN [lastSequence EXCEPT ![v] = e.seq] ELSE lastSequence
  BY DEF ShowRecord
<1>4. /\ lastSequence \in [Viewers -> Nat] /\ announced \in [Viewers -> SUBSET Nat]
  BY DEF BInv, ListenerInv
<1>5. /\ Len(long) = Len(g) + 1
      /\ \A i \in 1 .. Len(g) : long[i] = g[i]
      /\ long[Len(g) + 1] = e
  BY <1>1, AppendedAtEnd
<1>6. /\ Len(g) + 1 \in 1 .. Len(Feed(v)) /\ Feed(v)[Len(g) + 1] = e
      /\ \A i \in 1 .. Len(g) : i \in 1 .. Len(Feed(v)) /\ Feed(v)[i] = g[i]
  <2>1. Len(queue[v]) \in Nat /\ Len(queue[v]) > 0 /\ e = queue[v][1]
    BY <1>1, HeadTailProperties, EmptySeq
  <2>2. /\ Len(Feed(v)) = Len(g) + Len(queue[v])
        /\ \A i \in 1 .. Len(g) + Len(queue[v]) :
             Feed(v)[i] = IF i <= Len(g) THEN g[i] ELSE queue[v][i - Len(g)]
    BY <1>1, ConcatProperties DEF Feed
  <2> HIDE DEF e, g, Feed
  <2>3. Len(g) + 1 \in 1 .. Len(Feed(v)) /\ Feed(v)[Len(g) + 1] = e
    BY <1>1, <2>1, <2>2
  <2>4. \A i \in 1 .. Len(g) : i \in 1 .. Len(Feed(v)) /\ Feed(v)[i] = g[i]
    BY <1>1, <2>1, <2>2
  <2> QED
    BY <2>3, <2>4
<1>7. /\ Feed(v) \in Seq(Entry)
      /\ \A k \in 1 .. Len(Feed(v)) : Feed(v)[k].seq \in Nat /\ 1 <= Feed(v)[k].seq
  <2>1. Feed(v) \in Seq(Entry)
    BY FeedType DEF BInv, IInv
  <2> QED
    BY <2>1, EntriesHaveNumbers DEF BInv, NumberInv, FeedIsNumbered, Given
<1>8. GapsShow(Feed(v))
  BY DEF BInv, NumberInv, FeedIsNumbered
<1>9. IF g = <<>> THEN lastSequence[v] = 0
      ELSE \E k \in 1 .. Len(g) : lastSequence[v] = g[k].seq
  BY DEF BInv, ListenerInv
<1>10. \A i \in 2 .. Len(g) :
         /\ g[i - 1].kind # "dropped" /\ g[i].kind # "dropped"
         /\ g[i].n > g[i - 1].n + 1
         => i \in announced[v]
  BY DEF BInv, GapIsAnnounced
<1> HIDE DEF g, e, long, Feed
<1>11. e.seq \in Nat /\ 1 <= e.seq /\ lastSequence[v] \in Nat
  BY <1>4, <1>6, <1>7
<1>12. /\ announced[v] \subseteq announced'[v]
       /\ Skips(v, e.seq) => Len(g) + 1 \in announced'[v]
       /\ announced' \in [Viewers -> SUBSET Nat]
  BY <1>1, <1>3, <1>4
<1>13. /\ lastSequence' \in [Viewers -> Nat]
       /\ lastSequence'[v] = IF e.seq > lastSequence[v] THEN e.seq ELSE lastSequence[v]
  BY <1>3, <1>4, <1>11
<1>14. long # <<>> /\ \E k \in 1 .. Len(long) : lastSequence'[v] = long[k].seq
  <2>1. Len(g) + 1 \in 1 .. Len(long) /\ \A i \in 1 .. Len(g) : i \in 1 .. Len(long)
    BY <1>1, <1>5
  <2>2. long # <<>>
    BY <1>1, <1>5
  <2>3. CASE e.seq > lastSequence[v]
    BY <1>5, <1>13, <2>1, <2>2, <2>3
  <2>4. CASE ~(e.seq > lastSequence[v])
    <3>1. g # <<>>
      BY <1>9, <1>11, <2>4
    <3>2. PICK k \in 1 .. Len(g) : lastSequence[v] = g[k].seq
      BY <1>9, <3>1
    <3> QED
      BY <1>5, <1>13, <2>1, <2>2, <2>4, <3>2
  <2> QED
    BY <2>3, <2>4
<1>15. \A w \in Viewers \ {v} :
         /\ got'[w] = got[w] /\ lastSequence'[w] = lastSequence[w]
         /\ announced'[w] = announced[w]
  BY <1>2, <1>3, <1>4 DEF BInv, IInv, TypeOK
<1>16. ListenerInv'
  <2>1. ASSUME NEW w \in Viewers
        PROVE  IF got'[w] = <<>> THEN lastSequence'[w] = 0
               ELSE \E k \in 1 .. Len(got'[w]) : lastSequence'[w] = got'[w][k].seq
    <3>1. CASE w = v
      BY <1>2, <1>14, <3>1
    <3>2. CASE w # v
      BY <1>15, <3>2 DEF BInv, ListenerInv
    <3> QED
      BY <3>1, <3>2
  <2> QED
    BY <1>12, <1>13, <2>1 DEF ListenerInv
<1>17. ASSUME NEW i \in 2 .. Len(long),
              long[i - 1].kind # "dropped", long[i].kind # "dropped",
              long[i].n > long[i - 1].n + 1
       PROVE  i \in announced'[v]
  <2>1. CASE i \in 2 .. Len(g)
    <3>1. i - 1 \in 1 .. Len(g) /\ i \in 1 .. Len(g)
      BY <1>1, <2>1
    <3> QED
      BY <1>5, <1>10, <1>12, <1>17, <2>1, <3>1
  <2>2. CASE i = Len(g) + 1
    <3>1. i - 1 = Len(g) /\ Len(g) \in 1 .. Len(g) /\ long[i] = e /\ long[i - 1] = g[Len(g)]
      BY <1>1, <1>5, <2>2
    <3>2. Before(Feed(v), Len(g), e.seq - 1)
      <4>1. /\ Feed(v)[Len(g)] = long[i - 1] /\ Feed(v)[Len(g) + 1] = long[i]
            /\ Len(g) \in 1 .. Len(Feed(v)) /\ Len(g) + 1 \in 1 .. Len(Feed(v))
            /\ Len(g) < Len(g) + 1
        BY <1>1, <1>6, <3>1
      <4>2. Before(Feed(v), Len(g), Feed(v)[Len(g) + 1].seq - 1)
        BY <1>8, <1>17, <4>1 DEF GapsShow
      <4> QED
        BY <1>6, <4>2
    <3>3. g # <<>>
      BY <3>1
    <3>4. PICK k \in 1 .. Len(g) : lastSequence[v] = g[k].seq
      BY <1>9, <3>3
    <3>5. g[k].seq < e.seq - 1 /\ 1 <= g[k].seq
      BY <1>6, <1>7, <3>2 DEF Before
    <3>6. Skips(v, e.seq)
      BY <1>11, <3>4, <3>5 DEF Skips
    <3> QED
      BY <1>12, <2>2, <3>6
  <2> QED
    BY <1>1, <1>5, <2>1, <2>2
<1>18. GapIsAnnounced'
  <2>1. ASSUME NEW w \in Viewers, NEW i \in 2 .. Len(got'[w]),
               got'[w][i - 1].kind # "dropped", got'[w][i].kind # "dropped",
               got'[w][i].n > got'[w][i - 1].n + 1
        PROVE  i \in announced'[w]
    <3>1. CASE w = v
      BY <1>2, <1>17, <2>1, <3>1
    <3>2. CASE w # v
      BY <1>15, <2>1, <3>2 DEF BInv, GapIsAnnounced
    <3> QED
      BY <3>1, <3>2
  <2> QED
    BY <2>1 DEF GapIsAnnounced
<1> QED
  BY <1>16, <1>18

LEMMA BrowserStep ==
  ASSUME [BrowserNext]_<<vars, browserVars>>
  PROVE  /\ [Next]_vars
         /\ (\E v \in Viewers : ShowRecord(v)) \/ UNCHANGED <<got, browserVars>>
<1>1. ASSUME NEW v \in Viewers, ShowRecord(v)
      PROVE  Next
  BY <1>1 DEF ShowRecord, Next, Viewer
<1>2. ASSUME NEW v \in Viewers,
             \/ \E k \in Keys : Subscribe(v, k)
             \/ RefuseSubscribe(v) \/ SeeEnd(v) \/ Disconnect(v)
             \/ Unsubscribe(v) \/ OfferNotice(v) \/ OfferRecord(v)
      PROVE  Next /\ UNCHANGED got
  <2>1. Next
    BY <1>2 DEF Next, Viewer
  <2>2. UNCHANGED got
    BY <1>2 DEF Subscribe, RefuseSubscribe, SeeEnd, Disconnect, Unsubscribe,
                OfferNotice, OfferRecord
  <2> QED
    BY <2>1, <2>2
<1>3. ASSUME NEW s \in Streams, Upstream(s)
      PROVE  Next /\ UNCHANGED got
  <2>1. Next
    BY <1>3 DEF Next
  <2>2. UNCHANGED got
    BY <1>3
    DEF Upstream, Emit, ProviderReturns, BroadcastRecord, BroadcastError,
        BeginBroadcast, SkipRecord, CloseStream, RunEnds, TimerFires, StopIfUnused
  <2> QED
    BY <2>1, <2>2
<1>4. CASE UNCHANGED <<vars, browserVars>>
  BY <1>4 DEF vars
<1> QED
  BY <1>1, <1>2, <1>3, <1>4 DEF BrowserNext

LEMMA ListenerStays ==
  ASSUME BInv, UNCHANGED <<got, browserVars>>
  PROVE  ListenerInv' /\ GapIsAnnounced'
BY DEF browserVars, BInv, ListenerInv, GapIsAnnounced

\* No gap in what the browser received stays unannounced, however many streams
\* share the counter and whatever mix of drops and notices the browser gets
\* (42-activity-streams.js:90-104, manager.go:150-192).
THEOREM NoGapIsHidden == BrowserSpec => []GapIsAnnounced
<1>1. BrowserInit => BInv
  <2> SUFFICES ASSUME BrowserInit PROVE BInv
    OBVIOUS
  <2>1. ListenerInv /\ GapIsAnnounced
    BY DEF BrowserInit, Init, ListenerInv, GapIsAnnounced
  <2> QED
    BY <2>1, InitIInv, InitFeedInv, InitNumberInv DEF BrowserInit, BInv
<1>2. BInv /\ [BrowserNext]_<<vars, browserVars>> => BInv'
  <2> SUFFICES ASSUME BInv, [BrowserNext]_<<vars, browserVars>> PROVE BInv'
    OBVIOUS
  <2>1. [Next]_vars
    BY BrowserStep
  <2>2. IInv'
    BY <2>1, NextIInv DEF BInv
  <2>3. FeedInv' /\ NumberInv'
    BY <2>1, <2>2, NextFeedInv, NextNumberInv DEF BInv
  <2>4. ListenerInv' /\ GapIsAnnounced'
    BY BrowserStep, ShowRecordAnnounces, ListenerStays
  <2> QED
    BY <2>2, <2>3, <2>4 DEF BInv
<1>3. BInv => GapIsAnnounced
  BY DEF BInv
<1> QED
  BY <1>1, <1>2, <1>3, PTL DEF BrowserSpec
=============================================================================
