----------------------------- MODULE BrowserFeed -----------------------------
(***************************************************************************)
(* The browser end of a shared activity stream: the "activity" listener of *)
(* webembed/src/app/42-activity-streams.js, composed with the manager that *)
(* numbers the records.  The listener compares the sequence number of each *)
(* record with the highest it has seen, and shows a notice of its own when *)
(* numbers are missing in between.                                         *)
(*                                                                         *)
(* The handler that writes the response and the browser that reads it are  *)
(* one step: nothing else sees what is on the wire.  Records are taken to  *)
(* differ in content, so the listener's filter for repeats never applies.  *)
(***************************************************************************)
EXTENDS SharedStream

\* The samples of the metrics manager are not numbered for a listener.
ASSUME BrowserAssumption == Payload = "activity"

VARIABLES
  lastSequence,  \* stream.lastSequence, 0 before the first record
  announced      \* the positions in got before which it showed a notice

browserVars == <<lastSequence, announced>>

BrowserInit ==
  /\ Init
  /\ lastSequence = [v \in Viewers |-> 0]
  /\ announced = [v \in Viewers |-> {}]

\* Mutant: one missing number is let pass.
SkipsBeyondNext(v, seq) == lastSequence[v] > 0 /\ seq > lastSequence[v] + 2

\* The number of the record does not follow the highest number seen.
Skips(v, seq) == lastSequence[v] > 0 /\ seq > lastSequence[v] + 1

\* The listener handles the next record.  A record with a lower number, which
\* a drop notice may have overtaken, leaves lastSequence alone.
ShowRecord(v) ==
  /\ Receive(v)
  /\ LET seq == Head(queue[v]).seq IN
       /\ announced' = IF Skips(v, seq)
                       THEN [announced EXCEPT ![v] = @ \cup {Len(got[v]) + 1}]
                       ELSE announced
       /\ lastSequence' = IF seq > lastSequence[v]
                          THEN [lastSequence EXCEPT ![v] = seq]
                          ELSE lastSequence

BrowserNext ==
  \/ \E v \in Viewers :
       \/ ShowRecord(v)
       \/ /\ \/ \E k \in Keys : Subscribe(v, k)
             \/ RefuseSubscribe(v) \/ SeeEnd(v) \/ Disconnect(v)
             \/ Unsubscribe(v) \/ OfferNotice(v) \/ OfferRecord(v)
          /\ UNCHANGED browserVars
  \/ \E s \in Streams : Upstream(s) /\ UNCHANGED browserVars

BrowserSpec == BrowserInit /\ [][BrowserNext]_<<vars, browserVars>>

-----------------------------------------------------------------------------
\* Where two records follow each other in what the browser received but not in
\* the stream, the browser says so: the numbers given to drop notices, and the
\* notices that overtake the record of their broadcast, never hide a gap
\* (42-activity-streams.js:90-104, manager.go:169-190).
GapIsAnnounced ==
  \A v \in Viewers : \A i \in 2 .. Len(got[v]) :
    LET a == got[v][i - 1]
        b == got[v][i]
    IN a.kind # "dropped" /\ b.kind # "dropped" /\ b.n > a.n + 1 =>
         i \in announced[v]

\* The notice says that records are "missing from" the workload between two
\* sequence numbers, and 43-log-rendering.js that "Sequence numbers identify one
\* upstream stream only."  So it is never shown between two records that are
\* neighbours in the stream.
AnnouncedIsMissing ==
  \A v \in Viewers : \A i \in announced[v] :
    LET a == got[v][i - 1]
        b == got[v][i]
    IN a.kind # "dropped" /\ b.kind # "dropped" => b.n > a.n + 1
=============================================================================
