------------------------------ MODULE LiveFeed ------------------------------
(***************************************************************************)
(* What sharing one live stream among viewers promises, without queues,    *)
(* locks, timers or drop counters: at any time a key is served by at most  *)
(* one stream; a viewer is shown records of the one stream it joined, in   *)
(* the order they were published, none twice, starting no further back     *)
(* than Window records before it joined.  It may miss records.             *)
(*                                                                         *)
(* SharedStream is shown to implement this specification.                  *)
(***************************************************************************)
EXTENDS Naturals

CONSTANTS
  Viewers, Keys, Streams, None,
  Window     \* records a late viewer may be shown from the past

VARIABLES
  current,   \* the stream that serves each key, or None
  log,       \* number of records each stream has published
  finished,  \* the streams that ended
  joined,    \* the stream each viewer joined, or None
  shown      \* the last record each viewer was shown (or may not go behind)

vars == <<current, log, finished, joined, shown>>

TypeOK ==
  /\ current \in [Keys -> Streams \cup {None}]
  /\ log \in [Streams -> Nat]
  /\ finished \in SUBSET Streams
  /\ joined \in [Viewers -> Streams \cup {None}]
  /\ shown \in [Viewers -> Nat]

Init ==
  /\ current = [k \in Keys |-> None]
  /\ log = [s \in Streams |-> 0]
  /\ finished = {}
  /\ joined = [v \in Viewers |-> None]
  /\ shown = [v \in Viewers |-> 0]

\* s serves some key or has ended: it is not available for another request.
Used(s) == s \in finished \/ \E k \in Keys : current[k] = s

\* A viewer joins the stream of its key, which is started if there is none.
Join(v, k) ==
  /\ joined[v] = None
  /\ \E s \in Streams :
       /\ IF current[k] = None THEN ~Used(s) ELSE s = current[k]
       /\ current' = [current EXCEPT ![k] = s]
       /\ joined' = [joined EXCEPT ![v] = s]
       /\ \E from \in 0 .. log[s] :
            /\ from + Window >= log[s]
            /\ shown' = [shown EXCEPT ![v] = from]
  /\ UNCHANGED <<log, finished>>

Publish(s) ==
  /\ \E k \in Keys : current[k] = s
  /\ log' = [log EXCEPT ![s] = @ + 1]
  /\ UNCHANGED <<current, finished, joined, shown>>

\* A viewer is shown a record later than all it has seen, also after the end.
Show(v) ==
  /\ joined[v] # None
  /\ \E n \in shown[v] + 1 .. log[joined[v]] :
       shown' = [shown EXCEPT ![v] = n]
  /\ UNCHANGED <<current, log, finished, joined>>

Finish(s) ==
  /\ \E k \in Keys :
       /\ current[k] = s
       /\ current' = [current EXCEPT ![k] = None]
  /\ finished' = finished \cup {s}
  /\ UNCHANGED <<log, joined, shown>>

Next ==
  \/ \E v \in Viewers : Show(v) \/ \E k \in Keys : Join(v, k)
  \/ \E s \in Streams : Publish(s) \/ Finish(s)

Spec == Init /\ [][Next]_vars
=============================================================================
