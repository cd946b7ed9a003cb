----------------------------- MODULE PodStreams -----------------------------
(***************************************************************************)
(* Stream of the Kubernetes providers, internal/kube/incluster.go (and,    *)
(* line by line the same, kubectl.go): every few seconds it lists the Pods *)
(* of the workload and reconciles the log followers it runs with them.     *)
(*                                                                         *)
(* The cluster is external: Pods that come and go, containers that run,    *)
(* stop and run again, and the lines each run logs.  A line is its number  *)
(* in its run.  What Runwake sees of a container is the number of its run: *)
(* ContainerID and RestartCount change with it.                            *)
(***************************************************************************)
EXTENDS Integers, Sequences, FiniteSets, FiniteSetsExt

CONSTANTS
  Pods, Containers,
  TailLines,   \* request.TailLines
  Previous,    \* request.Previous: the run before the current one is replayed
  MaxRuns,     \* bound: runs of each container
  MaxLines,    \* bound: lines of a run
  MaxBreaks,   \* bound: containers that lose the connection of a follower
  MaxStopping  \* bound: starts whose followers have not stopped at the next tick

ASSUME PodAssumption ==
  /\ IsFiniteSet(Pods) /\ IsFiniteSet(Containers)
  /\ TailLines \in Nat /\ Previous \in BOOLEAN
  /\ MaxRuns \in [Containers -> Nat] 
  /\ MaxLines \in Nat /\ MaxBreaks \in Nat /\ MaxStopping \in Nat

VARIABLES
  pod,        \* of each Pod: "coming", "present" or "gone"
  run,        \* of each container: the number of its run, 0 before the first
  running,    \* of each container: whether that run goes on
  lines,      \* of each container and run: lines logged so far
  phase,      \* of Stream: "begin", "idle", "listed", "closing", "returned"
  cancelled,  \* ctx of Stream is cancelled
  listing,    \* the Pods that were listed, with the runs of their containers
  starts,     \* the pod streams started so far, in order
  active,     \* of each Pod: its entry in active, an index of starts, or 0
  followers,  \* of each start, container and replay or not: its log follower
  delivered,  \* the lines that were sent
  broken      \* containers a follower has lost the connection to

clusterVars  == <<pod, run, running, lines>>
providerVars == <<phase, cancelled, listing, starts, active>>
logVars      == <<followers, delivered, broken>>

vars == <<clusterVars, providerVars, logVars>>

\* A follower: streamLogs of one container.
NotStarted == [state |-> "none", run |-> 0, at |-> 0]
Opening    == [state |-> "opening", run |-> 0, at |-> 0]
Ended      == [state |-> "ended", run |-> 0, at |-> 0]

\* Bound: every Pod is started once, and once more for every run of a container.
MaxStarts ==
  Cardinality(Pods) * (1 + MapThenSumSet(LAMBDA c : MaxRuns[c], Containers))

Runs == UNION {0..MaxRuns[c] : c \in Containers}

\* Start, container, and whether it replays the run before.
Followers == (1..MaxStarts) \X Containers \X BOOLEAN

Init ==
  /\ pod = [p \in Pods |-> "coming"]
  /\ run = [p \in Pods |-> [c \in Containers |-> 0]]
  /\ running = [p \in Pods |-> [c \in Containers |-> FALSE]]
  /\ lines = [p \in Pods |-> [c \in Containers |-> [r \in Runs |-> 0]]]
  /\ phase = "begin" /\ cancelled = FALSE
  /\ listing = <<>> /\ starts = <<>> /\ active = [p \in Pods |-> 0]
  /\ followers = [f \in Followers |-> NotStarted]
  /\ delivered = {} /\ broken = {}

-----------------------------------------------------------------------------
(* The cluster. *)

CreatePod(p) ==
  /\ pod[p] = "coming"
  /\ pod' = [pod EXCEPT ![p] = "present"]
  /\ UNCHANGED <<run, running, lines, providerVars, logVars>>

DeletePod(p) ==
  /\ pod[p] = "present"
  /\ pod' = [pod EXCEPT ![p] = "gone"]
  /\ running' = [running EXCEPT ![p] = [c \in Containers |-> FALSE]]
  /\ UNCHANGED <<run, lines, providerVars, logVars>>

StartContainer(p, c) ==
  /\ pod[p] = "present" /\ ~running[p][c] /\ run[p][c] < MaxRuns[c]
  /\ run' = [run EXCEPT ![p][c] = @ + 1]
  /\ running' = [running EXCEPT ![p][c] = TRUE]
  /\ UNCHANGED <<pod, lines, providerVars, logVars>>

StopContainer(p, c) ==
  /\ running[p][c]
  /\ running' = [running EXCEPT ![p][c] = FALSE]
  /\ UNCHANGED <<pod, run, lines, providerVars, logVars>>

LogLine(p, c) ==
  /\ running[p][c] /\ lines[p][c][run[p][c]] < MaxLines
  /\ lines' = [lines EXCEPT ![p][c][run[p][c]] = @ + 1]
  /\ UNCHANGED <<pod, run, running, providerVars, logVars>>

-----------------------------------------------------------------------------
(* Stream: listing and reconciling. *)

Present == {p \in Pods : pod[p] = "present"}

Over(f) == followers[f].state \in {"none", "ended"}

\* The starts that are cancelled and still have a follower.
Stopping ==
  {i \in DOMAIN starts : starts[i].cancelled /\ \E f \in Followers : f[1] = i /\ ~Over(f)}

\* listSelectedPods.  The first listing is made at once, the others by ticks.
ListPods ==
  /\ phase \in {"begin", "idle"} /\ ~cancelled
  /\ Cardinality(Stopping) <= MaxStopping
  /\ listing' = [p \in Present |-> run[p]]
  /\ phase' = "listed"
  /\ UNCHANGED <<clusterVars, cancelled, starts, active, logVars>>

\* It fails: Stream returns if this was the first, and goes on otherwise.
ListFails ==
  /\ phase = "begin"
  /\ phase' = "returned"
  /\ UNCHANGED <<clusterVars, cancelled, listing, starts, active, logVars>>

\* Mutant: restarts are not noticed.
ChangedNever(p) == FALSE

\* podRuntimeFingerprint of what was listed of p, against that of its entry.
Changed(p) == listing[p] # starts[active[p]].fingerprint

\* The Pods whose followers are started: new ones, and those whose containers
\* have changed.
ToStart == {p \in DOMAIN listing : active[p] = 0 \/ Changed(p)}

\* Mutant: the followers of a Pod that has changed go on.
ToCancelGoneOnly == {p \in Pods : active[p] # 0 /\ p \notin DOMAIN listing}

\* The Pods whose context is cancelled: changed ones, and those that are gone.
ToCancel == {p \in Pods : active[p] # 0 /\ (p \in DOMAIN listing => Changed(p))}

\* Mutant: the entry of a Pod that has changed is not replaced.
NumberOfFirst(order, p) ==
  IF active[p] # 0 THEN active[p]
  ELSE Len(starts) + (CHOOSE i \in DOMAIN order : order[i] = p)

\* startPod for each of the Pods in order: the number of its start.
NumberOf(order, p) == Len(starts) + (CHOOSE i \in DOMAIN order : order[i] = p)

\* Mutant: a run is replayed only if there was one before that.
StartedFollowerLate(entry, c, replay) ==
  IF ~replay \/ (Previous /\ entry.fingerprint[c] > 2) THEN Opening ELSE Ended

\* runAPIPodStreams: a follower for each container, and a replay of the run
\* before if there was one.
StartedFollower(entry, c, replay) ==
  IF ~replay \/ (Previous /\ entry.fingerprint[c] > 1) THEN Opening ELSE Ended

\* reconcile.
Reconcile ==
  \E order \in Bijection(1..Cardinality(ToStart), ToStart) :
    LET started == starts \o [i \in DOMAIN order |->
                     [pod |-> order[i], fingerprint |-> listing[order[i]],
                      cancelled |-> FALSE]]
    IN
    /\ phase = "listed" /\ DOMAIN started \subseteq 1..MaxStarts
    /\ phase' = "idle" /\ listing' = <<>>
    /\ starts' = [i \in DOMAIN started |->
                   IF \E p \in ToCancel : active[p] = i
                   THEN [started[i] EXCEPT !.cancelled = TRUE]
                   ELSE started[i]]
    /\ active' = [p \in Pods |-> IF p \in ToStart THEN NumberOf(order, p)
                                 ELSE IF p \in ToCancel THEN 0 ELSE active[p]]
    /\ followers' = [f \in Followers |->
                      IF f[1] \in DOMAIN started \ DOMAIN starts
                      THEN StartedFollower(started[f[1]], f[2], f[3])
                      ELSE followers[f]]
    /\ UNCHANGED <<clusterVars, cancelled, delivered, broken>>

-----------------------------------------------------------------------------
(* The end of Stream. *)

\* The last viewer has left: the manager cancels ctx.
Cancel ==
  /\ ~cancelled /\ cancelled' = TRUE
  /\ UNCHANGED <<clusterVars, phase, listing, starts, active, logVars>>

\* ctx.Done: the deferred function cancels what is active.
Close ==
  /\ phase = "idle" /\ cancelled
  /\ phase' = "closing"
  /\ starts' = [i \in DOMAIN starts |-> [starts[i] EXCEPT !.cancelled = TRUE]]
  /\ active' = [p \in Pods |-> 0]
  /\ UNCHANGED <<clusterVars, cancelled, listing, logVars>>

\* Before anything was listed, the request fails.
CloseAtOnce ==
  /\ phase = "begin" /\ cancelled
  /\ phase' = "returned"
  /\ UNCHANGED <<clusterVars, cancelled, listing, starts, active, logVars>>

\* Mutant: Stream does not wait for the followers.
WaitedNot == phase = "closing"

\* streams.Wait
Waited == phase = "closing" /\ \A f \in Followers : Over(f)

Return ==
  /\ Waited
  /\ phase' = "returned"
  /\ UNCHANGED <<clusterVars, cancelled, listing, starts, active, logVars>>

-----------------------------------------------------------------------------
(* streamLogs: the followers. *)

PodOf(f) == starts[f[1]].pod

\* The context of the follower.
Stopped(f) == cancelled \/ starts[f[1]].cancelled

SetFollower(f, value) == followers' = [followers EXCEPT ![f] = value]

\* The position in a log of count lines from which tailLines of it are left.
TailOf(count) == IF count <= TailLines THEN 0 ELSE count - TailLines

\* The run whose log the request of f is for: the current one, or the one before.
Requested(f) == run[PodOf(f)][f[2]] - (IF f[3] THEN 1 ELSE 0)

\* The request is answered with that log.
OpenLog(f) ==
  LET p == PodOf(f)
      c == f[2]
      r == Requested(f)
  IN
  /\ followers[f].state = "opening" /\ pod[p] = "present" /\ r > 0
  /\ SetFollower(f, [state |-> "open", run |-> r, at |-> TailOf(lines[p][c][r])])
  /\ UNCHANGED <<clusterVars, providerVars, delivered, broken>>

\* It is refused: there is no such log, yet or any more.
OpenRefused(f) ==
  LET p == PodOf(f) IN
  /\ followers[f].state = "opening"
  /\ pod[p] # "present" \/ run[p][f[2]] = 0
  /\ SetFollower(f, Ended)
  /\ UNCHANGED <<clusterVars, providerVars, delivered, broken>>

\* The next line is sent; a context that is cancelled need not be noticed.
SendLine(f) ==
  LET r == followers[f].run
      n == followers[f].at + 1
  IN
  /\ followers[f].state = "open" /\ n <= lines[PodOf(f)][f[2]][r]
  /\ SetFollower(f, [followers[f] EXCEPT !.at = n])
  /\ delivered' = delivered \cup {<<PodOf(f), f[2], r, n>>}
  /\ UNCHANGED <<clusterVars, providerVars, broken>>

\* Whether the run of f logs nothing more.
RunOver(f) ==
  LET p == PodOf(f) IN
  followers[f].run # run[p][f[2]] \/ ~running[p][f[2]]

\* The log of a run that is over has been read, or is gone with its Pod.
EndOfLog(f) ==
  /\ followers[f].state = "open" /\ RunOver(f)
  /\ \/ followers[f].at = lines[PodOf(f)][f[2]][followers[f].run]
     \/ pod[PodOf(f)] = "gone"
  /\ SetFollower(f, Ended)
  /\ UNCHANGED <<clusterVars, providerVars, delivered, broken>>

\* Mutant: only the request can be cancelled, not the reading of its answer.
StopOpening(f) ==
  /\ followers[f].state = "opening" /\ Stopped(f)
  /\ SetFollower(f, Ended)
  /\ UNCHANGED <<clusterVars, providerVars, delivered, broken>>

\* The context is cancelled.
Stop(f) ==
  /\ followers[f].state \in {"opening", "open"} /\ Stopped(f)
  /\ SetFollower(f, Ended)
  /\ UNCHANGED <<clusterVars, providerVars, delivered, broken>>

\* The connection is lost, or a line is too long for the scanner.
Break(f) ==
  /\ followers[f].state \in {"opening", "open"}
  /\ broken' = broken \cup {<<PodOf(f), f[2]>>} /\ Cardinality(broken') <= MaxBreaks
  /\ SetFollower(f, Ended)
  /\ UNCHANGED <<clusterVars, providerVars, delivered>>

-----------------------------------------------------------------------------
Next ==
  \/ \E p \in Pods : CreatePod(p) \/ DeletePod(p)
  \/ \E p \in Pods, c \in Containers :
       StartContainer(p, c) \/ StopContainer(p, c) \/ LogLine(p, c)
  \/ ListPods \/ ListFails \/ Reconcile
  \/ Cancel \/ Close \/ CloseAtOnce \/ Return
  \/ \E f \in Followers :
       OpenLog(f) \/ OpenRefused(f) \/ SendLine(f) \/ EndOfLog(f) \/ Stop(f) \/ Break(f)

Spec == Init /\ [][Next]_vars

\* The ticker ticks and listings succeed in the end, the goroutines run, and
\* the API server answers.
FairSpec ==
  /\ Spec
  /\ WF_vars(ListPods) /\ WF_vars(Reconcile)
  /\ WF_vars(Close) /\ WF_vars(CloseAtOnce) /\ WF_vars(Return)
  /\ \A f \in Followers :
       /\ WF_vars(OpenLog(f)) /\ WF_vars(OpenRefused(f))
       /\ WF_vars(SendLine(f)) /\ WF_vars(EndOfLog(f)) /\ WF_vars(Stop(f))

-----------------------------------------------------------------------------
Start == [pod : Pods, fingerprint : [Containers -> Runs], cancelled : BOOLEAN]

Follower == [state : {"none", "opening", "open", "ended"},
             run : Runs \cup {0}, at : 0..MaxLines]

Lines == Pods \X Containers \X (Runs \ {0}) \X (1..MaxLines)

\* Every variable has its type; an entry of active is the start of that Pod and
\* its context is not cancelled.
TypeOK ==
  /\ pod \in [Pods -> {"coming", "present", "gone"}]
  /\ run \in [Pods -> [Containers -> Runs]]
  /\ running \in [Pods -> [Containers -> BOOLEAN]]
  /\ lines \in [Pods -> [Containers -> [Runs -> 0..MaxLines]]]
  /\ phase \in {"begin", "idle", "listed", "closing", "returned"}
  /\ cancelled \in BOOLEAN
  /\ DOMAIN listing \subseteq Pods
  /\ \A p \in DOMAIN listing : listing[p] \in [Containers -> Runs]
  /\ starts \in Seq(Start)
  /\ active \in [Pods -> 0..Len(starts)]
  /\ \A p \in Pods : active[p] # 0 =>
       starts[active[p]].pod = p /\ ~starts[active[p]].cancelled
  /\ followers \in [Followers -> Follower]
  /\ delivered \subseteq Lines
  /\ broken \subseteq Pods \X Containers

\* No follower is forgotten: one that runs belongs to the entry of its Pod in
\* active, or its context is cancelled.  No container is followed twice.  And
\* Stream has not returned, so that run has not closed the channel it sends to.
OnlyActiveFollow ==
  \A f \in Followers :
    ~Over(f) => /\ Stopped(f) \/ active[PodOf(f)] = f[1]
                /\ phase # "returned"

\* What becomes of the lines of a run is not Stream's to answer for: the Pod or
\* the viewers have left, a connection was lost, or the container has restarted
\* too often meanwhile.
Excused(p, c, r) ==
  \/ pod[p] = "gone" \/ cancelled \/ phase = "returned"
  \/ <<p, c>> \in broken
  \/ run[p][c] > r + (IF Previous THEN 1 ELSE 0)

\* f has line n of run r still to send.
Ahead(f, r, n) ==
  \/ followers[f].state = "opening" /\ Requested(f) = r
  \/ followers[f].state = "open" /\ followers[f].run = r /\ followers[f].at < n

\* The next reconciliation starts new followers for p.
Outdated(p) == active[p] = 0 \/ starts[active[p]].fingerprint # run[p]

\* No line falls between two followers: one that has not arrived is ahead of a
\* follower of its Pod, or its Pod is about to be given new followers, which begin
\* before it.  (A log that is longer than the tail need not be shown whole.)
NoLineIsLost ==
  \A l \in Lines :
    LET p == l[1]  c == l[2]  r == l[3]  n == l[4] IN
    n <= lines[p][c][r] /\ lines[p][c][r] <= TailLines /\ ~Excused(p, c, r) =>
      \/ l \in delivered
      \/ Outdated(p)
      \/ \E f \in Followers : f[1] = active[p] /\ f[2] = c /\ Ahead(f, r, n)

\* Every line of a container arrives, its restarts included, as long as the Pod
\* and the viewers stay, no connection is lost and the container does not restart
\* twice meanwhile.  (The tail is long enough.)
LinesArrive ==
  \A l \in Lines :
    LET p == l[1]  c == l[2]  r == l[3] IN
    l[4] <= lines[p][c][r]
      ~> \/ l \in delivered
         \/ Excused(p, c, r)

\* Once the last viewer has left, Stream returns.
StreamReturns == cancelled ~> phase = "returned"
=============================================================================
